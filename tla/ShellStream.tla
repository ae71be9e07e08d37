----------------------------- MODULE ShellStream -----------------------------
(***************************************************************************)
(* ShellStreamImpl of src/src/rpc/shell-stream-impl.ts: the handle of one  *)
(* spawned process.  Its event handlers buffer the output and call the     *)
(* registered callbacks one after the other; a callback may use the handle *)
(* (subscribe, unsubscribe, kill, wait, dispose) while the handler still   *)
(* walks the list it is in, or while a subscription still replays to it    *)
(* what it missed.                                                         *)
(*                                                                         *)
(* External, from node:child_process: the process writes its chunks, its   *)
(* exit may be reported before the last of them, an error may be reported  *)
(* instead of an exit (the spawn failed) or of a process that runs on (it  *)
(* could not be killed), and a process that was signalled may end.         *)
(***************************************************************************)
EXTENDS Integers, Sequences, SequencesExt

CONSTANTS Callbacks,  \* the functions of the application
          Interest,   \* bound: the channels each of them is registered for
          MaxChunks,  \* bound: chunks the process writes
          Codes       \* what an exit is reported with: a code, or -1 for a signal

ASSUME StreamAssumption ==
    /\ Interest \in [Callbacks -> SUBSET {"stdout", "stderr", "exit"}]
    /\ MaxChunks \in Nat
    /\ Codes \subseteq Nat \union {-1}

Data     == {"stdout", "stderr"}
Channels == Data \union {"exit"}

VARIABLES
    process,   \* "running", "gone", its end "reported", or "failed" to start
    written,   \* how many chunks of each channel the process has written
    read,      \* and how many of them the stream has read
    signalled, \* the process was sent a signal
    failed,    \* an error was reported
    buffer,    \* _stdoutBuffer, _stderrBuffer, and the exit codes reported
    list,      \* _dataCallbacks, _stderrCallbacks and _exitCallbacks
    walk,      \* the list a handler walks and the position it calls next
    replay,    \* the subscription that replays a buffer, and the position next
    disposed,  \* _disposed
    exited,    \* _exited
    result,    \* _finalResult, NoResult while null
    waiter,    \* the promise of wait(): "none", "pending" or "resolved"
    got,       \* what each callback was called with since registered or disposed
    meddled    \* channels whose list changed while it was walked

child == <<process, written, read, signalled, failed>>
calls == <<walk, replay, got>>
ends  == <<disposed, exited, result, waiter>>
vars  == <<child, buffer, list, calls, ends, meddled>>

NoResult == [out |-> <<>>, err |-> <<>>, code |-> -2]

Idle == [on |-> "none", at |-> 1]

NoReplay == [on |-> "none", cb |-> "none", at |-> 1]

\* A chunk is its number in its channel; 0 is the message of an error
Message == 0

\* s has every chunk up to the n-th exactly once, and these in their order
HasOnce(s, n) ==
    /\ \A k \in 1 .. n : \E i \in DOMAIN s : s[i] = k
    /\ \A i, j \in DOMAIN s : i < j /\ s[i] # Message /\ s[j] # Message => s[i] < s[j]

\* The event loop runs no handler and no method
Quiet == walk = Idle /\ replay = NoReplay

\* The application runs when no handler does, or inside the callback just called
AppRuns == walk = Idle \/ walk.at > 1

------------------------------------------------------------------------------
(* The process *)

Write(ch) ==
    /\ process = "running"
    /\ written["stdout"] + written["stderr"] < MaxChunks
    /\ written' = [written EXCEPT ![ch] = @ + 1]
    /\ UNCHANGED <<process, read, signalled, failed, buffer, list, calls, ends, meddled>>

\* It ends by itself or by its signal; its output is still to be read
Die ==
    /\ process = "running"
    /\ process' = "gone"
    /\ UNCHANGED <<written, read, signalled, failed, buffer, list, calls, ends, meddled>>

------------------------------------------------------------------------------
(* The event handlers of the constructor *)

\* Mutant of OnData: the chunk enters the buffer in front
OnDataInFront(ch) ==
    /\ Quiet
    /\ read[ch] < written[ch]
    /\ read' = [read EXCEPT ![ch] = @ + 1]
    /\ buffer' = [buffer EXCEPT ![ch] = <<read[ch] + 1>> \o @]
    /\ walk' = [on |-> ch, at |-> 1]
    /\ UNCHANGED <<process, written, signalled, failed, list, replay, got, ends, meddled>>

\* 'data': buffer the chunk and start calling the callbacks
OnData(ch) ==
    /\ Quiet
    /\ read[ch] < written[ch]
    /\ read' = [read EXCEPT ![ch] = @ + 1]
    /\ buffer' = [buffer EXCEPT ![ch] = Append(@, read[ch] + 1)]
    /\ walk' = [on |-> ch, at |-> 1]
    /\ UNCHANGED <<process, written, signalled, failed, list, replay, got, ends, meddled>>

\* Mutant of Finish: the number of the signal is the code
FinishWithSignal(code, err) ==
    /\ exited' = TRUE
    /\ result' = [out |-> buffer["stdout"], err |-> err, code |-> IF code = -1 THEN -15 ELSE code]
    /\ buffer' = [buffer EXCEPT !["exit"] = Append(@, code), !["stderr"] = err]
    /\ walk' = [on |-> "exit", at |-> 1]
    /\ UNCHANGED <<written, read, signalled, list, replay, got, disposed, waiter, meddled>>

\* What both ends of a process set before they call the exit callbacks
Finish(code, err) ==
    /\ exited' = TRUE
    /\ result' = [out |-> buffer["stdout"], err |-> err, code |-> code]
    /\ buffer' = [buffer EXCEPT !["exit"] = Append(@, code), !["stderr"] = err]
    /\ walk' = [on |-> "exit", at |-> 1]
    /\ UNCHANGED <<written, read, signalled, list, replay, got, disposed, waiter, meddled>>

\* Mutant of OnExit: the handler is registered for 'close' too
OnExitAndClose(code) ==
    /\ Quiet
    /\ process = "gone"
    /\ process' \in {"gone", "reported"}
    /\ Finish(code, buffer["stderr"])
    /\ UNCHANGED failed

\* 'exit', also of a process whose end an error has reported already
OnExit(code) ==
    /\ Quiet
    /\ process = "gone"
    /\ process' = "reported"
    /\ Finish(code, buffer["stderr"])
    /\ UNCHANGED failed

\* 'error', of a process that did not start and has no exit, or of one that runs
OnError ==
    /\ Quiet
    /\ ~failed
    /\ failed' = TRUE
    /\ ~exited
    /\ \/ UNCHANGED process
       \/ /\ written = [ch \in Data |-> 0]
          /\ process = "running"
          /\ process' = "failed"
    /\ Finish(1, Append(buffer["stderr"], Message))

\* The error of a process that has exited is ignored
OnLateError ==
    /\ Quiet
    /\ ~failed
    /\ failed' = TRUE
    /\ exited
    /\ UNCHANGED <<process, written, read, signalled, buffer, list, calls, ends, meddled>>

\* the next callback of the list, which is looked up again every time
CallNext ==
    /\ replay = NoReplay
    /\ walk # Idle
    /\ walk.at <= Len(list[walk.on])
    /\ got' = [got EXCEPT ![walk.on][list[walk.on][walk.at]] = Append(@, Last(buffer[walk.on]))]
    /\ walk' = [walk EXCEPT !.at = @ + 1]
    /\ UNCHANGED <<child, buffer, list, replay, ends, meddled>>

\* Mutant of CallsDone: only an exit resolves the promise of wait()
CallsDoneOnExitOnly ==
    /\ replay = NoReplay
    /\ walk # Idle
    /\ walk.at > Len(list[walk.on])
    /\ walk' = Idle
    /\ waiter' = IF process = "reported" /\ waiter = "pending" THEN "resolved" ELSE waiter
    /\ UNCHANGED <<child, buffer, list, replay, got, disposed, exited, result, meddled>>

\* the handler ends; an end of the process resolves the promise of wait()
CallsDone ==
    /\ replay = NoReplay
    /\ walk # Idle
    /\ walk.at > Len(list[walk.on])
    /\ walk' = Idle
    /\ waiter' = IF walk.on = "exit" /\ waiter = "pending" THEN "resolved" ELSE waiter
    /\ UNCHANGED <<child, buffer, list, replay, got, disposed, exited, result, meddled>>

------------------------------------------------------------------------------
(* The methods *)

Meddle(ch) == meddled' = IF walk.on = ch THEN meddled \union {ch} ELSE meddled

\* What a new subscriber missed: the whole output, or the last end reported
Missed(ch) == IF ch = "exit" /\ buffer[ch] # <<>> THEN Len(buffer[ch]) ELSE 1

\* Mutant of Subscribe: nothing is replayed
SubscribeOnly(ch, cb) ==
    /\ AppRuns
    /\ replay = NoReplay
    /\ ~disposed
    /\ ch \in Interest[cb]
    /\ ~Contains(list[ch], cb)
    /\ list' = [list EXCEPT ![ch] = Append(@, cb)]
    /\ got' = [got EXCEPT ![ch][cb] = <<>>]
    /\ Meddle(ch)
    /\ UNCHANGED <<child, buffer, walk, replay, ends>>

\* onData, onStderr and onExit up to the first call of the callback
Subscribe(ch, cb) ==
    /\ AppRuns
    /\ replay = NoReplay
    /\ ~disposed
    /\ ch \in Interest[cb]
    /\ ~Contains(list[ch], cb)
    /\ list' = [list EXCEPT ![ch] = Append(@, cb)]
    /\ IF buffer[ch] = <<>>
       THEN /\ got' = [got EXCEPT ![ch][cb] = <<>>]
            /\ UNCHANGED replay
       ELSE /\ got' = [got EXCEPT ![ch][cb] = <<buffer[ch][Missed(ch)]>>]
            /\ replay' = [on |-> ch, cb |-> cb, at |-> Missed(ch) + 1]
    /\ Meddle(ch)
    /\ UNCHANGED <<child, buffer, walk, ends>>

\* the next chunk the subscription replays, whatever the callback did meanwhile
ReplayNext ==
    /\ replay # NoReplay
    /\ replay.at <= Len(buffer[replay.on])
    /\ got' = [got EXCEPT ![replay.on][replay.cb] = Append(@, buffer[replay.on][replay.at])]
    /\ replay' = [replay EXCEPT !.at = @ + 1]
    /\ UNCHANGED <<child, buffer, list, walk, ends, meddled>>

ReplayDone ==
    /\ replay # NoReplay
    /\ replay.at > Len(buffer[replay.on])
    /\ replay' = NoReplay
    /\ UNCHANGED <<child, buffer, list, walk, got, ends, meddled>>

\* the function a subscription has returned
Unsubscribe(ch, cb) ==
    /\ AppRuns
    /\ <<replay.on, replay.cb>> # <<ch, cb>>
    /\ \E i \in DOMAIN list[ch] :
          /\ list[ch][i] = cb
          /\ list' = [list EXCEPT ![ch] = RemoveAt(@, i)]
    /\ got' = [got EXCEPT ![ch][cb] = <<>>]
    /\ Meddle(ch)
    /\ UNCHANGED <<child, buffer, walk, replay, ends>>

Kill ==
    /\ AppRuns
    /\ ~disposed
    /\ ~exited
    /\ signalled' = TRUE
    /\ UNCHANGED <<process, written, read, failed, buffer, list, calls, ends, meddled>>

\* Mutant of Wait: the result is not looked at
WaitAnew ==
    /\ AppRuns
    /\ waiter = "none"
    /\ waiter' = "pending"
    /\ UNCHANGED <<child, buffer, list, calls, disposed, exited, result, meddled>>

\* wait(): every caller shares one promise
Wait ==
    /\ AppRuns
    /\ waiter = "none"
    /\ waiter' = IF result # NoResult THEN "resolved" ELSE "pending"
    /\ UNCHANGED <<child, buffer, list, calls, disposed, exited, result, meddled>>

\* Mutant of Dispose: the lists are left as they are
DisposeKeepingLists ==
    /\ AppRuns
    /\ ~disposed
    /\ disposed' = TRUE
    /\ signalled' = (signalled \/ ~exited)
    /\ UNCHANGED <<process, written, read, failed, buffer, list, calls, exited, result, waiter, meddled>>

\* [Symbol.dispose]: emptying a list also ends the walk along it
Dispose ==
    /\ AppRuns
    /\ ~disposed
    /\ disposed' = TRUE
    /\ signalled' = (signalled \/ ~exited)
    /\ list' = [ch \in Channels |-> <<>>]
    /\ got' = [ch \in Channels |-> [cb \in Callbacks |-> <<>>]]
    /\ UNCHANGED <<process, written, read, failed, buffer, walk, replay, exited, result, waiter, meddled>>

------------------------------------------------------------------------------

Init ==
    /\ process = "running"
    /\ written = [ch \in Data |-> 0]
    /\ read = [ch \in Data |-> 0]
    /\ signalled = FALSE
    /\ failed = FALSE
    /\ buffer = [ch \in Channels |-> <<>>]
    /\ list = [ch \in Channels |-> <<>>]
    /\ walk = Idle
    /\ replay = NoReplay
    /\ disposed = FALSE
    /\ exited = FALSE
    /\ result = NoResult
    /\ waiter = "none"
    /\ got = [ch \in Channels |-> [cb \in Callbacks |-> <<>>]]
    /\ meddled = {}

Next ==
    \/ Die \/ OnError \/ OnLateError
    \/ \E ch \in Data : Write(ch) \/ OnData(ch)
    \/ \E code \in Codes : OnExit(code)
    \/ CallNext \/ CallsDone \/ ReplayNext \/ ReplayDone
    \/ \E ch \in Channels, cb \in Callbacks : Subscribe(ch, cb) \/ Unsubscribe(ch, cb)
    \/ Kill \/ Wait \/ Dispose

\* Callbacks return, so handlers and methods run to their end; the event loop
\* delivers what is due, however often the application uses the handle between
\* two events; and a process that was sent a signal ends.
Fairness ==
    /\ WF_vars(ReplayNext \/ ReplayDone)
    /\ SF_vars(CallNext \/ CallsDone)
    /\ SF_vars(\E ch \in Data : OnData(ch))
    /\ SF_vars(\E code \in Codes : OnExit(code))
    /\ WF_vars(signalled /\ Die)

Spec == Init /\ [][Next]_vars /\ Fairness

------------------------------------------------------------------------------
(* Properties *)

TypeOK ==
    /\ process \in {"running", "gone", "reported", "failed"}
    /\ written \in [Data -> Nat]
    /\ read \in [Data -> Nat]
    /\ signalled \in BOOLEAN
    /\ failed \in BOOLEAN
    /\ buffer \in [Channels -> Seq(Int)]
    /\ list \in [Channels -> Seq(Callbacks)]
    /\ walk \in [on : Channels \union {"none"}, at : Nat \ {0}]
    /\ replay \in [on : Channels \union {"none"}, cb : Callbacks \union {"none"}, at : Nat \ {0}]
    /\ disposed \in BOOLEAN
    /\ exited \in BOOLEAN
    /\ result \in [out : Seq(Int), err : Seq(Int), code : Codes \union {1, -2}]
    /\ waiter \in {"none", "pending", "resolved"}
    /\ got \in [Channels -> [Callbacks -> Seq(Int)]]
    /\ meddled \in SUBSET Channels

\* Whenever it registers, a callback gets every chunk exactly once and in
\* order, unless a callback changed the list it is in while it was walked.
DeliveredOnce ==
    \A ch \in Data : ch \notin meddled /\ walk.on # ch /\ replay.on # ch =>
        \A cb \in ToSet(list[ch]) : HasOnce(got[ch][cb], read[ch])

\* Even then no callback sees a chunk before an earlier one.
DeliveredInOrder ==
    \A ch \in Data : \A cb \in ToSet(list[ch]) :
        LET seen == got[ch][cb] IN
            \A i, j \in DOMAIN seen :
                i < j /\ seen[i] # Message /\ seen[j] # Message => seen[i] <= seen[j]

\* An exit callback is called once, twice when the exit follows an error, unless
\* a callback changed the list of exit callbacks while it was walked.
ExitOnce ==
    "exit" \notin meddled =>
        \A cb \in ToSet(list["exit"]) : Len(got["exit"][cb]) <= IF failed THEN 2 ELSE 1

\* Nobody waits for a process whose end was reported.
NoWaiterLeft == exited /\ walk.on # "exit" => waiter # "pending"

\* A disposed stream has ended its process, unless an error made it believe
\* that the process was gone.
DisposeKills == disposed => signalled \/ process # "running" \/ failed

\* After dispose no handler calls a callback, also not the one it interrupts;
\* only a subscription that replays goes on.
SilentAfterDispose == [][disposed /\ replay = NoReplay => UNCHANGED got]_vars

\* The final result is replaced only by an exit that follows an error.
ResultStands == [][result' # result => result = NoResult \/ (failed /\ result.code = 1)]_vars

\* Who waits for a process that was sent a signal is answered.
KilledIsAnswered == (signalled /\ waiter = "pending") ~> (waiter = "resolved")

==============================================================================
