--------------------------- MODULE TieredExecutor ---------------------------
(***************************************************************************)
(* TieredExecutor of src/src/do/tiered-executor.ts with the executors it   *)
(* hands a command to, PipelineExecutor and LanguageRouter.  Callers share *)
(* one executor and its ClassificationCache; each await of execute() is a  *)
(* point where another caller may go on, and a run that lost the race      *)
(* against its timer goes on without anybody waiting for it.               *)
(*                                                                         *)
(* A command is one segment of a pipeline, without variables before its    *)
(* name and without a path in it.  What a command prints is the number of  *)
(* the run that printed it.                                                *)
(*                                                                         *)
(* External: the services, workers and sandbox that run commands.          *)
(***************************************************************************)
EXTENDS Integers, Sequences

CONSTANTS Callers,      \* who calls execute()
          Commands,     \* commands: a name and what the rest of the text decides
          Calls,        \* bound: the pipelines that are called, with a redirection or not
          Asked,        \* bound: the commands classified without being run
          Configs,      \* TieredExecutorConfig: the bindings that are there
          Language,     \* the languages other than bash
          NativeNames,  \* TIER_1_NATIVE_COMMANDS
          FsNames,      \* TIER_1_FS_COMMANDS
          Unsupported,  \* those of them NativeExecutor does not implement
          RpcNames,     \* rpcCommandSet
          Loadable,     \* LOADABLE_MODULES
          Custom,       \* the other modules of configured worker loaders
          Interpreter,  \* the language of the names of INTERPRETERS
          Packages,     \* PACKAGE_MANAGER_TO_LANGUAGE
          CacheSize     \* maxSize of the cache

Bash == "bash"

FullTextNames == {"npm", "python", "python3"}

Handlers == {"native", "npm", "polyglot", "rpc", "loader", "sandbox"}

\* A TierClassification: handler, capability, and whether it has a sandboxStrategy
Classes == [handler : Handlers, language : Language \union {Bash}, analysed : BOOLEAN]

\* A call that was not dispatched yet
None == [handler |-> "none", language |-> Bash, analysed |-> FALSE]

CommandType ==
    [name : STRING, text : STRING, query : BOOLEAN,
     shebang : Language \union {Bash}, ending : Language \union {Bash},
     syntax : Language \union {Bash}]

ConfigType ==
    [fs : BOOLEAN, sandbox : BOOLEAN, loaders : BOOLEAN, workers : SUBSET Language]

ASSUME TieredAssumption ==
    /\ Bash \notin Language
    /\ Commands \subseteq CommandType
    /\ \A c, d \in Commands : c.name = d.name /\ c.text = d.text => c = d
    /\ Calls \subseteq [pipe : Seq(Commands), redirected : BOOLEAN]
    /\ Asked \subseteq Commands
    /\ Configs \subseteq ConfigType
    /\ \A n \in DOMAIN Interpreter : Interpreter[n] \in Language \union {Bash}
    /\ \A n \in DOMAIN Packages : Packages[n] \in Language
    /\ CacheSize \in Nat \ {0}

VARIABLES
    has,    \* the configuration
    cache,  \* classificationCache, the entry used longest ago first
    pc,     \* what each call awaits
    pipe,   \* the segments of its pipeline
    stage,  \* the segment it is at
    input,  \* the stdin of that segment
    class,  \* the classification it was dispatched by
    catches,\* the catch blocks that would still try the sandbox
    runs    \* all runs of the call, the one it awaits last

vars == <<has, cache, pc, pipe, stage, input, class, catches, runs>>

------------------------------------------------------------------------------
(* Classification *)

\* detectLanguage: a shebang, then the interpreter, the file ending, the syntax
Detected(c) ==
    IF c.shebang # Bash THEN c.shebang
    ELSE IF c.name \in DOMAIN Interpreter THEN Interpreter[c.name]
    ELSE IF c.ending # Bash THEN c.ending
    ELSE c.syntax

Routed(c) == IF c.name \in DOMAIN Packages THEN Packages[c.name] ELSE Detected(c)

IsLoaded(n) == n \in Loadable \/ (has.loaders /\ n \in Custom)

To(handler) == [handler |-> handler, language |-> Bash, analysed |-> FALSE]

\* classifyCommandInternal
Class(c) ==
    IF c.name \in NativeNames
    THEN To(IF c.name \in FsNames /\ ~has.fs THEN "sandbox" ELSE "native")
    ELSE IF c.name = "npm" /\ c.query THEN To("npm")
    ELSE IF Routed(c) \in has.workers
    THEN [handler |-> "polyglot", language |-> Routed(c), analysed |-> FALSE]
    ELSE IF Routed(c) # Bash
    THEN [handler |-> "sandbox", language |-> Bash, analysed |-> TRUE]
    ELSE IF c.name \in RpcNames THEN To("rpc")
    ELSE IF IsLoaded(c.name) THEN To("loader")
    ELSE To("sandbox")

\* Mutant of Key: npm and python share the key of their name
KeyByName(c) == <<c.name>>

\* getCacheKey
Key(c) == IF c.name \in FullTextNames THEN <<c.name, c.text>> ELSE <<c.name>>

Hits(key) == {i \in DOMAIN cache : cache[i].key = key}

Without(i) == SubSeq(cache, 1, i - 1) \o SubSeq(cache, i + 1, Len(cache))

\* Mutant of Insert: the cache grows past its size before it evicts
InsertLate(entry) ==
    Append(IF Len(cache) > CacheSize THEN Tail(cache) ELSE cache, entry)

\* ClassificationCache.set of a key that is not there
Insert(entry) ==
    Append(IF Len(cache) >= CacheSize THEN Tail(cache) ELSE cache, entry)

\* classifyCommand: what it returns and what it leaves in the cache
Classification(c) ==
    IF Hits(Key(c)) # {} THEN cache[CHOOSE i \in Hits(Key(c)) : TRUE].class ELSE Class(c)

CacheAfter(c) ==
    IF Hits(Key(c)) # {}
    THEN LET i == CHOOSE j \in Hits(Key(c)) : TRUE IN Append(Without(i), cache[i])
    ELSE IF Class(c).analysed THEN cache
    ELSE Insert([key |-> Key(c), class |-> Class(c)])

------------------------------------------------------------------------------
(* Runs *)

\* The stdin of a call's first segment is the caller's or the redirected file;
\* positive numbers are those of the runs.
FromCaller == -1
FromFile   == 0
Nothing    == -2

\* RpcExecutor and executeNpmNative send a command without its stdin
Handed(where, stdin) == IF where \in {"rpc", "npm"} THEN Nothing ELSE stdin

Run(k, where, stdin) ==
    [stage |-> stage[k], where |-> where, stdin |-> Handed(where, stdin),
     outcome |-> "running"]

Segment(k) == pipe[k][stage[k]]
Last(k)    == runs[k][Len(runs[k])]

Ended(k, outcome) == [runs[k] EXCEPT ![Len(runs[k])].outcome = outcome]

\* Mutants of Guards: the outer catch also retries the sandbox, or serves workers only
GuardsAll(handler) ==
    CASE handler = "sandbox" -> 1
      [] handler = "polyglot" -> 2
      [] OTHER -> 1

GuardsWorkers(handler) == IF handler = "polyglot" THEN 2 ELSE 0

\* How many catch blocks that try the sandbox surround the run of a class
Guards(handler) ==
    CASE handler = "sandbox" -> 0
      [] handler = "polyglot" -> 2
      [] OTHER -> 1

\* A run is awaited; a worker's answer has begun and the rest of it is awaited
Awaits == {"running", "body"}

\* The outcomes a run can report, its timer apart
Outcomes(k) ==
    LET n == Segment(k).name IN
    CASE Last(k).where = "native" -> IF n \in Unsupported THEN {"fail"} ELSE {"ok", "fail"}
      [] Last(k).where = "npm" -> {"ok", "fail"}
      [] Last(k).where = "loader" -> IF has.loaders /\ n \in Loadable THEN {"fail"} ELSE {"threw"}
      [] Last(k).where = "polyglot" /\ pc[k] = "running" -> {"threw"}
      [] OTHER -> {"ok", "fail", "threw"}

\* Mutant of Thrown: the sandbox is not handed the segment's stdin
ThrownWithoutInput(k, outcome) ==
    IF has.sandbox /\ catches[k] > 0
    THEN /\ runs' = [runs EXCEPT ![k] = Append(Ended(k, outcome), Run(k, "sandbox", FromCaller))]
         /\ catches' = [catches EXCEPT ![k] = @ - 1]
         /\ pc' = [pc EXCEPT ![k] = "running"]
    ELSE /\ runs' = [runs EXCEPT ![k] = Ended(k, outcome)]
         /\ pc' = [pc EXCEPT ![k] = "rejected"]
         /\ UNCHANGED catches

\* An error is final unless a catch block is left and there is a sandbox
Thrown(k, outcome) ==
    IF has.sandbox /\ catches[k] > 0
    THEN /\ runs' = [runs EXCEPT ![k] = Append(Ended(k, outcome), Run(k, "sandbox", input[k]))]
         /\ catches' = [catches EXCEPT ![k] = @ - 1]
         /\ pc' = [pc EXCEPT ![k] = "running"]
    ELSE /\ runs' = [runs EXCEPT ![k] = Ended(k, outcome)]
         /\ pc' = [pc EXCEPT ![k] = "rejected"]
         /\ UNCHANGED catches

------------------------------------------------------------------------------
(* Actions *)

Init ==
    /\ has \in Configs
    /\ cache = <<>>
    /\ pc = [k \in Callers |-> "idle"]
    /\ pipe = [k \in Callers |-> <<>>]
    /\ stage = [k \in Callers |-> 1]
    /\ input = [k \in Callers |-> FromCaller]
    /\ class = [k \in Callers |-> None]
    /\ catches = [k \in Callers |-> 0]
    /\ runs = [k \in Callers |-> <<>>]

\* An empty pipeline is answered at once
Begun(p) == IF p = <<>> THEN "done" ELSE "next"

\* execute(): a redirection is read first, if there is a file system to read from
Execute(k, call) ==
    /\ pc[k] = "idle"
    /\ pc' = [pc EXCEPT ![k] =
                IF call.redirected /\ has.fs THEN "reading" ELSE Begun(call.pipe)]
    /\ pipe' = [pipe EXCEPT ![k] = call.pipe]
    /\ UNCHANGED <<has, cache, stage, input, class, catches, runs>>

\* The file is read, or the call is answered with exit code 1
ReadInput(k, found) ==
    /\ pc[k] = "reading"
    /\ pc' = [pc EXCEPT ![k] = IF found THEN Begun(pipe[k]) ELSE "done"]
    /\ input' = IF found THEN [input EXCEPT ![k] = FromFile] ELSE input
    /\ UNCHANGED <<has, cache, pipe, stage, class, catches, runs>>

\* executeSingleCommand up to its await
ExecuteSegment(k) ==
    LET cls == Classification(Segment(k)) IN
    /\ pc[k] = "next"
    /\ cache' = CacheAfter(Segment(k))
    /\ class' = [class EXCEPT ![k] = cls]
    /\ catches' = [catches EXCEPT ![k] = Guards(cls.handler)]
    /\ IF cls.handler = "sandbox" /\ ~has.sandbox
       THEN /\ pc' = [pc EXCEPT ![k] = "rejected"]
            /\ UNCHANGED runs
       ELSE /\ pc' = [pc EXCEPT ![k] = "running"]
            /\ runs' = [runs EXCEPT ![k] = Append(@, Run(k, cls.handler, input[k]))]
    /\ UNCHANGED <<has, pipe, stage, input>>

\* The fetch of a worker resolves: its timer has lost, and the body has none
Responds(k) ==
    /\ pc[k] = "running"
    /\ Last(k).where = "polyglot"
    /\ pc' = [pc EXCEPT ![k] = "body"]
    /\ UNCHANGED <<has, cache, pipe, stage, input, class, catches, runs>>

\* A run exits with 0: its output is the next segment's stdin
Succeeds(k) ==
    /\ pc[k] \in Awaits
    /\ "ok" \in Outcomes(k)
    /\ runs' = [runs EXCEPT ![k] = Ended(k, "ok")]
    /\ IF stage[k] = Len(pipe[k])
       THEN /\ pc' = [pc EXCEPT ![k] = "done"]
            /\ UNCHANGED <<stage, input>>
       ELSE /\ pc' = [pc EXCEPT ![k] = "next"]
            /\ stage' = [stage EXCEPT ![k] = @ + 1]
            /\ input' = [input EXCEPT ![k] = Len(runs[k])]
    /\ UNCHANGED <<has, cache, pipe, class, catches>>

\* Another exit code ends the pipeline
Fails(k) ==
    /\ pc[k] \in Awaits
    /\ "fail" \in Outcomes(k)
    /\ runs' = [runs EXCEPT ![k] = Ended(k, "fail")]
    /\ pc' = [pc EXCEPT ![k] = "done"]
    /\ UNCHANGED <<has, cache, pipe, stage, input, class, catches>>

\* A service or the sandbox cannot be reached, or a worker's result has the words
\* Network error in its stderr, whoever wrote them
Throws(k) ==
    /\ pc[k] \in Awaits
    /\ "threw" \in Outcomes(k)
    /\ Thrown(k, "threw")
    /\ UNCHANGED <<has, cache, pipe, stage, input, class>>

\* Mutant of TimesOut: the sandbox runs without a timer
TimesOutWorkers(k) ==
    /\ pc[k] = "running"
    /\ Last(k).where = "polyglot"
    /\ runs' = [runs EXCEPT ![k] = Ended(k, "late")]
    /\ pc' = [pc EXCEPT ![k] = "done"]
    /\ UNCHANGED <<has, cache, pipe, stage, input, class, catches>>

\* The timer of a worker's or the sandbox's run wins its race, and the run goes on:
\* PolyglotExecutor reports exit code 1, the ResourceLimitEnforcer throws.
TimesOut(k) ==
    /\ pc[k] = "running"
    /\ \/ /\ Last(k).where = "polyglot"
          /\ runs' = [runs EXCEPT ![k] = Ended(k, "late")]
          /\ pc' = [pc EXCEPT ![k] = "done"]
          /\ UNCHANGED catches
       \/ /\ Last(k).where = "sandbox"
          /\ Thrown(k, "late")
    /\ UNCHANGED <<has, cache, pipe, stage, input, class>>

\* classifyCommand() is public: others ask it without running anything
Classify(c) ==
    /\ cache' = CacheAfter(c)
    /\ UNCHANGED <<has, pc, pipe, stage, input, class, catches, runs>>

ClearCaches ==
    /\ cache' = <<>>
    /\ UNCHANGED <<has, pc, pipe, stage, input, class, catches, runs>>

Next ==
    \/ \E k \in Callers :
          \/ \E call \in Calls : Execute(k, call)
          \/ \E found \in BOOLEAN : ReadInput(k, found)
          \/ ExecuteSegment(k)
          \/ Responds(k)
          \/ Succeeds(k)
          \/ Fails(k)
          \/ Throws(k)
          \/ TimesOut(k)
    \/ \E c \in Asked : Classify(c)
    \/ ClearCaches

\* The event loop goes on, the file system answers, modules report and timers fire.
\* Nothing is assumed of a native command, npm's registry, an RPC service or a worker.
Reports(k) ==
    /\ pc[k] = "running"
    /\ Last(k).where = "loader"
    /\ Fails(k) \/ Throws(k)

Fairness ==
    \A k \in Callers :
        /\ WF_vars(\E found \in BOOLEAN : ReadInput(k, found))
        /\ WF_vars(ExecuteSegment(k))
        /\ WF_vars(Reports(k))
        /\ WF_vars(TimesOut(k))

Spec == Init /\ [][Next]_vars /\ Fairness

------------------------------------------------------------------------------
(* Properties *)

Runs ==
    [stage : Nat \ {0}, where : Handlers, stdin : Int,
     outcome : {"running", "ok", "fail", "threw", "late"}]

Entries == [key : {Key(c) : c \in Commands}, class : Classes]

\* The types; the cache is within its size and has one entry for a key, and a
\* call that awaits a run has one.
TypeOK ==
    /\ has \in Configs
    /\ cache \in Seq(Entries)
    /\ Len(cache) <= CacheSize
    /\ \A i, j \in DOMAIN cache : cache[i].key = cache[j].key => i = j
    /\ pc \in [Callers -> {"idle", "reading", "next", "running", "body", "done", "rejected"}]
    /\ pipe \in [Callers -> Seq(Commands)]
    /\ stage \in [Callers -> Nat \ {0}]
    /\ input \in [Callers -> Int]
    /\ class \in [Callers -> Classes \union {None}]
    /\ catches \in [Callers -> 0 .. 2]
    /\ runs \in [Callers -> Seq(Runs)]
    /\ \A k \in Callers : pc[k] \in Awaits \union {"next"} => stage[k] \in DOMAIN pipe[k]
    /\ \A k \in Callers : pc[k] \in Awaits => runs[k] # <<>>

\* The name of a command decides its language: no ending, syntax or shebang does
LanguageByName(c) == \A d \in Commands : d.name = c.name => Detected(d) = Detected(c)

\* Whatever was cached before, by whichever caller, and evicted meanwhile, a
\* command is dispatched as if it were classified anew, if its name decides its
\* language: "Commands that depend on arguments (like `npm`) bypass the cache."
RoutedRight ==
    \A k \in Callers :
        pc[k] \in Awaits /\ LanguageByName(Segment(k)) => class[k] = Class(Segment(k))

\* Segments run one after the other and only after a success of the one before,
\* and every run of a segment that is handed a stdin, also the sandbox's in its
\* stead, is handed that success's output.
PipelineInOrder ==
    \A k \in Callers : \A i \in DOMAIN runs[k] :
        LET r == runs[k][i] IN
        /\ i = 1 => r.stage = 1
        /\ i > 1 =>
              LET q == runs[k][i - 1] IN
              \/ r.stage = q.stage /\ q.outcome \in {"threw", "late"}
              \/ r.stage = q.stage + 1 /\ q.outcome = "ok"
        /\ r.stdin # Nothing =>
              IF r.stage = 1 THEN r.stdin \in {FromCaller, FromFile}
              ELSE /\ r.stdin \in 1 .. (i - 1)
                   /\ runs[k][r.stdin].outcome = "ok"
                   /\ runs[k][r.stdin].stage = r.stage - 1

\* A segment is run again only by the sandbox, and by it once - twice where the
\* run of a language worker was the first.
RunsBounded ==
    \A k \in Callers : \A i, j \in DOMAIN runs[k] :
        i < j /\ runs[k][i].stage = runs[k][j].stage =>
            /\ runs[k][j].where = "sandbox"
            /\ runs[k][i].where = "sandbox" =>
                  /\ j = i + 1
                  /\ i > 1
                  /\ runs[k][i - 1].where = "polyglot"
                  /\ runs[k][i - 1].stage = runs[k][i].stage

\* A call is answered by its last run: by a success only of the last segment, by a
\* rejection only where there is no sandbox or the sandbox itself failed.
SettlesRight ==
    \A k \in Callers :
        /\ pc[k] = "done" =>
              \/ runs[k] = <<>>
              \/ Last(k).outcome = "ok" /\ Last(k).stage = Len(pipe[k])
              \/ Last(k).outcome = "fail"
              \/ Last(k).outcome = "late" /\ Last(k).where = "polyglot"
        /\ pc[k] = "rejected" /\ has.sandbox =>
              /\ runs[k] # <<>>
              /\ Last(k).where = "sandbox"
              /\ Last(k).outcome \in {"threw", "late"}

\* Runs without a timer
Untimed == {"native", "npm", "rpc"}

\* Every call settles, also through failing workers and a sandbox that hangs, or
\* waits for a run without a timer, or the body of a worker's answer, that never ends.
CallsSettle ==
    \A k \in Callers :
        <>[](\/ pc[k] \in {"idle", "done", "rejected", "body"}
             \/ pc[k] = "running" /\ Last(k).where \in Untimed)

==============================================================================
