------------------------------ MODULE Session -------------------------------
(***************************************************************************)
(* One bash session living in a Durable Object: Session                    *)
(* (src/session/session.ts), its CheckpointManager                         *)
(* (src/session/checkpoint-manager.ts) and loadSession                     *)
(* (src/session/factory.ts).                                               *)
(*                                                                         *)
(* Clients call the session's methods, each client one call at a time; the *)
(* idle timer starts checkpoints of its own.  JavaScript interleaves them  *)
(* at every await, so every stretch of code between two awaits is one step *)
(* of the caller that runs it.  The object may be evicted between any two  *)
(* steps (Evict) and is brought back by loadSession (Load).                *)
(*                                                                         *)
(* A command is the number of the call that ran it.  The filesystem is the *)
(* set of commands whose file effects are present, and its tree hash is    *)
(* that set.  A checkpoint's hash is its position in ckpts: the state it   *)
(* hashes carries a timestamp, so two checkpoints never share one.         *)
(***************************************************************************)
EXTENDS SessionStorage

CONSTANTS
  Client,            \* callers of the session's methods
  IdleTimer,         \* the timer of CheckpointManager, an actor of its own
  BranchName,        \* names given to branch() and checkout()
  ForkName,          \* names given to fork()
  NoName,            \* the name of a call that takes none
  Methods,           \* the methods clients call, a subset of AllMethods
  CommandThreshold,  \* config.checkpoint.commandThreshold
  MaxReplayOps,      \* config.checkpoint.maxReplayOps
  StorageFails,      \* may a storage or executor promise reject?
  MaxCalls           \* bound: method calls a behaviour makes

AllMethods == {"exec", "checkpoint", "branch", "checkout", "fork"}

ASSUME SessionAssumption ==
  /\ IdleTimer \notin Client
  /\ NoName \notin BranchName \cup ForkName
  /\ Methods \subseteq AllMethods
  /\ CommandThreshold \in Nat
  /\ MaxReplayOps \in Nat
  /\ StorageFails \in BOOLEAN
  /\ MaxCalls \in Nat

VARIABLES
  (* durable: R2, the object's SQLite and its filesystem *)
  ckpts,         \* checkpoints stored so far, in the order they were put
  head,          \* ref sessions/<id>/HEAD, 0 when absent
  branches,      \* refs branches/<id>/<name>, 0 when absent
  autosave,      \* newest ref branches/<id>/_auto/before-checkout-*, 0 when none
  forkRefs,      \* refs forks/<name>, 0 when absent
  forkHeads,     \* refs sessions/fork/<name>/HEAD, 0 when absent
  wal,           \* the write-ahead log
  files,         \* commands whose file effects are in the filesystem
  (* memory: the Session and its CheckpointManager *)
  up,            \* is the object in memory?
  history,       \* _state.history; after an eviction, what memory held
  treeHash,      \* _state.treeHash
  pendingOps,    \* CheckpointManager.pendingOps
  latest,        \* CheckpointManager.latestCheckpointHash, 0 for null
  armed,         \* is the idle timer running?
  call,          \* what each actor is executing
  (* observation *)
  calls,         \* number of method calls made, the id of the newest
  acked          \* commands whose exec() has resolved

durable == <<ckpts, head, branches, autosave, forkRefs, forkHeads, wal, files>>
refs    == <<branches, autosave, forkRefs, forkHeads>>
memory  == <<history, treeHash, pendingOps, latest, armed>>
vars    == <<durable, up, memory, call, calls, acked>>

Actor    == Client \cup {IdleTimer}
Command  == 1 .. MaxCalls
Entry    == [seq : Nat, cmd : Command]                 \* CommandHistoryEntry
LogEntry == [seq : Nat, cmd : Command, checkpointed : BOOLEAN]
Hash     == Nat                                        \* 0 stands for null
Checkpoint == [hist : Seq(Entry), tree : SUBSET Command, parent : Hash]
Name     == BranchName \cup ForkName \cup {NoName}

MethodName == AllMethods \cup {"idle", "none"}
Await ==
  {"none", "running", "ran", "append", "appended",
   "hash", "hashed", "put", "stored", "marking", "marked",
   "branchRef", "autoRef", "restore", "adopt",
   "fork", "forkPut", "forkRef", "forkHead"}

(* A call in progress: the method, the await it is suspended at (pc) and   *)
(* the local variables it still needs.                                     *)
Call ==
  [method : MethodName, pc : Await,
   cmd : Command \cup {0}, seq : Nat,                  \* exec
   tree : SUBSET Command, ckpt : Checkpoint, id : Hash,
   name : Name, target : Hash, includeWAL : BOOLEAN]

NoCheckpoint == [hist |-> <<>>, tree |-> {}, parent |-> 0]
NoCall ==
  [method |-> "none", pc |-> "none", cmd |-> 0, seq |-> 0, tree |-> {},
   ckpt |-> NoCheckpoint, id |-> 0, name |-> NoName,
   target |-> 0, includeWAL |-> FALSE]

TypeOK ==
  /\ ckpts \in Seq(Checkpoint)
  /\ head \in Hash /\ autosave \in Hash /\ latest \in Hash
  /\ branches \in [BranchName -> Hash]
  /\ forkRefs \in [ForkName -> Hash] /\ forkHeads \in [ForkName -> Hash]
  /\ wal \in Seq(LogEntry)
  /\ files \subseteq Command /\ treeHash \subseteq Command
  /\ acked \subseteq Command
  /\ up \in BOOLEAN /\ armed \in BOOLEAN
  /\ history \in Seq(Entry)
  /\ pendingOps \in Nat
  /\ call \in [Actor -> Call]
  /\ calls \in 0 .. MaxCalls

(* createSession: an empty history over the filesystem as it is.           *)
Init ==
  /\ ckpts = <<>> /\ head = 0 /\ autosave = 0
  /\ branches = [b \in BranchName |-> 0]
  /\ forkRefs = [f \in ForkName |-> 0] /\ forkHeads = [f \in ForkName |-> 0]
  /\ wal = <<>> /\ files = {} /\ treeHash = {}
  /\ up = TRUE /\ history = <<>> /\ pendingOps = 0 /\ latest = 0
  /\ armed = FALSE
  /\ call = [a \in Actor |-> NoCall]
  /\ calls = 0 /\ acked = {}

-----------------------------------------------------------------------------
(* Calls                                                                   *)

At(a, pc) == up /\ call[a].pc = pc

(* Actor a goes on to the next await, with some locals changed.            *)
Goto(a, pc) == call' = [call EXCEPT ![a].pc = pc]
Return(a)   == call' = [call EXCEPT ![a] = NoCall]

(* Client c calls a method: the next call number, a fresh call record.     *)
Begin(c, method, record) ==
  /\ method \in Methods
  /\ up
  /\ call[c] = NoCall
  /\ calls < MaxCalls
  /\ calls' = calls + 1
  /\ call' = [call EXCEPT ![c] = [record EXCEPT !.method = method]]

(* The pcs at which no promise that could reject is outstanding.           *)
Resumed == {"none", "appended", "hashed", "marked", "adopt", "fork"}

(* An awaited promise rejects: the error leaves the method, and what the   *)
(* method did before stays done.                                           *)
Reject(a) ==
  /\ StorageFails
  /\ up
  /\ call[a].pc \notin Resumed
  /\ Return(a)
  /\ UNCHANGED <<durable, up, memory, calls, acked>>

-----------------------------------------------------------------------------
(* Session.exec / run                                                      *)

(* Mutant of Exec: the sequence number counts the pending operations.      *)
ExecFromPending(c) ==
  /\ Begin(c, "exec", [NoCall EXCEPT !.pc = "running", !.cmd = calls + 1,
                                     !.seq = pendingOps])
  /\ UNCHANGED <<durable, up, memory, acked>>

(* runCommand fixes the sequence number before its first await.            *)
Exec(c) ==
  /\ Begin(c, "exec", [NoCall EXCEPT !.pc = "running", !.cmd = calls + 1,
                                     !.seq = Len(history)])
  /\ UNCHANGED <<durable, up, memory, acked>>

(* The executor runs the command against the filesystem.                   *)
RunCommand(c) ==
  /\ At(c, "running")
  /\ files' = files \cup {call[c].cmd}
  /\ Goto(c, "ran")
  /\ UNCHANGED <<ckpts, head, refs, wal, up, memory, calls, acked>>

(* Mutant of PushHistory: the history of before the await is extended.     *)
PushStaleHistory(c) ==
  /\ At(c, "ran")
  /\ history' = Append(SubSeq(history, 1, call[c].seq),
                       [seq |-> call[c].seq, cmd |-> call[c].cmd])
  /\ Goto(c, "append")
  /\ UNCHANGED <<durable, up, treeHash, pendingOps, latest, armed, calls, acked>>

(* Back in runCommand: the entry enters the history, its log record goes   *)
(* to the WAL.                                                             *)
PushHistory(c) ==
  /\ At(c, "ran")
  /\ history' = Append(history, [seq |-> call[c].seq, cmd |-> call[c].cmd])
  /\ Goto(c, "append")
  /\ UNCHANGED <<durable, up, treeHash, pendingOps, latest, armed, calls, acked>>

AppendWAL(c) ==
  /\ At(c, "append")
  /\ wal' = Append(wal, [seq |-> call[c].seq, cmd |-> call[c].cmd,
                         checkpointed |-> FALSE])
  /\ Goto(c, "appended")
  /\ UNCHANGED <<ckpts, head, refs, files, up, memory, calls, acked>>

(* onOperation after the append: count the operation, restart the idle     *)
(* timer, checkpoint at the threshold, else exec resolves.                 *)
CountOperation(c) ==
  /\ At(c, "appended")
  /\ pendingOps' = pendingOps + 1
  /\ armed' = TRUE
  /\ IF pendingOps' >= CommandThreshold
       THEN Goto(c, "hash") /\ UNCHANGED acked
       ELSE Return(c) /\ acked' = acked \cup {call[c].cmd}
  /\ UNCHANGED <<durable, up, history, treeHash, latest, calls>>

-----------------------------------------------------------------------------
(* CheckpointManager.checkpoint, run by any actor                          *)

(* The idle timer fires: checkpointIfNeeded.  Within minInterval of the    *)
(* last checkpoint, or with nothing pending, it returns; it never restarts *)
(* itself.  Time is not modelled: the interval may or may not have passed. *)
FireIdleTimer ==
  /\ up /\ armed
  /\ call[IdleTimer] = NoCall
  /\ armed' = FALSE
  /\ \/ UNCHANGED call
     \/ /\ pendingOps > 0
        /\ call' = [call EXCEPT ![IdleTimer] =
                      [NoCall EXCEPT !.method = "idle", !.pc = "hash"]]
  /\ UNCHANGED <<durable, up, history, treeHash, pendingOps, latest, calls, acked>>

(* getTreeHash answers.                                                    *)
ReadTree(a) ==
  /\ At(a, "hash")
  /\ call' = [call EXCEPT ![a].pc = "hashed", ![a].tree = files]
  /\ UNCHANGED <<durable, up, memory, calls, acked>>

(* Mutant of Snapshot: HEAD is written before the checkpoint.              *)
SnapshotRefFirst(a) ==
  /\ At(a, "hashed")
  /\ call' = [call EXCEPT ![a].pc = "stored", ![a].id = Len(ckpts) + 1]
  /\ UNCHANGED <<durable, up, memory, calls, acked>>

(* buildCurrentState copies the live state, with the tree hash read before.*)
Snapshot(a) ==
  /\ At(a, "hashed")
  /\ call' = [call EXCEPT ![a].pc = "put",
                ![a].ckpt = [hist |-> history, tree |-> call[a].tree,
                             parent |-> latest]]
  /\ UNCHANGED <<durable, up, memory, calls, acked>>

PutCheckpoint(a) ==
  /\ At(a, "put")
  /\ ckpts' = Append(ckpts, call[a].ckpt)
  /\ call' = [call EXCEPT ![a].pc = "stored", ![a].id = Len(ckpts) + 1]
  /\ UNCHANGED <<head, refs, wal, files, up, memory, calls, acked>>

PutHead(a) ==
  /\ At(a, "stored")
  /\ head' = call[a].id
  /\ Goto(a, "marking")
  /\ UNCHANGED <<ckpts, refs, wal, files, up, memory, calls, acked>>

(* getLatestSeq, then markCheckpointed: two awaits taken as one step.  An  *)
(* entry logged between them has a larger seq and is not marked either way *)
(* (a reused seq apart), and no other actor reads the marks.               *)
MarkCheckpointed(a) ==
  /\ At(a, "marking")
  /\ \E seq \in LatestSeq(wal) : wal' = MarkThrough(wal, seq)
  /\ Goto(a, "marked")
  /\ UNCHANGED <<ckpts, head, refs, files, up, memory, calls, acked>>

(* The manager's own bookkeeping; then the method that asked for the       *)
(* checkpoint goes on.                                                     *)
FinishCheckpoint(a) ==
  /\ At(a, "marked")
  /\ pendingOps' = 0
  /\ latest' = call[a].id
  /\ acked' = IF call[a].method = "exec" THEN acked \cup {call[a].cmd} ELSE acked
  /\ CASE call[a].method = "branch"   -> Goto(a, "branchRef")
       [] call[a].method = "checkout" -> Goto(a, "autoRef")
       [] call[a].method = "fork"     -> Goto(a, "fork")
       [] OTHER                       -> Return(a)
  /\ UNCHANGED <<durable, up, history, treeHash, armed, calls>>

ManualCheckpoint(c) ==
  /\ Begin(c, "checkpoint", [NoCall EXCEPT !.pc = "hash"])
  /\ UNCHANGED <<durable, up, memory, acked>>

-----------------------------------------------------------------------------
(* Session.branch and Session.checkout                                     *)

CallBranch(c) ==
  /\ \E b \in BranchName :
       Begin(c, "branch", [NoCall EXCEPT !.pc = "hash", !.name = b])
  /\ UNCHANGED <<durable, up, memory, acked>>

PutBranchRef(c) ==
  /\ At(c, "branchRef")
  /\ branches' = [branches EXCEPT ![call[c].name] = call[c].id]
  /\ Return(c)
  /\ UNCHANGED <<ckpts, head, autosave, forkRefs, forkHeads, wal, files, up,
                 memory, calls, acked>>

(* Mutant of CallCheckout: the manager's last checkpoint is autosaved.     *)
CheckoutWithoutCheckpoint(c) ==
  /\ \E b \in BranchName :
       /\ branches[b] # 0
       /\ Begin(c, "checkout", [NoCall EXCEPT !.pc = "autoRef", !.name = b,
                                              !.id = latest, !.target = branches[b]])
  /\ UNCHANGED <<durable, up, memory, acked>>

(* checkout reads the branch ref first, throws when there is none, and     *)
(* saves the current state as a branch of its own.                         *)
CallCheckout(c) ==
  /\ \E b \in BranchName :
       /\ branches[b] # 0
       /\ Begin(c, "checkout", [NoCall EXCEPT !.pc = "hash", !.name = b,
                                              !.target = branches[b]])
  /\ UNCHANGED <<durable, up, memory, acked>>

PutAutosaveRef(c) ==
  /\ At(c, "autoRef")
  /\ autosave' = call[c].id
  /\ Goto(c, "restore")
  /\ UNCHANGED <<ckpts, head, branches, forkRefs, forkHeads, wal, files, up,
                 memory, calls, acked>>

RestoreFilesystem(c) ==
  /\ At(c, "restore")
  /\ files' = ckpts[call[c].target].tree
  /\ Goto(c, "adopt")
  /\ UNCHANGED <<ckpts, head, refs, wal, up, memory, calls, acked>>

(* this._state = checkpoint.state; the checkpoint manager is not told.     *)
AdoptState(c) ==
  /\ At(c, "adopt")
  /\ history' = ckpts[call[c].target].hist
  /\ treeHash' = ckpts[call[c].target].tree
  /\ Return(c)
  /\ UNCHANGED <<durable, up, pendingOps, latest, armed, calls, acked>>

-----------------------------------------------------------------------------
(* Session.fork                                                            *)

(* From the current state (a checkpoint is made first) or from a stored    *)
(* checkpoint, whose hash is only checked and reported.                    *)
CallFork(c) ==
  /\ \E f \in ForkName, include \in BOOLEAN, from \in 0 .. Len(ckpts) :
       Begin(c, "fork",
         [NoCall EXCEPT !.pc = IF from = 0 THEN "hash" ELSE "fork",
                        !.name = f, !.id = from, !.includeWAL = include])
  /\ UNCHANGED <<durable, up, memory, acked>>

(* The forked state is built from the live state in both cases.            *)
BuildFork(c) ==
  /\ At(c, "fork")
  /\ call' = [call EXCEPT ![c].pc = "forkPut",
                ![c].target = call[c].id,
                ![c].ckpt = [hist |-> IF call[c].includeWAL THEN history ELSE <<>>,
                             tree |-> treeHash, parent |-> 0]]
  /\ UNCHANGED <<durable, up, memory, calls, acked>>

PutForkCheckpoint(c) ==
  /\ At(c, "forkPut")
  /\ ckpts' = Append(ckpts, call[c].ckpt)
  /\ call' = [call EXCEPT ![c].pc = "forkRef", ![c].id = Len(ckpts) + 1]
  /\ UNCHANGED <<head, refs, wal, files, up, memory, calls, acked>>

PutForkRef(c) ==
  /\ At(c, "forkRef")
  /\ forkRefs' = [forkRefs EXCEPT ![call[c].name] = call[c].id]
  /\ Goto(c, "forkHead")
  /\ UNCHANGED <<ckpts, head, branches, autosave, forkHeads, wal, files, up,
                 memory, calls, acked>>

PutForkHead(c) ==
  /\ At(c, "forkHead")
  /\ forkHeads' = [forkHeads EXCEPT ![call[c].name] = call[c].id]
  /\ Return(c)
  /\ UNCHANGED <<ckpts, head, branches, autosave, forkRefs, wal, files, up,
                 memory, calls, acked>>

-----------------------------------------------------------------------------
(* Eviction and recovery                                                   *)

(* The object is evicted: calls, timers and memory die with it.  history   *)
(* alone keeps what memory held, for the properties; nothing reads it      *)
(* while the object is down.                                               *)
Evict ==
  /\ up
  /\ up' = FALSE
  /\ call' = [a \in Actor |-> NoCall]
  /\ armed' = FALSE /\ pendingOps' = 0 /\ latest' = 0 /\ treeHash' = {}
  /\ UNCHANGED <<durable, history, calls, acked>>

(* Mutant of Replayed: the log records themselves are replayed.            *)
ReplayedRecords(entries) == entries

(* The history entry a log entry carries.                                  *)
Replayed(entries) == [k \in DOMAIN entries |-> [seq |-> entries[k].seq,
                                                cmd |-> entries[k].cmd]]

(* Mutant of Load: the replayed commands come before HEAD's.               *)
LoadReplayFirst ==
  /\ ~up
  /\ head # 0
  /\ \E entries \in EntriesSince(wal, Len(ckpts[head].hist)) :
       history' = Replayed(ToReplay(entries, MaxReplayOps)) \o ckpts[head].hist
  /\ treeHash' = ckpts[head].tree
  /\ files' = ckpts[head].tree
  /\ up' = TRUE
  /\ UNCHANGED <<ckpts, head, refs, wal, pendingOps, latest, armed, call, calls,
                 acked>>

(* loadSession: without HEAD the session is not found.  Otherwise HEAD's   *)
(* state, the log since HEAD replayed on it, and the filesystem restored   *)
(* to HEAD's tree.                                                         *)
Load ==
  /\ ~up
  /\ head # 0
  /\ \E entries \in EntriesSince(wal, Len(ckpts[head].hist)) :
       history' = ckpts[head].hist \o Replayed(ToReplay(entries, MaxReplayOps))
  /\ treeHash' = ckpts[head].tree
  /\ files' = ckpts[head].tree
  /\ up' = TRUE
  /\ UNCHANGED <<ckpts, head, refs, wal, pendingOps, latest, armed, call, calls,
                 acked>>

-----------------------------------------------------------------------------
CheckpointStep(a) ==
  \/ ReadTree(a) \/ Snapshot(a) \/ PutCheckpoint(a) \/ PutHead(a)
  \/ MarkCheckpointed(a) \/ FinishCheckpoint(a)

ExecStep(c) == RunCommand(c) \/ PushHistory(c) \/ AppendWAL(c) \/ CountOperation(c)

BranchStep(c) ==
  \/ PutBranchRef(c)
  \/ PutAutosaveRef(c) \/ RestoreFilesystem(c) \/ AdoptState(c)

ForkStep(c) ==
  BuildFork(c) \/ PutForkCheckpoint(c) \/ PutForkRef(c) \/ PutForkHead(c)

NewCall(c) ==
  Exec(c) \/ ManualCheckpoint(c) \/ CallBranch(c) \/ CallCheckout(c) \/ CallFork(c)

Step(a) == CheckpointStep(a) \/ ExecStep(a) \/ BranchStep(a) \/ ForkStep(a)

Next ==
  \/ \E c \in Client : NewCall(c)
  \/ \E a \in Actor : Step(a) \/ Reject(a)
  \/ FireIdleTimer
  \/ Evict
  \/ Load

Spec == Init /\ [][Next]_vars

-----------------------------------------------------------------------------
(* Properties.  Which Methods and how many Clients each one supposes is    *)
(* stated with it; the configurations choose accordingly.                  *)

Commands(entries) == {entries[i].cmd : i \in DOMAIN entries}

Extends(longer, shorter) ==
  /\ Len(shorter) <= Len(longer)
  /\ \A i \in 1 .. Len(shorter) : longer[i] = shorter[i]

(* Every reference a reader may follow names a checkpoint that is already  *)
(* stored: HEAD, branches, autosaves, forks.  putRef comes after           *)
(* putCheckpoint in every method, also when callers interleave, promises   *)
(* reject or the object is evicted in between.                             *)
RefsResolve ==
  /\ {head, autosave} \subseteq 0 .. Len(ckpts)
  /\ \A b \in BranchName : branches[b] \in 0 .. Len(ckpts)
  /\ \A f \in ForkName : {forkRefs[f], forkHeads[f]} \subseteq 0 .. Len(ckpts)

(* While no client calls checkout: the history in memory (when the object  *)
(* is down, the one lost) continues the one in HEAD, however late or out   *)
(* of order overlapping checkpoints move HEAD and however often the        *)
(* session was recovered.                                                  *)
HistoryExtendsHead == head # 0 => Extends(history, ckpts[head].hist)

(* Recovery never records a command twice: what the log replays is not     *)
(* already in the checkpoint.  For one client, nothing rejecting, no       *)
(* checkout, and a log within maxReplayOps.                                *)
NoCommandTwice ==
  \A i, j \in DOMAIN history : history[i].cmd = history[j].cmd => i = j

(* Whatever exec() has acknowledged and the history still holds is in HEAD *)
(* or in the log at HEAD's length or beyond, so recovery could find it.    *)
(* Same suppositions as NoCommandTwice.                                    *)
Recoverable ==
  head # 0 =>
    \A m \in acked \cap Commands(history) :
      \/ m \in Commands(ckpts[head].hist)
      \/ \E i \in DOMAIN wal :
           wal[i].cmd = m /\ wal[i].seq >= Len(ckpts[head].hist)

(* The acknowledged commands a recovery drops.                             *)
Dropped == (acked \cap Commands(history)) \ Commands(history')

(* One recovery drops at most one acknowledged command (the one whose seq  *)
(* is HEAD's length: the log is asked for larger ones).  Same suppositions.*)
LosesAtMostOne == [][~up /\ up' => Cardinality(Dropped) <= 1]_vars

(* "Survive DO eviction via R2 checkpointing" (session.ts:43): a recovery  *)
(* drops no acknowledged command.                                          *)
LosesNone == [][~up /\ up' => Dropped = {}]_vars

(* "Get WAL entries since checkpoint" (factory.ts:177): recovery brings    *)
(* back no command that the history had left behind.                       *)
RecoversOnlyHistory == [][~up /\ up' => Commands(history') \subseteq Commands(history)]_vars

(* With a single client, checkout drops no work: when it replaces the      *)
(* history, every command of the old one is in the autosaved branch.       *)
CheckoutKeepsWork ==
  \A c \in Client : call[c].pc = "adopt" =>
    /\ autosave # 0
    /\ Commands(history) \subseteq Commands(ckpts[autosave].hist)

(* The abstract promise: saved is the length of HEAD's history, logged the *)
(* commands in the write-ahead log.                                        *)
Durable ==
  INSTANCE DurableHistory WITH
    hist  <- [i \in DOMAIN history |-> history[i].cmd],
    saved <- IF head = 0 THEN 0 ELSE Len(ckpts[head].hist),
    logged <- Commands(wal)

(* The session implements DurableHistory as long as no client calls        *)
(* checkout: with any number of clients, rejections and evictions.         *)
KeepsDurableHistory == Durable!Spec
=============================================================================
