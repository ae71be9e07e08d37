--------------------------- MODULE Session_proofs ---------------------------
(***************************************************************************)
(* Theorems about Session, for every value of its constants: any number of *)
(* clients, names and calls, any thresholds, with or without rejections.   *)
(***************************************************************************)
EXTENDS Session, TLAPS, SequenceTheorems, FiniteSetTheorems

-----------------------------------------------------------------------------
(* The log operators return what the session expects of them.              *)

LEMMA FunctionIsSeq ==
  ASSUME NEW n \in Nat, NEW S, NEW f \in [1 .. n -> S]
  PROVE  f \in Seq(S) /\ Len(f) = n
OBVIOUS

LEMMA EntriesSinceType ==
  ASSUME NEW log \in Seq(LogEntry), NEW s \in Nat, NEW entries \in EntriesSince(log, s)
  PROVE  entries \in Seq(LogEntry)
<1> DEFINE keep == {i \in DOMAIN log : log[i].seq > s}
<1>1. PICK at \in Enumerations(keep) : entries = [k \in DOMAIN at |-> log[at[k]]]
  BY DEF EntriesSince
<1>2. IsFiniteSet(keep) /\ Cardinality(keep) \in Nat
  <2>1. DOMAIN log = 1 .. Len(log) /\ Len(log) \in Nat
    OBVIOUS
  <2>2. IsFiniteSet(1 .. Len(log))
    BY <2>1, FS_Interval
  <2>3. IsFiniteSet(keep)
    BY <2>1, <2>2, FS_Subset
  <2> QED BY <2>3, FS_CardinalityType
<1>3. at \in [1 .. Cardinality(keep) -> keep]
  BY <1>1 DEF Enumerations
<1>4. entries \in [1 .. Cardinality(keep) -> LogEntry]
  BY <1>1, <1>3
<1> QED BY <1>2, <1>4, FunctionIsSeq

LEMMA MarkThroughType ==
  ASSUME NEW log \in Seq(LogEntry), NEW through
  PROVE  MarkThrough(log, through) \in Seq(LogEntry)
<1> DEFINE marked(i) == [log[i] EXCEPT !.checkpointed = @ \/ log[i].seq <= through]
<1>1. ASSUME NEW i \in DOMAIN log PROVE marked(i) \in LogEntry
  <2>1. log[i] \in LogEntry
    OBVIOUS
  <2>2. (log[i].checkpointed \/ log[i].seq <= through) \in BOOLEAN
    BY Zenon
  <2> QED BY <2>1, <2>2 DEF LogEntry
<1>2. DOMAIN log = 1 .. Len(log) /\ Len(log) \in Nat
  OBVIOUS
<1> HIDE DEF marked
<1>3. [i \in DOMAIN log |-> marked(i)] \in [1 .. Len(log) -> LogEntry]
  BY <1>1, <1>2
<1>4. MarkThrough(log, through) = [i \in DOMAIN log |-> marked(i)]
  BY DEF MarkThrough, marked
<1> QED BY <1>2, <1>3, <1>4, FunctionIsSeq

LEMMA ReplayType ==
  ASSUME NEW entries \in Seq(LogEntry), NEW max \in Nat
  PROVE  Replayed(ToReplay(entries, max)) \in Seq(Entry)
<1>1. ToReplay(entries, max) \in Seq(LogEntry)
  <2>1. CASE Len(entries) <= max \/ max = 0
    BY <2>1 DEF ToReplay
  <2>2. CASE ~(Len(entries) <= max \/ max = 0)
    <3>1. Len(entries) - max + 1 \in 1 .. Len(entries) + 1 /\ Len(entries) \in Nat
      BY <2>2
    <3> QED BY <2>2, <3>1, SubSeqProperties DEF ToReplay
  <2> QED BY <2>1, <2>2
<1> DEFINE kept == ToReplay(entries, max)
<1>2. DOMAIN kept = 1 .. Len(kept) /\ Len(kept) \in Nat
  BY <1>1
<1>3. ASSUME NEW k \in DOMAIN kept
      PROVE  [seq |-> kept[k].seq, cmd |-> kept[k].cmd] \in Entry
  <2>1. kept[k] \in LogEntry
    BY <1>1
  <2> QED BY <2>1 DEF LogEntry, Entry
<1> HIDE DEF kept
<1>4. Replayed(kept) \in [1 .. Len(kept) -> Entry]
  BY <1>2, <1>3 DEF Replayed
<1> QED BY <1>2, <1>4, FunctionIsSeq DEF kept

-----------------------------------------------------------------------------
(* Type correctness and resolution of references.  Neither is inductive    *)
(* alone: recovery and checkout read a checkpoint through a reference, and *)
(* what an actor appends is typed only because of the method it is in.     *)

(* What the locals of a call r are, by method, over n stored checkpoints.  *)
CallOK(r, n) ==
  /\ r.pc \in {"running", "ran", "append", "appended"} => r.method = "exec"
  /\ r.pc \in {"autoRef", "restore", "adopt"} => r.method = "checkout"
  /\ r.pc = "branchRef" => r.method = "branch"
  /\ r.pc \in {"fork", "forkPut", "forkRef", "forkHead"} => r.method = "fork"
  /\ r.method = "exec" => r.cmd \in Command
  /\ r.method = "checkout" => r.target # 0
  /\ r.id \in 0 .. n /\ r.target \in 0 .. n

CallsOK ==
  /\ call \in [Actor -> Call]
  /\ \A a \in Actor : CallOK(call[a], Len(ckpts))

(* The part of TypeOK that is not about calls, in two groups.              *)
DurableOK ==
  /\ ckpts \in Seq(Checkpoint)
  /\ head \in Hash /\ autosave \in Hash
  /\ branches \in [BranchName -> Hash]
  /\ forkRefs \in [ForkName -> Hash] /\ forkHeads \in [ForkName -> Hash]
  /\ wal \in Seq(LogEntry)
  /\ files \subseteq Command

MemoryOK ==
  /\ latest \in Hash
  /\ treeHash \subseteq Command
  /\ up \in BOOLEAN /\ armed \in BOOLEAN
  /\ history \in Seq(Entry)
  /\ pendingOps \in Nat

CountersOK == calls \in 0 .. MaxCalls /\ acked \subseteq Command

WellFormed == DurableOK /\ RefsResolve /\ MemoryOK /\ CountersOK /\ CallsOK

LEMMA WellFormedParts ==
  WellFormed <=> TypeOK /\ RefsResolve /\ \A a \in Actor : CallOK(call[a], Len(ckpts))
BY DEF WellFormed, DurableOK, MemoryOK, CountersOK, CallsOK, TypeOK

LEMMA NoCallOK ==
  /\ NoCall \in Call
  /\ \A n \in Nat : CallOK(NoCall, n)
  /\ NoCall.id = 0 /\ NoCall.target = 0 /\ NoCall.method = "none" /\ NoCall.pc = "none"
BY DEF NoCall, Call, NoCheckpoint, Checkpoint, Name, Hash, MethodName, Await, CallOK

(* What every step of an actor may assume.                                 *)
LEMMA Facts ==
  ASSUME WellFormed, NEW a \in Actor
  PROVE  /\ call[a] \in Call /\ CallOK(call[a], Len(ckpts))
         /\ Len(ckpts) \in Nat /\ Len(history) \in Nat
BY DEF WellFormed, DurableOK, MemoryOK, CallsOK

(* A step that changes the call of one actor to a well-formed one, and at  *)
(* most adds checkpoints, keeps the calls well-formed.                     *)
LEMMA CallChange ==
  ASSUME CallsOK, NEW a \in Actor, NEW r \in Call,
         call' = [call EXCEPT ![a] = r],
         Len(ckpts) \in Nat, Len(ckpts') \in Nat, Len(ckpts) <= Len(ckpts'),
         CallOK(r, Len(ckpts'))
  PROVE  CallsOK'
<1>1. call' \in [Actor -> Call]
  BY DEF CallsOK
<1>2. ASSUME NEW b \in Actor PROVE CallOK(call'[b], Len(ckpts'))
  <2>1. CASE b = a
    BY <2>1 DEF CallsOK
  <2>2. CASE b # a
    <3>1. call'[b] = call[b] /\ CallOK(call[b], Len(ckpts))
      BY <2>2 DEF CallsOK
    <3> QED BY <3>1 DEF CallOK
  <2> QED BY <2>1, <2>2
<1> QED BY <1>1, <1>2 DEF CallsOK

(* The same when no checkpoint is added: what most awaits do.              *)
LEMMA CallMoves ==
  ASSUME CallsOK, NEW a \in Actor, NEW r \in Call,
         call' = [call EXCEPT ![a] = r], UNCHANGED ckpts,
         Len(ckpts) \in Nat, CallOK(r, Len(ckpts))
  PROVE  CallsOK'
<1>1. /\ Len(ckpts') \in Nat /\ Len(ckpts) <= Len(ckpts')
      /\ CallOK(r, Len(ckpts'))
  OBVIOUS
<1> QED BY <1>1, CallChange

(* Adding a checkpoint keeps the references resolved.                      *)
LEMMA CheckpointAdded ==
  ASSUME WellFormed, NEW ckpt \in Checkpoint, ckpts' = Append(ckpts, ckpt),
         UNCHANGED <<head, refs, wal, files>>
  PROVE  /\ DurableOK' /\ RefsResolve'
         /\ Len(ckpts) \in Nat /\ Len(ckpts') = Len(ckpts) + 1
<1>1. ckpts' \in Seq(Checkpoint) /\ Len(ckpts) \in Nat /\ Len(ckpts') = Len(ckpts) + 1
  BY DEF WellFormed, DurableOK
<1>2. DurableOK'
  BY <1>1 DEF WellFormed, DurableOK, refs
<1>3. RefsResolve'
  BY <1>1 DEF WellFormed, RefsResolve, refs
<1> QED BY <1>1, <1>2, <1>3

(* A method call changes nothing but the caller's record.                  *)
LEMMA BeginWellFormed ==
  ASSUME WellFormed, NEW c \in Client, NEW method, NEW record,
         Begin(c, method, record), UNCHANGED <<durable, up, memory, acked>>,
         [record EXCEPT !.method = method] \in Call,
         CallOK([record EXCEPT !.method = method], Len(ckpts))
  PROVE  WellFormed'
<1>1. c \in Actor /\ Len(ckpts) \in Nat
  BY Facts DEF Actor
<1>2. DurableOK' /\ RefsResolve' /\ MemoryOK'
  BY DEF WellFormed, DurableOK, RefsResolve, MemoryOK, durable, memory
<1>3. CountersOK'
  <2>1. calls \in 0 .. MaxCalls /\ calls < MaxCalls /\ calls' = calls + 1 /\ MaxCalls \in Nat
    BY SessionAssumption DEF Begin, WellFormed, CountersOK
  <2> QED BY <2>1 DEF WellFormed, CountersOK
<1>4. CallsOK'
  <2>1. call' = [call EXCEPT ![c] = [record EXCEPT !.method = method]] /\ UNCHANGED ckpts
    BY DEF Begin, durable
  <2> QED BY <1>1, <2>1, CallMoves DEF WellFormed
<1> QED BY <1>2, <1>3, <1>4 DEF WellFormed

LEMMA NewCallWellFormed ==
  ASSUME WellFormed, NEW c \in Client, NewCall(c)
  PROVE  WellFormed'
<1>0. Len(ckpts) \in Nat /\ Len(history) \in Nat
  BY Facts DEF Actor
<1> USE NoCallOK DEF Hash, Name, Await, MethodName, AllMethods
<1>1. CASE Exec(c)
  <2> DEFINE record == [NoCall EXCEPT !.pc = "running", !.cmd = calls + 1,
                                      !.seq = Len(history)]
             r == [record EXCEPT !.method = "exec"]
  <2>1. calls + 1 \in Command
    BY <1>1, SessionAssumption DEF Exec, Begin, WellFormed, CountersOK, Command
  <2>2. r \in Call /\ CallOK(r, Len(ckpts))
    <3>1. [NoCall EXCEPT !.pc = "running"] \in Call
      BY DEF Call
    <3>2. [NoCall EXCEPT !.pc = "running", !.cmd = calls + 1] \in Call
      BY <2>1, <3>1 DEF Call
    <3>3. record \in Call
      BY <1>0, <3>2 DEF Call
    <3>4. r \in Call
      BY <3>3 DEF Call
    <3> QED BY <1>0, <2>1, <3>4 DEF CallOK, Call
  <2>3. Begin(c, "exec", record) /\ UNCHANGED <<durable, up, memory, acked>>
    BY <1>1 DEF Exec
  <2> HIDE DEF record
  <2> QED BY <2>2, <2>3, BeginWellFormed
<1>2. CASE ManualCheckpoint(c)
  <2> DEFINE record == [NoCall EXCEPT !.pc = "hash"]
             r == [record EXCEPT !.method = "checkpoint"]
  <2>1. r \in Call /\ CallOK(r, Len(ckpts))
    <3>1. record \in Call
      BY DEF Call
    <3>2. r \in Call
      BY <3>1 DEF Call
    <3> QED BY <1>0, <3>2 DEF CallOK, Call
  <2>2. Begin(c, "checkpoint", record) /\ UNCHANGED <<durable, up, memory, acked>>
    BY <1>2 DEF ManualCheckpoint
  <2> HIDE DEF record
  <2> QED BY <2>1, <2>2, BeginWellFormed
<1>3. CASE CallBranch(c)
  <2>1. PICK b \in BranchName :
          Begin(c, "branch", [NoCall EXCEPT !.pc = "hash", !.name = b])
    BY <1>3 DEF CallBranch
  <2> DEFINE record == [NoCall EXCEPT !.pc = "hash", !.name = b]
             r == [record EXCEPT !.method = "branch"]
  <2>2. r \in Call /\ CallOK(r, Len(ckpts))
    <3>1. [NoCall EXCEPT !.pc = "hash"] \in Call
      BY DEF Call
    <3>2. record \in Call
      BY <3>1 DEF Call
    <3>3. r \in Call
      BY <3>2 DEF Call
    <3> QED BY <1>0, <3>3 DEF CallOK, Call
  <2>3. UNCHANGED <<durable, up, memory, acked>>
    BY <1>3 DEF CallBranch
  <2>4. Begin(c, "branch", record)
    BY <2>1
  <2> HIDE DEF record
  <2> QED BY <2>2, <2>3, <2>4, BeginWellFormed
<1>4. CASE CallCheckout(c)
  <2>1. PICK b \in BranchName :
          /\ branches[b] # 0
          /\ Begin(c, "checkout", [NoCall EXCEPT !.pc = "hash", !.name = b,
                                                 !.target = branches[b]])
    BY <1>4 DEF CallCheckout
  <2> DEFINE record == [NoCall EXCEPT !.pc = "hash", !.name = b, !.target = branches[b]]
             r == [record EXCEPT !.method = "checkout"]
  <2>2. branches[b] \in 0 .. Len(ckpts)
    BY DEF WellFormed, RefsResolve
  <2>3. r \in Call /\ CallOK(r, Len(ckpts))
    <3>1. [NoCall EXCEPT !.pc = "hash"] \in Call
      BY DEF Call
    <3>2. [NoCall EXCEPT !.pc = "hash", !.name = b] \in Call
      BY <3>1 DEF Call
    <3>3. record \in Call
      <4>1. branches[b] \in Hash
        BY <1>0, <2>2
      <4> QED BY <3>2, <4>1 DEF Call
    <3>4. r \in Call
      BY <3>3 DEF Call
    <3> QED BY <1>0, <2>1, <2>2, <3>4 DEF CallOK, Call
  <2>4. UNCHANGED <<durable, up, memory, acked>>
    BY <1>4 DEF CallCheckout
  <2>5. Begin(c, "checkout", record)
    BY <2>1
  <2> HIDE DEF record
  <2> QED BY <2>3, <2>4, <2>5, BeginWellFormed
<1>5. CASE CallFork(c)
  <2>1. PICK f \in ForkName, include \in BOOLEAN, from \in 0 .. Len(ckpts) :
          Begin(c, "fork",
            [NoCall EXCEPT !.pc = IF from = 0 THEN "hash" ELSE "fork",
                           !.name = f, !.id = from, !.includeWAL = include])
    BY <1>5 DEF CallFork
  <2> DEFINE start == IF from = 0 THEN "hash" ELSE "fork"
             record == [NoCall EXCEPT !.pc = start, !.name = f, !.id = from,
                                      !.includeWAL = include]
             r == [record EXCEPT !.method = "fork"]
  <2>2. start \in {"hash", "fork"}
    OBVIOUS
  <2>3. Begin(c, "fork", record)
    BY <2>1
  <2> HIDE DEF start
  <2>4. r \in Call
    <3>1. [NoCall EXCEPT !.pc = start] \in Call
      BY <2>2 DEF Call
    <3>2. [NoCall EXCEPT !.pc = start, !.name = f] \in Call
      BY <3>1 DEF Call
    <3>3. [NoCall EXCEPT !.pc = start, !.name = f, !.id = from] \in Call
      <4>1. from \in Hash
        BY <1>0
      <4> QED BY <3>2, <4>1 DEF Call
    <3>4. record \in Call
      BY <3>3 DEF Call
    <3> QED BY <3>4 DEF Call
  <2>5. CallOK(r, Len(ckpts))
    BY <1>0, <2>2, <2>4 DEF CallOK, Call
  <2>6. UNCHANGED <<durable, up, memory, acked>>
    BY <1>5 DEF CallFork
  <2> HIDE DEF record
  <2> QED BY <2>3, <2>4, <2>5, <2>6, BeginWellFormed
<1> QED BY <1>1, <1>2, <1>3, <1>4, <1>5 DEF NewCall

LEMMA ExecWellFormed ==
  ASSUME WellFormed, NEW c \in Actor, ExecStep(c)
  PROVE  WellFormed'
<1>0. /\ call[c] \in Call /\ CallOK(call[c], Len(ckpts)) /\ CallsOK
      /\ Len(ckpts) \in Nat /\ Len(history) \in Nat
  BY Facts DEF WellFormed
<1>1. CASE RunCommand(c)
  <2> DEFINE r == [call[c] EXCEPT !.pc = "ran"]
  <2>1. call[c].pc = "running" /\ call' = [call EXCEPT ![c] = r] /\ UNCHANGED ckpts
    BY <1>0, <1>1 DEF RunCommand, At, Goto, CallsOK
  <2>2. r \in Call /\ CallOK(r, Len(ckpts)) /\ call[c].cmd \in Command
    BY <1>0, <2>1 DEF Call, CallOK, Await
  <2> HIDE DEF r
  <2>3. CallsOK'
    BY <1>0, <2>1, <2>2, CallMoves
  <2>4. DurableOK'
    BY <1>1, <2>2 DEF RunCommand, WellFormed, DurableOK, refs
  <2>5. RefsResolve' /\ MemoryOK' /\ CountersOK'
    BY <1>1 DEF RunCommand, WellFormed, RefsResolve, MemoryOK, CountersOK, refs, memory
  <2> QED BY <2>3, <2>4, <2>5 DEF WellFormed
<1>2. CASE PushHistory(c)
  <2> DEFINE r == [call[c] EXCEPT !.pc = "append"]
  <2>1. call[c].pc = "ran" /\ call' = [call EXCEPT ![c] = r] /\ UNCHANGED ckpts
    BY <1>0, <1>2 DEF PushHistory, At, Goto, CallsOK, durable
  <2>2. /\ r \in Call /\ CallOK(r, Len(ckpts))
        /\ [seq |-> call[c].seq, cmd |-> call[c].cmd] \in Entry
    BY <1>0, <2>1 DEF Call, CallOK, Await, Entry
  <2> HIDE DEF r
  <2>3. CallsOK'
    BY <1>0, <2>1, <2>2, CallMoves
  <2>4. MemoryOK'
    BY <1>2, <2>2 DEF PushHistory, WellFormed, MemoryOK
  <2>5. DurableOK' /\ RefsResolve' /\ CountersOK'
    BY <1>2 DEF PushHistory, WellFormed, DurableOK, RefsResolve, CountersOK, durable
  <2> QED BY <2>3, <2>4, <2>5 DEF WellFormed
<1>3. CASE AppendWAL(c)
  <2> DEFINE r == [call[c] EXCEPT !.pc = "appended"]
  <2>1. call[c].pc = "append" /\ call' = [call EXCEPT ![c] = r] /\ UNCHANGED ckpts
    BY <1>0, <1>3 DEF AppendWAL, At, Goto, CallsOK
  <2>2. /\ r \in Call /\ CallOK(r, Len(ckpts))
        /\ [seq |-> call[c].seq, cmd |-> call[c].cmd, checkpointed |-> FALSE] \in LogEntry
    BY <1>0, <2>1 DEF Call, CallOK, Await, LogEntry
  <2> HIDE DEF r
  <2>3. CallsOK'
    BY <1>0, <2>1, <2>2, CallMoves
  <2>4. DurableOK'
    BY <1>3, <2>2 DEF AppendWAL, WellFormed, DurableOK, refs
  <2>5. RefsResolve' /\ MemoryOK' /\ CountersOK'
    BY <1>3 DEF AppendWAL, WellFormed, RefsResolve, MemoryOK, CountersOK, refs, memory
  <2> QED BY <2>3, <2>4, <2>5 DEF WellFormed
<1>4. CASE CountOperation(c)
  <2> DEFINE r == IF pendingOps + 1 >= CommandThreshold
                    THEN [call[c] EXCEPT !.pc = "hash"] ELSE NoCall
  <2>1. call[c].pc = "appended" /\ call' = [call EXCEPT ![c] = r] /\ UNCHANGED ckpts
    BY <1>0, <1>4 DEF CountOperation, At, Goto, Return, CallsOK, durable
  <2>2. r \in Call /\ CallOK(r, Len(ckpts)) /\ call[c].cmd \in Command
    <3>1. [call[c] EXCEPT !.pc = "hash"] \in Call
          /\ CallOK([call[c] EXCEPT !.pc = "hash"], Len(ckpts)) /\ call[c].cmd \in Command
      BY <1>0, <2>1 DEF Call, CallOK, Await
    <3> QED BY <1>0, <3>1, NoCallOK
  <2> HIDE DEF r
  <2>3. CallsOK'
    BY <1>0, <2>1, <2>2, CallMoves
  <2>4. MemoryOK'
    BY <1>4 DEF CountOperation, WellFormed, MemoryOK
  <2>5. CountersOK'
    BY <1>4, <2>2 DEF CountOperation, WellFormed, CountersOK
  <2>6. DurableOK' /\ RefsResolve'
    BY <1>4 DEF CountOperation, WellFormed, DurableOK, RefsResolve, durable
  <2> QED BY <2>3, <2>4, <2>5, <2>6 DEF WellFormed
<1> QED BY <1>1, <1>2, <1>3, <1>4 DEF ExecStep

LEMMA CheckpointWellFormed ==
  ASSUME WellFormed, NEW a \in Actor, CheckpointStep(a)
  PROVE  WellFormed'
<1>0. /\ call[a] \in Call /\ CallOK(call[a], Len(ckpts)) /\ CallsOK
      /\ Len(ckpts) \in Nat /\ call[a].id \in 0 .. Len(ckpts)
  BY Facts DEF WellFormed, CallOK
<1>1. CASE ReadTree(a)
  <2> DEFINE r == [call[a] EXCEPT !.pc = "hashed", !.tree = files]
  <2>1. call' = [call EXCEPT ![a] = r] /\ UNCHANGED ckpts
    BY <1>0, <1>1 DEF ReadTree, CallsOK, durable
  <2>2. r \in Call /\ CallOK(r, Len(ckpts))
    <3>1. files \subseteq Command
      BY DEF WellFormed, DurableOK
    <3> QED BY <1>0, <3>1 DEF Call, CallOK, Await
  <2> HIDE DEF r
  <2>3. CallsOK'
    BY <1>0, <2>1, <2>2, CallMoves
  <2>4. DurableOK' /\ RefsResolve' /\ MemoryOK' /\ CountersOK'
    BY <1>1 DEF ReadTree, WellFormed, DurableOK, RefsResolve, MemoryOK, CountersOK,
                durable, memory
  <2> QED BY <2>3, <2>4 DEF WellFormed
<1>2. CASE Snapshot(a)
  <2> DEFINE ckpt == [hist |-> history, tree |-> call[a].tree, parent |-> latest]
             r == [call[a] EXCEPT !.pc = "put", !.ckpt = ckpt]
  <2>1. call' = [call EXCEPT ![a] = r] /\ UNCHANGED ckpts
    BY <1>0, <1>2 DEF Snapshot, CallsOK, durable
  <2>2. ckpt \in Checkpoint
    BY <1>0 DEF WellFormed, MemoryOK, Checkpoint, Call
  <2> HIDE DEF ckpt
  <2>3. r \in Call /\ CallOK(r, Len(ckpts))
    BY <1>0, <2>2 DEF Call, CallOK, Await
  <2> HIDE DEF r
  <2>4. CallsOK'
    BY <1>0, <2>1, <2>3, CallMoves
  <2>5. DurableOK' /\ RefsResolve' /\ MemoryOK' /\ CountersOK'
    BY <1>2 DEF Snapshot, WellFormed, DurableOK, RefsResolve, MemoryOK, CountersOK,
                durable, memory
  <2> QED BY <2>4, <2>5 DEF WellFormed
<1>3. CASE PutCheckpoint(a)
  <2> DEFINE r == [call[a] EXCEPT !.pc = "stored", !.id = Len(ckpts) + 1]
  <2>1. call' = [call EXCEPT ![a] = r] /\ call[a].ckpt \in Checkpoint
    BY <1>0, <1>3 DEF PutCheckpoint, CallsOK, Call
  <2>2. DurableOK' /\ RefsResolve' /\ Len(ckpts') = Len(ckpts) + 1
    BY <1>3, <2>1, CheckpointAdded DEF PutCheckpoint
  <2>3. r \in Call /\ CallOK(r, Len(ckpts'))
    <3>1. Len(ckpts) + 1 \in Hash
      BY <1>0 DEF Hash
    <3>2. r \in Call
      BY <1>0, <3>1 DEF Call, Await
    <3> QED BY <1>0, <2>2, <3>2 DEF CallOK, Call
  <2> HIDE DEF r
  <2>4. CallsOK'
    <3>1. Len(ckpts') \in Nat /\ Len(ckpts) <= Len(ckpts')
      BY <1>0, <2>2
    <3> QED BY <1>0, <2>1, <2>3, <3>1, CallChange
  <2>5. MemoryOK' /\ CountersOK'
    BY <1>3 DEF PutCheckpoint, WellFormed, MemoryOK, CountersOK, memory
  <2> QED BY <2>2, <2>4, <2>5 DEF WellFormed
<1>4. CASE PutHead(a)
  <2> DEFINE r == [call[a] EXCEPT !.pc = "marking"]
  <2>1. call' = [call EXCEPT ![a] = r] /\ UNCHANGED ckpts
    BY <1>0, <1>4 DEF PutHead, Goto, CallsOK
  <2>2. r \in Call /\ CallOK(r, Len(ckpts))
    BY <1>0 DEF Call, CallOK, Await
  <2> HIDE DEF r
  <2>3. CallsOK'
    BY <1>0, <2>1, <2>2, CallMoves
  <2>4. DurableOK' /\ RefsResolve'
    BY <1>0, <1>4 DEF PutHead, WellFormed, DurableOK, RefsResolve, refs, Hash
  <2>5. MemoryOK' /\ CountersOK'
    BY <1>4 DEF PutHead, WellFormed, MemoryOK, CountersOK, memory
  <2> QED BY <2>3, <2>4, <2>5 DEF WellFormed
<1>5. CASE MarkCheckpointed(a)
  <2> DEFINE r == [call[a] EXCEPT !.pc = "marked"]
  <2>1. call' = [call EXCEPT ![a] = r] /\ UNCHANGED ckpts
    BY <1>0, <1>5 DEF MarkCheckpointed, Goto, CallsOK
  <2>2. r \in Call /\ CallOK(r, Len(ckpts))
    BY <1>0 DEF Call, CallOK, Await
  <2> HIDE DEF r
  <2>3. CallsOK'
    BY <1>0, <2>1, <2>2, CallMoves
  <2>4. wal' \in Seq(LogEntry)
    BY <1>5, MarkThroughType DEF MarkCheckpointed, WellFormed, DurableOK
  <2>5. DurableOK' /\ RefsResolve' /\ MemoryOK' /\ CountersOK'
    BY <1>5, <2>4 DEF MarkCheckpointed, WellFormed, DurableOK, RefsResolve, MemoryOK,
                      CountersOK, refs, memory
  <2> QED BY <2>3, <2>5 DEF WellFormed
<1>6. CASE FinishCheckpoint(a)
  <2> DEFINE to(pc) == [call[a] EXCEPT !.pc = pc]
             r == CASE call[a].method = "branch"   -> to("branchRef")
                    [] call[a].method = "checkout" -> to("autoRef")
                    [] call[a].method = "fork"     -> to("fork")
                    [] OTHER                       -> NoCall
  <2>1. call' = [call EXCEPT ![a] = r] /\ UNCHANGED ckpts
    BY <1>0, <1>6 DEF FinishCheckpoint, Goto, Return, CallsOK, durable
  <2>2. r \in Call /\ CallOK(r, Len(ckpts))
    BY <1>0, NoCallOK DEF Call, CallOK, Await
  <2> HIDE DEF r
  <2>3. CallsOK'
    BY <1>0, <2>1, <2>2, CallMoves
  <2>4. CountersOK'
    BY <1>0, <1>6 DEF FinishCheckpoint, WellFormed, CountersOK, CallOK
  <2>5. MemoryOK'
    BY <1>0, <1>6 DEF FinishCheckpoint, WellFormed, MemoryOK, Hash
  <2>6. DurableOK' /\ RefsResolve'
    BY <1>6 DEF FinishCheckpoint, WellFormed, DurableOK, RefsResolve, durable
  <2> QED BY <2>3, <2>4, <2>5, <2>6 DEF WellFormed
<1> QED BY <1>1, <1>2, <1>3, <1>4, <1>5, <1>6 DEF CheckpointStep

(* Pointing one reference at a stored checkpoint.                          *)
LEMMA RefSet ==
  ASSUME NEW S, NEW f \in [S -> Hash], NEW n \in Nat, NEW x, NEW v \in 0 .. n,
         \A s \in S : f[s] \in 0 .. n
  PROVE  /\ [f EXCEPT ![x] = v] \in [S -> Hash]
         /\ \A s \in S : [f EXCEPT ![x] = v][s] \in 0 .. n
<1>1. v \in Hash
  BY DEF Hash
<1>2. ASSUME NEW s \in S PROVE [f EXCEPT ![x] = v][s] = IF s = x THEN v ELSE f[s]
  OBVIOUS
<1> QED BY <1>1, <1>2

LEMMA BranchWellFormed ==
  ASSUME WellFormed, NEW c \in Actor, BranchStep(c)
  PROVE  WellFormed'
<1>0. /\ call[c] \in Call /\ CallOK(call[c], Len(ckpts)) /\ CallsOK
      /\ Len(ckpts) \in Nat /\ call[c].id \in 0 .. Len(ckpts)
      /\ call[c].target \in 0 .. Len(ckpts)
  BY Facts DEF WellFormed, CallOK
<1>1. CASE PutBranchRef(c)
  <2>1. call' = [call EXCEPT ![c] = NoCall] /\ UNCHANGED ckpts
    BY <1>1 DEF PutBranchRef, Return
  <2>2. CallsOK'
    BY <1>0, <2>1, NoCallOK, CallMoves
  <2>3. branches' \in [BranchName -> Hash]
        /\ \A b \in BranchName : branches'[b] \in 0 .. Len(ckpts)
    <3>1. /\ branches \in [BranchName -> Hash]
          /\ \A b \in BranchName : branches[b] \in 0 .. Len(ckpts)
      BY DEF WellFormed, DurableOK, RefsResolve
    <3>2. branches' = [branches EXCEPT ![call[c].name] = call[c].id]
      BY <1>1 DEF PutBranchRef
    <3> QED BY <1>0, <3>1, <3>2, RefSet
  <2>4. DurableOK' /\ RefsResolve'
    BY <1>1, <2>3 DEF PutBranchRef, WellFormed, DurableOK, RefsResolve
  <2>5. MemoryOK' /\ CountersOK'
    BY <1>1 DEF PutBranchRef, WellFormed, MemoryOK, CountersOK, memory
  <2> QED BY <2>2, <2>4, <2>5 DEF WellFormed
<1>2. CASE PutAutosaveRef(c)
  <2> DEFINE r == [call[c] EXCEPT !.pc = "restore"]
  <2>1. call[c].pc = "autoRef" /\ call' = [call EXCEPT ![c] = r] /\ UNCHANGED ckpts
    BY <1>0, <1>2 DEF PutAutosaveRef, At, Goto, CallsOK
  <2>2. r \in Call /\ CallOK(r, Len(ckpts))
    BY <1>0, <2>1 DEF Call, CallOK, Await
  <2> HIDE DEF r
  <2>3. CallsOK'
    BY <1>0, <2>1, <2>2, CallMoves
  <2>4. DurableOK' /\ RefsResolve'
    BY <1>0, <1>2 DEF PutAutosaveRef, WellFormed, DurableOK, RefsResolve, Hash
  <2>5. MemoryOK' /\ CountersOK'
    BY <1>2 DEF PutAutosaveRef, WellFormed, MemoryOK, CountersOK, memory
  <2> QED BY <2>3, <2>4, <2>5 DEF WellFormed
<1>3. ASSUME call[c].pc \in {"restore", "adopt"}
      PROVE  ckpts[call[c].target] \in Checkpoint
  <2>1. call[c].target \in 1 .. Len(ckpts)
    BY <1>0, <1>3 DEF CallOK
  <2> QED BY <2>1 DEF WellFormed, DurableOK
<1>4. CASE RestoreFilesystem(c)
  <2> DEFINE r == [call[c] EXCEPT !.pc = "adopt"]
  <2>1. call[c].pc = "restore" /\ call' = [call EXCEPT ![c] = r] /\ UNCHANGED ckpts
    BY <1>0, <1>4 DEF RestoreFilesystem, At, Goto, CallsOK
  <2>2. r \in Call /\ CallOK(r, Len(ckpts))
    BY <1>0, <2>1 DEF Call, CallOK, Await
  <2> HIDE DEF r
  <2>3. CallsOK'
    BY <1>0, <2>1, <2>2, CallMoves
  <2>4. files' \subseteq Command
    BY <1>3, <1>4, <2>1 DEF RestoreFilesystem, Checkpoint
  <2>5. DurableOK' /\ RefsResolve' /\ MemoryOK' /\ CountersOK'
    BY <1>4, <2>4 DEF RestoreFilesystem, WellFormed, DurableOK, RefsResolve, MemoryOK,
                      CountersOK, refs, memory
  <2> QED BY <2>3, <2>5 DEF WellFormed
<1>5. CASE AdoptState(c)
  <2>1. call[c].pc = "adopt" /\ call' = [call EXCEPT ![c] = NoCall] /\ UNCHANGED ckpts
    BY <1>5 DEF AdoptState, At, Return, durable
  <2>2. CallsOK'
    BY <1>0, <2>1, NoCallOK, CallMoves
  <2>3. history' \in Seq(Entry) /\ treeHash' \subseteq Command
    BY <1>3, <1>5, <2>1 DEF AdoptState, Checkpoint
  <2>4. DurableOK' /\ RefsResolve' /\ MemoryOK' /\ CountersOK'
    BY <1>5, <2>3 DEF AdoptState, WellFormed, DurableOK, RefsResolve, MemoryOK,
                      CountersOK, durable
  <2> QED BY <2>2, <2>4 DEF WellFormed
<1> QED BY <1>1, <1>2, <1>4, <1>5 DEF BranchStep

LEMMA ForkWellFormed ==
  ASSUME WellFormed, NEW c \in Actor, ForkStep(c)
  PROVE  WellFormed'
<1>0. /\ call[c] \in Call /\ CallOK(call[c], Len(ckpts)) /\ CallsOK
      /\ Len(ckpts) \in Nat /\ call[c].id \in 0 .. Len(ckpts)
  BY Facts DEF WellFormed, CallOK
<1>1. CASE BuildFork(c)
  <2> DEFINE hist == IF call[c].includeWAL THEN history ELSE <<>>
             ckpt == [hist |-> hist, tree |-> treeHash, parent |-> 0]
             r == [call[c] EXCEPT !.pc = "forkPut", !.target = call[c].id, !.ckpt = ckpt]
  <2>1. call[c].pc = "fork" /\ call' = [call EXCEPT ![c] = r] /\ UNCHANGED ckpts
    BY <1>0, <1>1 DEF BuildFork, At, CallsOK, durable
  <2>2. ckpt \in Checkpoint
    <3>1. hist \in Seq(Entry)
      BY DEF WellFormed, MemoryOK
    <3> QED BY <3>1 DEF WellFormed, MemoryOK, Checkpoint, Hash
  <2> HIDE DEF ckpt
  <2>3. r \in Call /\ CallOK(r, Len(ckpts))
    <3>1. [call[c] EXCEPT !.pc = "forkPut", !.target = call[c].id] \in Call
      BY <1>0 DEF Call, Await
    <3>2. r \in Call
      BY <2>2, <3>1 DEF Call
    <3>3. call[c].method = "fork"
      BY <1>0, <2>1 DEF CallOK
    <3> QED BY <1>0, <3>2, <3>3 DEF CallOK, Call
  <2> HIDE DEF r
  <2>4. CallsOK'
    BY <1>0, <2>1, <2>3, CallMoves
  <2>5. DurableOK' /\ RefsResolve' /\ MemoryOK' /\ CountersOK'
    BY <1>1 DEF BuildFork, WellFormed, DurableOK, RefsResolve, MemoryOK, CountersOK,
                durable, memory
  <2> QED BY <2>4, <2>5 DEF WellFormed
<1>2. CASE PutForkCheckpoint(c)
  <2> DEFINE r == [call[c] EXCEPT !.pc = "forkRef", !.id = Len(ckpts) + 1]
  <2>1. /\ call[c].pc = "forkPut" /\ call' = [call EXCEPT ![c] = r]
        /\ call[c].ckpt \in Checkpoint
    BY <1>0, <1>2 DEF PutForkCheckpoint, At, CallsOK, Call
  <2>2. DurableOK' /\ RefsResolve' /\ Len(ckpts') = Len(ckpts) + 1
    BY <1>2, <2>1, CheckpointAdded DEF PutForkCheckpoint
  <2>3. r \in Call /\ CallOK(r, Len(ckpts'))
    <3>1. Len(ckpts) + 1 \in Hash
      BY <1>0 DEF Hash
    <3>2. r \in Call
      BY <1>0, <3>1 DEF Call, Await
    <3> QED BY <1>0, <2>1, <2>2, <3>2 DEF CallOK, Call
  <2> HIDE DEF r
  <2>4. CallsOK'
    <3>1. Len(ckpts') \in Nat /\ Len(ckpts) <= Len(ckpts')
      BY <1>0, <2>2
    <3> QED BY <1>0, <2>1, <2>3, <3>1, CallChange
  <2>5. MemoryOK' /\ CountersOK'
    BY <1>2 DEF PutForkCheckpoint, WellFormed, MemoryOK, CountersOK, memory
  <2> QED BY <2>2, <2>4, <2>5 DEF WellFormed
<1>3. CASE PutForkRef(c)
  <2> DEFINE r == [call[c] EXCEPT !.pc = "forkHead"]
  <2>1. call[c].pc = "forkRef" /\ call' = [call EXCEPT ![c] = r] /\ UNCHANGED ckpts
    BY <1>0, <1>3 DEF PutForkRef, At, Goto, CallsOK
  <2>2. r \in Call /\ CallOK(r, Len(ckpts))
    BY <1>0, <2>1 DEF Call, CallOK, Await
  <2> HIDE DEF r
  <2>3. CallsOK'
    BY <1>0, <2>1, <2>2, CallMoves
  <2>4. forkRefs' \in [ForkName -> Hash]
        /\ \A f \in ForkName : forkRefs'[f] \in 0 .. Len(ckpts)
    <3>1. /\ forkRefs \in [ForkName -> Hash]
          /\ \A f \in ForkName : forkRefs[f] \in 0 .. Len(ckpts)
      BY DEF WellFormed, DurableOK, RefsResolve
    <3>2. forkRefs' = [forkRefs EXCEPT ![call[c].name] = call[c].id]
      BY <1>3 DEF PutForkRef
    <3> QED BY <1>0, <3>1, <3>2, RefSet
  <2>5. DurableOK' /\ RefsResolve'
    BY <1>3, <2>4 DEF PutForkRef, WellFormed, DurableOK, RefsResolve
  <2>6. MemoryOK' /\ CountersOK'
    BY <1>3 DEF PutForkRef, WellFormed, MemoryOK, CountersOK, memory
  <2> QED BY <2>3, <2>5, <2>6 DEF WellFormed
<1>4. CASE PutForkHead(c)
  <2>1. call' = [call EXCEPT ![c] = NoCall] /\ UNCHANGED ckpts
    BY <1>4 DEF PutForkHead, Return
  <2>2. CallsOK'
    BY <1>0, <2>1, NoCallOK, CallMoves
  <2>3. forkHeads' \in [ForkName -> Hash]
        /\ \A f \in ForkName : forkHeads'[f] \in 0 .. Len(ckpts)
    <3>1. /\ forkHeads \in [ForkName -> Hash]
          /\ \A f \in ForkName : forkHeads[f] \in 0 .. Len(ckpts)
      BY DEF WellFormed, DurableOK, RefsResolve
    <3>2. forkHeads' = [forkHeads EXCEPT ![call[c].name] = call[c].id]
      BY <1>4 DEF PutForkHead
    <3> QED BY <1>0, <3>1, <3>2, RefSet
  <2>4. DurableOK' /\ RefsResolve'
    BY <1>4, <2>3 DEF PutForkHead, WellFormed, DurableOK, RefsResolve
  <2>5. MemoryOK' /\ CountersOK'
    BY <1>4 DEF PutForkHead, WellFormed, MemoryOK, CountersOK, memory
  <2> QED BY <2>2, <2>4, <2>5 DEF WellFormed
<1> QED BY <1>1, <1>2, <1>3, <1>4 DEF ForkStep

LEMMA FailureWellFormed ==
  ASSUME WellFormed,
         FireIdleTimer \/ Evict \/ Load \/ \E a \in Actor : Reject(a)
  PROVE  WellFormed'
<1>0. CallsOK /\ IdleTimer \in Actor /\ Len(ckpts) \in Nat
  BY Facts DEF WellFormed, Actor
<1>1. CASE FireIdleTimer
  <2>1. DurableOK' /\ RefsResolve' /\ MemoryOK' /\ CountersOK' /\ UNCHANGED ckpts
    BY <1>1 DEF FireIdleTimer, WellFormed, DurableOK, RefsResolve, MemoryOK, CountersOK,
                durable
  <2>2. CASE UNCHANGED call
    BY <1>0, <2>1, <2>2 DEF WellFormed, CallsOK
  <2>3. CASE ~UNCHANGED call
    <3> DEFINE r == [NoCall EXCEPT !.method = "idle", !.pc = "hash"]
    <3>1. call' = [call EXCEPT ![IdleTimer] = r]
      BY <1>1, <2>3 DEF FireIdleTimer
    <3>2. [NoCall EXCEPT !.method = "idle"] \in Call
      BY NoCallOK DEF Call, MethodName
    <3>3. r \in Call
      BY <3>2 DEF Call, Await
    <3>4. CallOK(r, Len(ckpts))
      BY <1>0, <3>3, NoCallOK DEF Call, CallOK
    <3> HIDE DEF r
    <3> QED BY <1>0, <2>1, <3>1, <3>3, <3>4, CallMoves DEF WellFormed
  <2> QED BY <2>2, <2>3
<1>2. CASE Evict
  <2>1. DurableOK' /\ RefsResolve' /\ MemoryOK' /\ CountersOK' /\ UNCHANGED ckpts
    BY <1>2 DEF Evict, WellFormed, DurableOK, RefsResolve, MemoryOK, CountersOK,
                durable, Hash
  <2>2. CallsOK'
    BY <1>0, <1>2, <2>1, NoCallOK DEF Evict, CallsOK
  <2> QED BY <2>1, <2>2 DEF WellFormed
<1>3. CASE Load
  <2>1. PICK entries \in EntriesSince(wal, Len(ckpts[head].hist)) :
          history' = ckpts[head].hist \o Replayed(ToReplay(entries, MaxReplayOps))
    BY <1>3 DEF Load
  <2>2. ckpts[head] \in Checkpoint
    BY <1>3 DEF Load, WellFormed, DurableOK, RefsResolve
  <2>3. ckpts[head].hist \in Seq(Entry) /\ ckpts[head].tree \subseteq Command
    BY <2>2 DEF Checkpoint
  <2>4. Replayed(ToReplay(entries, MaxReplayOps)) \in Seq(Entry)
    <3>1. Len(ckpts[head].hist) \in Nat
      BY <2>3
    <3>2. entries \in Seq(LogEntry)
      BY <3>1, EntriesSinceType DEF WellFormed, DurableOK
    <3> QED BY <3>2, ReplayType, SessionAssumption
  <2>5. history' \in Seq(Entry)
    BY <2>1, <2>3, <2>4
  <2>6. DurableOK' /\ RefsResolve' /\ MemoryOK' /\ CountersOK' /\ UNCHANGED <<ckpts, call>>
    BY <1>3, <2>3, <2>5 DEF Load, WellFormed, DurableOK, RefsResolve, MemoryOK,
                            CountersOK, refs
  <2> QED BY <1>0, <2>6 DEF WellFormed, CallsOK
<1>4. CASE \E a \in Actor : Reject(a)
  <2>1. PICK a \in Actor : Reject(a)
    BY <1>4
  <2>2. call' = [call EXCEPT ![a] = NoCall] /\ UNCHANGED ckpts
    BY <2>1 DEF Reject, Return, durable
  <2>3. CallsOK'
    BY <1>0, <2>2, NoCallOK, CallMoves
  <2>4. DurableOK' /\ RefsResolve' /\ MemoryOK' /\ CountersOK'
    BY <2>1 DEF Reject, WellFormed, DurableOK, RefsResolve, MemoryOK, CountersOK,
                durable, memory
  <2> QED BY <2>3, <2>4 DEF WellFormed
<1> QED BY <1>1, <1>2, <1>3, <1>4

-----------------------------------------------------------------------------
(* The session's state always has its type, with any number of clients,    *)
(* rejections and evictions: what recovery rebuilds from HEAD and the log  *)
(* is a history again, and no call runs with a local of the wrong kind.    *)
THEOREM AlwaysWellFormed == Spec => []WellFormed
<1>1. Init => WellFormed
  <2> SUFFICES ASSUME Init PROVE WellFormed
    OBVIOUS
  <2>1. CallsOK
    BY NoCallOK DEF Init, CallsOK
  <2>2. RefsResolve
    BY DEF Init, RefsResolve
  <2>3. DurableOK /\ MemoryOK
    <3>1. 0 \in Hash /\ \A S : [s \in S |-> 0] \in [S -> Hash]
      BY DEF Hash
    <3>2. DurableOK
      BY <3>1 DEF Init, DurableOK
    <3>3. up \in BOOLEAN /\ armed \in BOOLEAN
      BY Zenon DEF Init
    <3>4. history \in Seq(Entry) /\ pendingOps \in Nat /\ treeHash \subseteq Command
      BY DEF Init
    <3>5. latest \in Hash
      BY <3>1 DEF Init
    <3> QED BY <3>2, <3>3, <3>4, <3>5 DEF MemoryOK
  <2>4. CountersOK
    BY SessionAssumption DEF Init, CountersOK
  <2> QED BY <2>1, <2>2, <2>3, <2>4 DEF WellFormed
<1>2. WellFormed /\ [Next]_vars => WellFormed'
  <2> SUFFICES ASSUME WellFormed, [Next]_vars PROVE WellFormed'
    OBVIOUS
  <2>1. CASE Next
    BY <2>1, NewCallWellFormed, ExecWellFormed, CheckpointWellFormed, BranchWellFormed,
       ForkWellFormed, FailureWellFormed DEF Next, Step, Actor
  <2>2. CASE UNCHANGED vars
    BY <2>2 DEF vars, durable, memory, WellFormed, DurableOK, RefsResolve, MemoryOK,
                CountersOK, CallsOK
  <2> QED BY <2>1, <2>2
<1> QED BY <1>1, <1>2, PTL DEF Spec

(* Type correctness of the session, its manager and its durable state.     *)
THEOREM TypeCorrect == Spec => []TypeOK
<1>1. WellFormed => TypeOK
  BY WellFormedParts
<1> QED BY <1>1, AlwaysWellFormed, PTL

(* No reference ever dangles: HEAD, branches, autosaves and forks name     *)
(* stored checkpoints in every interleaving of the methods, with promises  *)
(* rejecting and the object evicted anywhere.                              *)
THEOREM RefsAlwaysResolve == Spec => []RefsResolve
<1>1. WellFormed => RefsResolve
  BY DEF WellFormed
<1> QED BY <1>1, AlwaysWellFormed, PTL

-----------------------------------------------------------------------------
(* The commands of a history, of a log, of what a log query returns and of *)
(* what a recovery replays.                                                *)

LEMMA CommandsAppend ==
  ASSUME NEW S, NEW h \in Seq(S), NEW e \in S
  PROVE  Commands(Append(h, e)) = Commands(h) \cup {e.cmd}
<1>1. /\ DOMAIN h = 1 .. Len(h) /\ Len(h) \in Nat
      /\ DOMAIN Append(h, e) = 1 .. Len(h) + 1
      /\ \A i \in 1 .. Len(h) : Append(h, e)[i] = h[i]
      /\ Append(h, e)[Len(h) + 1] = e
  OBVIOUS
<1>2. 1 .. Len(h) + 1 = (1 .. Len(h)) \cup {Len(h) + 1}
  BY <1>1
<1> QED BY <1>1, <1>2 DEF Commands

LEMMA CommandsConcat ==
  ASSUME NEW g \in Seq(Entry), NEW x \in Seq(Entry)
  PROVE  Commands(g \o x) = Commands(g) \cup Commands(x)
<1>1. /\ DOMAIN g = 1 .. Len(g) /\ DOMAIN x = 1 .. Len(x)
      /\ Len(g) \in Nat /\ Len(x) \in Nat
      /\ DOMAIN (g \o x) = 1 .. Len(g) + Len(x)
      /\ \A i \in 1 .. Len(g) : (g \o x)[i] = g[i]
      /\ \A i \in 1 .. Len(x) : (g \o x)[Len(g) + i] = x[i]
  BY ConcatProperties
<1>2. ASSUME NEW i \in DOMAIN (g \o x) PROVE (g \o x)[i].cmd \in Commands(g) \cup Commands(x)
  <2>1. CASE i \in 1 .. Len(g)
    BY <1>1, <2>1 DEF Commands
  <2>2. CASE i \notin 1 .. Len(g)
    <3>1. i - Len(g) \in 1 .. Len(x) /\ Len(g) + (i - Len(g)) = i
      BY <1>1, <1>2, <2>2
    <3>2. (g \o x)[i] = x[i - Len(g)]
      BY <1>1, <3>1
    <3> QED BY <1>1, <3>1, <3>2 DEF Commands
  <2> QED BY <2>1, <2>2
<1>3. ASSUME NEW i \in DOMAIN g PROVE g[i].cmd \in Commands(g \o x)
  <2>1. i \in DOMAIN (g \o x) /\ (g \o x)[i] = g[i]
    BY <1>1
  <2> QED BY <2>1 DEF Commands
<1>4. ASSUME NEW i \in DOMAIN x PROVE x[i].cmd \in Commands(g \o x)
  <2>1. Len(g) + i \in DOMAIN (g \o x) /\ (g \o x)[Len(g) + i] = x[i]
    BY <1>1
  <2> QED BY <2>1 DEF Commands
<1>5. Commands(g \o x) \subseteq Commands(g) \cup Commands(x)
  BY <1>2 DEF Commands
<1>6. Commands(g) \subseteq Commands(g \o x) /\ Commands(x) \subseteq Commands(g \o x)
  BY <1>3, <1>4 DEF Commands
<1> QED BY <1>5, <1>6

(* What a recovery rebuilds continues the history it starts from.          *)
LEMMA ExtendsConcat ==
  ASSUME NEW g \in Seq(Entry), NEW x \in Seq(Entry)
  PROVE  Extends(g \o x, g)
BY DEF Extends

(* An enumeration of a finite set of integers misses none of them.         *)
LEMMA EnumerationIsOnto ==
  ASSUME NEW S \in SUBSET Int, IsFiniteSet(S), NEW at \in Enumerations(S), NEW x \in S
  PROVE  \E k \in DOMAIN at : at[k] = x
<1> DEFINE n == Cardinality(S)
<1>1. n \in Nat /\ IsFiniteSet(1 .. n) /\ Cardinality(1 .. n) = n
  <2>1. n \in Nat
    BY FS_CardinalityType
  <2> HIDE DEF n
  <2> QED BY <2>1, FS_Interval
<1>2. at \in [1 .. n -> S] /\ \A i, j \in 1 .. n : i < j => at[i] < at[j]
  BY DEF Enumerations
<1>3. IsFiniteSet(S \ {x}) /\ Cardinality(S \ {x}) = n - 1
  BY FS_RemoveElement
<1> HIDE DEF n
<1>4. SUFFICES ASSUME \A k \in 1 .. n : at[k] # x PROVE FALSE
  BY <1>2
<1>5. at \in [1 .. n -> S \ {x}] /\ n - 1 < n
  BY <1>1, <1>2, <1>4
<1>6. PICK i, j \in 1 .. n : i # j /\ at[i] = at[j]
  BY <1>1, <1>3, <1>5, FS_PigeonHole
<1>7. at[i] \in Int
  <2>1. at[i] \in S
    BY <1>2, <1>6
  <2>2. S \subseteq Int
    OBVIOUS
  <2> QED BY <2>1, <2>2
<1>8. i < j \/ j < i
  BY <1>1, <1>6
<1> QED BY <1>2, <1>6, <1>7, <1>8

(* getEntriesSince leaves out no entry numbered past s.                    *)
LEMMA EntriesSinceAll ==
  ASSUME NEW log \in Seq(LogEntry), NEW s \in Nat, NEW entries \in EntriesSince(log, s)
  PROVE  /\ Len(entries) <= Len(log)
         /\ Commands(entries) = {log[i].cmd : i \in {j \in DOMAIN log : log[j].seq > s}}
<1> DEFINE keep == {i \in DOMAIN log : log[i].seq > s}
<1>1. PICK at \in Enumerations(keep) : entries = [k \in DOMAIN at |-> log[at[k]]]
  BY DEF EntriesSince
<1>2. /\ DOMAIN log = 1 .. Len(log) /\ Len(log) \in Nat
      /\ IsFiniteSet(DOMAIN log) /\ Cardinality(DOMAIN log) = Len(log)
  <2>1. DOMAIN log = 1 .. Len(log) /\ Len(log) \in Nat
    OBVIOUS
  <2> DEFINE n == Len(log)
  <2>2. n \in Nat
    BY <2>1
  <2> HIDE DEF n
  <2>3. IsFiniteSet(1 .. n) /\ Cardinality(1 .. n) = n
    BY <2>2, FS_Interval
  <2> QED BY <2>1, <2>3 DEF n
<1>3. keep \in SUBSET Int /\ keep \subseteq DOMAIN log
  BY <1>2
<1>4. IsFiniteSet(keep) /\ Cardinality(keep) <= Len(log) /\ Cardinality(keep) \in Nat
  BY <1>2, <1>3, FS_Subset, FS_CardinalityType
<1> HIDE DEF keep
<1>5. at \in [1 .. Cardinality(keep) -> keep]
  BY <1>1 DEF Enumerations
<1>6. \A x \in keep : \E k \in DOMAIN at : at[k] = x
  BY <1>1, <1>3, <1>4, EnumerationIsOnto
<1>7. DOMAIN entries = DOMAIN at /\ \A k \in DOMAIN at : entries[k] = log[at[k]]
  BY <1>1
<1>8. Commands(entries) = {log[i].cmd : i \in keep}
  BY <1>5, <1>6, <1>7 DEF Commands
<1>9. Len(entries) = Cardinality(keep)
  <2>1. entries \in Seq(LogEntry)
    BY EntriesSinceType
  <2> QED BY <1>4, <1>5, <1>7, <2>1
<1> QED BY <1>4, <1>8, <1>9 DEF keep

LEMMA EntriesSinceCommands ==
  ASSUME NEW log \in Seq(LogEntry), NEW s \in Nat, NEW entries \in EntriesSince(log, s)
  PROVE  Commands(entries) \subseteq Commands(log)
<1>1. {log[i].cmd : i \in {j \in DOMAIN log : log[j].seq > s}} \subseteq Commands(log)
  BY DEF Commands
<1> QED BY <1>1, EntriesSinceAll

LEMMA ReplayCommands ==
  ASSUME NEW entries \in Seq(LogEntry), NEW max \in Nat
  PROVE  Commands(Replayed(ToReplay(entries, max))) \subseteq Commands(entries)
<1> DEFINE kept == ToReplay(entries, max)
<1>1. ASSUME NEW k \in DOMAIN kept PROVE kept[k].cmd \in Commands(entries)
  <2>1. CASE Len(entries) <= max \/ max = 0
    BY <2>1 DEF ToReplay, Commands
  <2>2. CASE ~(Len(entries) <= max \/ max = 0)
    <3> DEFINE from == Len(entries) - max + 1
    <3>1. from \in 1 .. Len(entries) + 1 /\ Len(entries) \in Nat
      BY <2>2
    <3>2. kept = SubSeq(entries, from, Len(entries))
      BY <2>2 DEF ToReplay
    <3>3. /\ DOMAIN kept = 1 .. Len(kept) /\ Len(kept) = Len(entries) - from + 1
          /\ \A i \in 1 .. Len(kept) : kept[i] = entries[from + i - 1]
      BY <3>1, <3>2, SubSeqProperties
    <3>4. from + k - 1 \in DOMAIN entries
      BY <3>1, <3>3
    <3> QED BY <3>3, <3>4 DEF Commands
  <2> QED BY <2>1, <2>2
<1> HIDE DEF kept
<1>2. DOMAIN Replayed(kept) = DOMAIN kept
      /\ \A k \in DOMAIN kept : Replayed(kept)[k].cmd = kept[k].cmd
  BY DEF Replayed
<1>3. Commands(Replayed(kept)) \subseteq Commands(entries)
  BY <1>1, <1>2 DEF Commands
<1> QED BY <1>3 DEF kept

LEMMA MarkCommands ==
  ASSUME NEW log \in Seq(LogEntry), NEW through
  PROVE  Commands(MarkThrough(log, through)) = Commands(log)
<1>1. /\ DOMAIN MarkThrough(log, through) = DOMAIN log
      /\ \A i \in DOMAIN log : MarkThrough(log, through)[i].cmd = log[i].cmd
  <2>1. ASSUME NEW i \in DOMAIN log PROVE MarkThrough(log, through)[i].cmd = log[i].cmd
    <3>1. log[i] \in LogEntry
      OBVIOUS
    <3> QED BY <3>1 DEF MarkThrough, LogEntry
  <2> QED BY <2>1 DEF MarkThrough
<1> QED BY <1>1 DEF Commands

-----------------------------------------------------------------------------
(* The log records every acknowledged command once, whatever the clients   *)
(* call, interleave or are refused.  This is inductive only with what each *)
(* exec() under way knows: its command is its own, numbered by a call made,*)
(* and in the log exactly from the append on.                              *)

(* What a call r knows of the commands logged, after n calls.              *)
KnowsLog(r, logged, n) ==
  r.method = "exec" =>
    /\ r.cmd \in 1 .. n
    /\ r.cmd \in logged <=> r.pc \notin {"running", "ran", "append"}

LoggedOnce == \A i, j \in DOMAIN wal : wal[i].cmd = wal[j].cmd => i = j

OwnCommands ==
  \A a, b \in Actor :
    call[a].method = "exec" /\ call[b].method = "exec" /\ call[a].cmd = call[b].cmd => a = b

LogInv ==
  /\ acked \subseteq Commands(wal)
  /\ Commands(wal) \subseteq 1 .. calls
  /\ LoggedOnce
  /\ OwnCommands
  /\ \A a \in Actor : KnowsLog(call[a], Commands(wal), calls)

LEMMA NoCallKnows == \A logged, n : KnowsLog(NoCall, logged, n)
BY DEF KnowsLog, NoCall

(* A step of one actor that logs no command.                               *)
LEMMA LogStep ==
  ASSUME WellFormed, LogInv, NEW a \in Actor, NEW r,
         call' = [call EXCEPT ![a] = r], Commands(wal') = Commands(wal), LoggedOnce',
         calls' \in Nat, calls <= calls', acked' \subseteq Commands(wal),
         KnowsLog(r, Commands(wal), calls'),
         r.method = "exec" => \/ call[a].method = "exec" /\ r.cmd = call[a].cmd
                              \/ r.cmd > calls
  PROVE  LogInv'
<1>1. calls \in Nat /\ 1 .. calls \subseteq 1 .. calls'
  <2>1. calls \in 0 .. MaxCalls /\ MaxCalls \in Nat
    BY SessionAssumption DEF WellFormed, CountersOK
  <2> QED BY <2>1
<1>2. ASSUME NEW b \in Actor PROVE call'[b] = IF b = a THEN r ELSE call[b]
  BY DEF WellFormed, CallsOK
<1>3. ASSUME NEW b \in Actor PROVE KnowsLog(call'[b], Commands(wal'), calls')
  <2>1. KnowsLog(call[b], Commands(wal), calls)
    BY DEF LogInv
  <2> QED BY <1>1, <1>2, <2>1 DEF KnowsLog
<1>4. ASSUME NEW b \in Actor, b # a, r.method = "exec", call[b].method = "exec"
      PROVE  r.cmd # call[b].cmd
  <2>1. CASE call[a].method = "exec" /\ r.cmd = call[a].cmd
    BY <1>4, <2>1 DEF LogInv, OwnCommands
  <2>2. CASE r.cmd > calls
    <3>1. call[b].cmd \in 1 .. calls
      BY <1>4 DEF LogInv, KnowsLog
    <3> QED BY <1>1, <2>2, <3>1
  <2> QED BY <1>4, <2>1, <2>2
<1>5. OwnCommands'
  BY <1>2, <1>4 DEF LogInv, OwnCommands
<1> QED BY <1>1, <1>3, <1>5 DEF LogInv

LEMMA NewCallKnows ==
  ASSUME WellFormed, LogInv, NEW c \in Client, NewCall(c)
  PROVE  LogInv'
<1>1. calls \in Nat /\ c \in Actor /\ calls + 1 \notin Commands(wal)
  <2>1. calls \in 0 .. MaxCalls /\ MaxCalls \in Nat
    BY SessionAssumption DEF WellFormed, CountersOK
  <2> QED BY <2>1 DEF LogInv, Actor
<1>2. ASSUME NEW record, NEW method, Begin(c, method, record),
             UNCHANGED <<durable, up, memory, acked>>, DOMAIN record = DOMAIN NoCall,
             method = "exec" => record.cmd = calls + 1 /\ record.pc = "running"
      PROVE  LogInv'
  <2> DEFINE r == [record EXCEPT !.method = method]
  <2>1. r.method = method /\ r.pc = record.pc /\ r.cmd = record.cmd
    BY <1>2 DEF NoCall
  <2>2. /\ call' = [call EXCEPT ![c] = r] /\ calls' = calls + 1
        /\ wal' = wal /\ acked' = acked
    BY <1>2 DEF Begin, durable
  <2>3. calls' \in Nat /\ calls <= calls'
    BY <1>1, <2>2
  <2>4. KnowsLog(r, Commands(wal), calls')
    BY <1>1, <1>2, <2>1, <2>2 DEF KnowsLog
  <2>5. r.method = "exec" => r.cmd > calls
    BY <1>1, <1>2, <2>1
  <2>6. LoggedOnce' /\ acked' \subseteq Commands(wal) /\ Commands(wal') = Commands(wal)
    BY <2>2 DEF LogInv, LoggedOnce
  <2> HIDE DEF r
  <2> QED BY <1>1, <2>2, <2>3, <2>4, <2>5, <2>6, LogStep
<1>3. CASE Exec(c)
  BY <1>2, <1>3 DEF Exec, NoCall
<1>4. CASE ManualCheckpoint(c)
  BY <1>2, <1>4 DEF ManualCheckpoint, NoCall
<1>5. CASE CallBranch(c)
  BY <1>2, <1>5 DEF CallBranch, NoCall
<1>6. CASE CallCheckout(c)
  BY <1>2, <1>6 DEF CallCheckout, NoCall
<1>7. CASE CallFork(c)
  BY <1>2, <1>7 DEF CallFork, NoCall
<1> QED BY <1>3, <1>4, <1>5, <1>6, <1>7 DEF NewCall

(* The command appended is in the log from then on, and was not before.    *)
LEMMA AppendKnows ==
  ASSUME WellFormed, LogInv, NEW a \in Actor, AppendWAL(a)
  PROVE  LogInv'
<1> DEFINE e == [seq |-> call[a].seq, cmd |-> call[a].cmd, checkpointed |-> FALSE]
           r == [call[a] EXCEPT !.pc = "appended"]
<1>1. /\ wal' = Append(wal, e) /\ UNCHANGED <<calls, acked>> /\ call[a].pc = "append"
      /\ call' = [call EXCEPT ![a] = r] /\ wal \in Seq(LogEntry)
  BY DEF AppendWAL, At, Goto, WellFormed, DurableOK, CallsOK
<1>2. /\ call[a] \in Call /\ call[a].method = "exec"
      /\ call[a].cmd \in Command /\ KnowsLog(call[a], Commands(wal), calls)
  BY <1>1, Facts DEF CallOK, LogInv
<1>3. e \in LogEntry /\ e.cmd = call[a].cmd
  BY <1>2 DEF Call, LogEntry
<1> HIDE DEF e
<1>4. Commands(wal') = Commands(wal) \cup {call[a].cmd}
  BY <1>1, <1>3, CommandsAppend
<1>5. call[a].cmd \notin Commands(wal) /\ call[a].cmd \in 1 .. calls
  BY <1>1, <1>2 DEF KnowsLog
<1>6. LoggedOnce'
  <2>1. /\ DOMAIN wal = 1 .. Len(wal) /\ Len(wal) \in Nat
        /\ DOMAIN wal' = 1 .. Len(wal) + 1
        /\ wal'[Len(wal) + 1] = e
        /\ \A i \in 1 .. Len(wal) : wal'[i] = wal[i]
    BY <1>1
  <2>2. ASSUME NEW i \in 1 .. Len(wal) PROVE wal[i].cmd # e.cmd
    BY <1>3, <1>5, <2>1 DEF Commands
  <2>3. ASSUME NEW i \in 1 .. Len(wal), NEW j \in 1 .. Len(wal), wal[i].cmd = wal[j].cmd
        PROVE  i = j
    BY <2>1, <2>3 DEF LogInv, LoggedOnce
  <2>4. 1 .. Len(wal) + 1 = (1 .. Len(wal)) \cup {Len(wal) + 1}
    BY <2>1
  <2> QED BY <2>1, <2>2, <2>3, <2>4 DEF LoggedOnce
<1>7. r.method = "exec" /\ r.pc = "appended" /\ r.cmd = call[a].cmd
  BY <1>2 DEF Call
<1>8. ASSUME NEW b \in Actor PROVE KnowsLog(call'[b], Commands(wal'), calls')
  <2>1. CASE b = a
    <3>1. call'[b] = r
      BY <1>1, <2>1 DEF WellFormed, CallsOK
    <3> QED BY <1>1, <1>4, <1>5, <1>7, <3>1 DEF KnowsLog
  <2>2. CASE b # a
    <3>1. call'[b] = call[b]
      BY <1>1, <2>2 DEF WellFormed, CallsOK
    <3>2. call[b].method = "exec" => call[b].cmd # call[a].cmd
      BY <1>2, <2>2 DEF LogInv, OwnCommands
    <3>3. KnowsLog(call[b], Commands(wal), calls)
      BY DEF LogInv
    <3> QED BY <1>1, <1>4, <3>1, <3>2, <3>3 DEF KnowsLog
  <2> QED BY <2>1, <2>2
<1>9. OwnCommands'
  <2>1. ASSUME NEW b \in Actor
        PROVE  call'[b].method = call[b].method /\ call'[b].cmd = call[b].cmd
    <3>1. call'[b] = IF b = a THEN r ELSE call[b]
      BY <1>1 DEF WellFormed, CallsOK
    <3> QED BY <1>2, <1>7, <3>1
  <2> QED BY <2>1 DEF LogInv, OwnCommands
<1> QED BY <1>1, <1>4, <1>5, <1>6, <1>8, <1>9 DEF LogInv

LEMMA CallStepKnows ==
  ASSUME WellFormed, LogInv, NEW a \in Actor, Step(a)
  PROVE  LogInv'
<1>0. /\ call[a] \in Call /\ CallOK(call[a], Len(ckpts)) /\ a \in DOMAIN call
      /\ KnowsLog(call[a], Commands(wal), calls) /\ calls \in Nat /\ wal \in Seq(LogEntry)
      /\ LoggedOnce /\ acked \subseteq Commands(wal)
  <2>1. calls \in 0 .. MaxCalls /\ MaxCalls \in Nat
    BY SessionAssumption DEF WellFormed, CountersOK
  <2> QED BY <2>1, Facts DEF WellFormed, DurableOK, CallsOK, LogInv
<1>1. ASSUME NEW r, call' = [call EXCEPT ![a] = r], wal' = wal, calls' = calls,
             acked' \subseteq Commands(wal),
             r.method = "exec" => call[a].method = "exec" /\ r.cmd = call[a].cmd
                                  /\ (r.pc \in {"running", "ran", "append"}
                                       <=> call[a].pc \in {"running", "ran", "append"})
      PROVE  LogInv'
  <2>1. KnowsLog(r, Commands(wal), calls')
    BY <1>0, <1>1 DEF KnowsLog
  <2>2. LoggedOnce' /\ calls' \in Nat /\ calls <= calls' /\ Commands(wal') = Commands(wal)
    BY <1>0, <1>1 DEF LoggedOnce
  <2> QED BY <1>1, <2>1, <2>2, LogStep
<1>2. ASSUME NEW pc, Goto(a, pc), wal' = wal, calls' = calls, acked' \subseteq Commands(wal),
             pc \in {"running", "ran", "append"}
               <=> call[a].pc \in {"running", "ran", "append"}
      PROVE  LogInv'
  <2> DEFINE r == [call[a] EXCEPT !.pc = pc]
  <2>1. r.pc = pc /\ r.method = call[a].method /\ r.cmd = call[a].cmd
    BY <1>0 DEF Call
  <2>2. call' = [call EXCEPT ![a] = r]
    BY <1>0, <1>2 DEF Goto
  <2> HIDE DEF r
  <2> QED BY <1>1, <1>2, <2>1, <2>2
<1>3. ASSUME Return(a), wal' = wal, calls' = calls, acked' \subseteq Commands(wal)
      PROVE  LogInv'
  BY <1>1, <1>3 DEF Return, NoCall
<1>4. CASE RunCommand(a)
  BY <1>0, <1>2, <1>4 DEF RunCommand, At
<1>5. CASE PushHistory(a)
  BY <1>0, <1>2, <1>5 DEF PushHistory, At, durable
<1>6. CASE AppendWAL(a)
  BY <1>6, AppendKnows
<1>7. CASE CountOperation(a)
  <2>1. call[a].cmd \in Commands(wal) /\ call[a].pc = "appended"
    BY <1>0, <1>7 DEF CountOperation, At, CallOK, KnowsLog
  <2>2. wal' = wal /\ calls' = calls
    BY <1>7 DEF CountOperation, durable
  <2>3. \/ Goto(a, "hash") /\ acked' = acked
        \/ Return(a) /\ acked' = acked \cup {call[a].cmd}
    <3>1. IF pendingOps' >= CommandThreshold
            THEN Goto(a, "hash") /\ UNCHANGED acked
            ELSE Return(a) /\ acked' = acked \cup {call[a].cmd}
      BY <1>7 DEF CountOperation
    <3> QED BY <3>1
  <2> QED BY <1>0, <1>2, <1>3, <2>1, <2>2, <2>3
<1>8. CASE ReadTree(a)
  <2> DEFINE r == [call[a] EXCEPT !.pc = "hashed", !.tree = files]
  <2>1. r.method = call[a].method /\ r.cmd = call[a].cmd /\ r.pc = "hashed"
    BY <1>0 DEF Call
  <2>2. /\ call' = [call EXCEPT ![a] = r] /\ wal' = wal /\ calls' = calls /\ acked' = acked
        /\ call[a].pc = "hash"
    BY <1>0, <1>8 DEF ReadTree, At, durable
  <2> HIDE DEF r
  <2> QED BY <1>0, <1>1, <2>1, <2>2
<1>9. CASE Snapshot(a)
  <2> DEFINE ckpt == [hist |-> history, tree |-> call[a].tree, parent |-> latest]
             r == [call[a] EXCEPT !.pc = "put", !.ckpt = ckpt]
  <2>1. r.method = call[a].method /\ r.cmd = call[a].cmd /\ r.pc = "put"
    BY <1>0 DEF Call
  <2>2. /\ call' = [call EXCEPT ![a] = r] /\ wal' = wal /\ calls' = calls /\ acked' = acked
        /\ call[a].pc = "hashed"
    BY <1>0, <1>9 DEF Snapshot, At, durable
  <2> HIDE DEF r
  <2> QED BY <1>0, <1>1, <2>1, <2>2
<1>10. CASE PutCheckpoint(a)
  <2> DEFINE r == [call[a] EXCEPT !.pc = "stored", !.id = Len(ckpts) + 1]
  <2>1. r.method = call[a].method /\ r.cmd = call[a].cmd /\ r.pc = "stored"
    BY <1>0 DEF Call
  <2>2. /\ call' = [call EXCEPT ![a] = r] /\ wal' = wal /\ calls' = calls /\ acked' = acked
        /\ call[a].pc = "put"
    BY <1>0, <1>10 DEF PutCheckpoint, At
  <2> HIDE DEF r
  <2> QED BY <1>0, <1>1, <2>1, <2>2
<1>11. CASE PutHead(a)
  BY <1>0, <1>2, <1>11 DEF PutHead, At
<1>12. CASE MarkCheckpointed(a)
  <2>1. PICK seq \in LatestSeq(wal) : wal' = MarkThrough(wal, seq)
    BY <1>12 DEF MarkCheckpointed
  <2>2. Commands(wal') = Commands(wal) /\ LoggedOnce'
    <3>1. /\ DOMAIN wal' = DOMAIN wal
          /\ \A i \in DOMAIN wal : wal'[i].cmd = wal[i].cmd
      <4>1. ASSUME NEW i \in DOMAIN wal PROVE MarkThrough(wal, seq)[i].cmd = wal[i].cmd
        <5>1. wal[i] \in LogEntry
          BY <1>0
        <5> QED BY <5>1 DEF MarkThrough, LogEntry
      <4> QED BY <2>1, <4>1 DEF MarkThrough
    <3> QED BY <1>0, <3>1 DEF LoggedOnce, Commands
  <2> DEFINE r == [call[a] EXCEPT !.pc = "marked"]
  <2>3. r.method = call[a].method /\ r.cmd = call[a].cmd /\ r.pc = "marked"
    BY <1>0 DEF Call
  <2>4. /\ call' = [call EXCEPT ![a] = r] /\ calls' = calls /\ acked' = acked
        /\ call[a].pc = "marking"
    BY <1>0, <1>12 DEF MarkCheckpointed, At, Goto
  <2> HIDE DEF r
  <2>5. KnowsLog(r, Commands(wal), calls') /\ calls' \in Nat /\ calls <= calls'
    BY <1>0, <2>3, <2>4 DEF KnowsLog
  <2> QED BY <1>0, <2>2, <2>3, <2>4, <2>5, LogStep
<1>13. CASE FinishCheckpoint(a)
  <2>1. call[a].pc = "marked" /\ wal' = wal /\ calls' = calls
    BY <1>13 DEF FinishCheckpoint, At, durable
  <2>2. acked' \subseteq Commands(wal)
    <3>1. acked' = IF call[a].method = "exec" THEN acked \cup {call[a].cmd} ELSE acked
      BY <1>13 DEF FinishCheckpoint
    <3> QED BY <1>0, <2>1, <3>1 DEF KnowsLog
  <2>3. \/ Goto(a, "branchRef") \/ Goto(a, "autoRef") \/ Goto(a, "fork") \/ Return(a)
    BY <1>13 DEF FinishCheckpoint
  <2> QED BY <1>2, <1>3, <2>1, <2>2, <2>3
<1>14. CASE BranchStep(a)
  <2>1. CASE PutBranchRef(a)
    BY <1>0, <1>3, <2>1 DEF PutBranchRef
  <2>2. CASE PutAutosaveRef(a)
    BY <1>0, <1>2, <2>2 DEF PutAutosaveRef, At
  <2>3. CASE RestoreFilesystem(a)
    BY <1>0, <1>2, <2>3 DEF RestoreFilesystem, At
  <2>4. CASE AdoptState(a)
    BY <1>0, <1>3, <2>4 DEF AdoptState, durable
  <2> QED BY <1>14, <2>1, <2>2, <2>3, <2>4 DEF BranchStep
<1>15. CASE BuildFork(a)
  <2> DEFINE ckpt == [hist |-> IF call[a].includeWAL THEN history ELSE <<>>,
                      tree |-> treeHash, parent |-> 0]
             r == [call[a] EXCEPT !.pc = "forkPut", !.target = call[a].id, !.ckpt = ckpt]
  <2>1. r.method = call[a].method /\ r.cmd = call[a].cmd /\ r.pc = "forkPut"
    BY <1>0 DEF Call
  <2>2. /\ call' = [call EXCEPT ![a] = r] /\ wal' = wal /\ calls' = calls /\ acked' = acked
        /\ call[a].pc = "fork"
    BY <1>0, <1>15 DEF BuildFork, At, durable
  <2> HIDE DEF r
  <2> QED BY <1>0, <1>1, <2>1, <2>2
<1>16. CASE PutForkCheckpoint(a)
  <2> DEFINE r == [call[a] EXCEPT !.pc = "forkRef", !.id = Len(ckpts) + 1]
  <2>1. r.method = call[a].method /\ r.cmd = call[a].cmd /\ r.pc = "forkRef"
    BY <1>0 DEF Call
  <2>2. /\ call' = [call EXCEPT ![a] = r] /\ wal' = wal /\ calls' = calls /\ acked' = acked
        /\ call[a].pc = "forkPut"
    BY <1>0, <1>16 DEF PutForkCheckpoint, At
  <2> HIDE DEF r
  <2> QED BY <1>0, <1>1, <2>1, <2>2
<1>17. CASE PutForkRef(a)
  BY <1>0, <1>2, <1>17 DEF PutForkRef, At
<1>18. CASE PutForkHead(a)
  BY <1>0, <1>3, <1>18 DEF PutForkHead
<1> QED BY <1>4, <1>5, <1>6, <1>7, <1>8, <1>9, <1>10, <1>11, <1>12, <1>13, <1>14, <1>15,
           <1>16, <1>17, <1>18
        DEF Step, ExecStep, CheckpointStep, ForkStep

LEMMA FailureKnows ==
  ASSUME WellFormed, LogInv,
         FireIdleTimer \/ Evict \/ Load \/ \E a \in Actor : Reject(a)
  PROVE  LogInv'
<1>0. calls \in Nat /\ LoggedOnce /\ acked \subseteq Commands(wal)
  <2>1. calls \in 0 .. MaxCalls /\ MaxCalls \in Nat
    BY SessionAssumption DEF WellFormed, CountersOK
  <2> QED BY <2>1 DEF LogInv
<1>1. ASSUME NEW a \in Actor, NEW r, call' = [call EXCEPT ![a] = r], r.method # "exec",
             UNCHANGED <<wal, calls, acked>>
      PROVE  LogInv'
  <2>1. /\ Commands(wal') = Commands(wal) /\ LoggedOnce' /\ acked' \subseteq Commands(wal)
        /\ calls' \in Nat /\ calls <= calls'
    BY <1>0, <1>1 DEF LoggedOnce
  <2>2. KnowsLog(r, Commands(wal), calls')
    BY <1>1 DEF KnowsLog
  <2> QED BY <1>1, <2>1, <2>2, LogStep
<1>2. CASE FireIdleTimer
  <2>1. UNCHANGED <<wal, calls, acked>>
    BY <1>2 DEF FireIdleTimer, durable
  <2>2. CASE UNCHANGED call
    BY <2>1, <2>2 DEF LogInv, LoggedOnce, OwnCommands
  <2>3. CASE ~UNCHANGED call
    <3> DEFINE r == [NoCall EXCEPT !.method = "idle", !.pc = "hash"]
    <3>1. call' = [call EXCEPT ![IdleTimer] = r]
      BY <1>2, <2>3 DEF FireIdleTimer
    <3>2. r.method # "exec"
      BY DEF NoCall
    <3> HIDE DEF r
    <3> QED BY <1>1, <2>1, <3>1, <3>2 DEF Actor
  <2> QED BY <2>2, <2>3
<1>3. CASE Evict
  <2>1. UNCHANGED <<wal, calls, acked>> /\ \A a \in Actor : call'[a] = NoCall
    BY <1>3 DEF Evict, durable
  <2>2. NoCall.method # "exec"
    BY DEF NoCall
  <2> QED BY <2>1, <2>2, NoCallKnows DEF LogInv, LoggedOnce, OwnCommands
<1>4. CASE Load
  <2>1. UNCHANGED <<wal, calls, acked, call>>
    BY <1>4 DEF Load
  <2> QED BY <2>1 DEF LogInv, LoggedOnce, OwnCommands
<1>5. CASE \E a \in Actor : Reject(a)
  <2>1. PICK a \in Actor : Reject(a)
    BY <1>5
  <2>2. NoCall.method # "exec"
    BY DEF NoCall
  <2> QED BY <1>1, <2>1, <2>2 DEF Reject, Return, durable
<1> QED BY <1>2, <1>3, <1>4, <1>5

LEMMA LogInvariant == Spec => [](WellFormed /\ LogInv)
<1>1. Init => LogInv
  <2> SUFFICES ASSUME Init PROVE LogInv
    OBVIOUS
  <2>1. wal = <<>> /\ acked = {} /\ calls = 0 /\ \A a \in Actor : call[a] = NoCall
    BY DEF Init
  <2>2. DOMAIN wal = {} /\ Commands(wal) = {} /\ NoCall.method # "exec"
    BY <2>1 DEF Commands, NoCall
  <2> QED BY <2>1, <2>2, NoCallKnows DEF LogInv, LoggedOnce, OwnCommands
<1>2. WellFormed /\ LogInv /\ [Next]_vars => LogInv'
  <2> SUFFICES ASSUME WellFormed, LogInv, [Next]_vars PROVE LogInv'
    OBVIOUS
  <2>1. CASE Next
    BY <2>1, NewCallKnows, CallStepKnows, FailureKnows DEF Next
  <2>2. CASE UNCHANGED vars
    BY <2>2 DEF vars, durable, memory, LogInv, LoggedOnce, OwnCommands
  <2> QED BY <2>1, <2>2
<1> QED BY <1>1, <1>2, AlwaysWellFormed, PTL DEF Spec

(* Write-ahead: whatever the clients call, and whoever is interleaved,     *)
(* rejected or evicted, a command exec() has acknowledged is in the log,   *)
(* and no command is logged twice.                                         *)
THEOREM AcknowledgedIsLogged ==
  Spec => [](acked \subseteq Commands(wal) /\ LoggedOnce)
<1>1. LogInv => acked \subseteq Commands(wal) /\ LoggedOnce
  BY DEF LogInv
<1> QED BY <1>1, LogInvariant, PTL

-----------------------------------------------------------------------------
(* What a recovery brings back, whatever the clients call: the commands of *)
(* HEAD's history and those the log holds under a number past HEAD's       *)
(* length.                                                                 *)

(* Only loadSession brings the object back.                                *)
LEMMA OnlyLoadRevives ==
  ASSUME [Next]_vars, ~up, up'
  PROVE  Load
<1>1. ASSUME NEW c \in Client PROVE ~NewCall(c)
  BY DEF NewCall, Exec, ManualCheckpoint, CallBranch, CallCheckout, CallFork, Begin
<1>2. ASSUME NEW a \in Actor PROVE ~Step(a) /\ ~Reject(a)
  BY DEF Step, CheckpointStep, ReadTree, Snapshot, PutCheckpoint, PutHead, MarkCheckpointed,
         FinishCheckpoint, ExecStep, RunCommand, PushHistory, AppendWAL, CountOperation,
         BranchStep, PutBranchRef, PutAutosaveRef, RestoreFilesystem, AdoptState,
         ForkStep, BuildFork, PutForkCheckpoint, PutForkRef, PutForkHead, At, Reject
<1>3. ~FireIdleTimer /\ ~Evict
  BY DEF FireIdleTimer, Evict
<1> QED BY <1>1, <1>2, <1>3 DEF Next, vars

(* The commands logged under a number larger than s, and whether the log   *)
(* is short enough for maxReplayOps to drop none of it.                    *)
LoggedPast(s) == {wal[i].cmd : i \in {j \in DOMAIN wal : wal[j].seq > s}}
LogFits == MaxReplayOps = 0 \/ Len(wal) <= MaxReplayOps

RecoveryStep ==
  ~up /\ up' =>
    /\ head # 0
    /\ LET old == ckpts[head].hist
       IN  /\ Extends(history', old)
           /\ Commands(history') \subseteq Commands(old) \cup LoggedPast(Len(old))
           /\ LogFits => Commands(history') = Commands(old) \cup LoggedPast(Len(old))

LEMMA LoadReadsLog ==
  ASSUME WellFormed, Load
  PROVE  RecoveryStep
<1> DEFINE old == ckpts[head].hist
<1>1. PICK entries \in EntriesSince(wal, Len(old)) :
        history' = old \o Replayed(ToReplay(entries, MaxReplayOps))
  BY DEF Load
<1> DEFINE new == Replayed(ToReplay(entries, MaxReplayOps))
<1>2. head # 0 /\ wal \in Seq(LogEntry) /\ MaxReplayOps \in Nat
  BY SessionAssumption DEF Load, WellFormed, DurableOK
<1>3. old \in Seq(Entry) /\ Len(old) \in Nat
  <2>1. ckpts[head] \in Checkpoint
    BY <1>2 DEF WellFormed, DurableOK, RefsResolve
  <2> QED BY <2>1 DEF Checkpoint
<1>4. /\ entries \in Seq(LogEntry) /\ Len(entries) <= Len(wal)
      /\ Commands(entries) = LoggedPast(Len(old))
  BY <1>2, <1>3, EntriesSinceType, EntriesSinceAll DEF LoggedPast
<1>5. new \in Seq(Entry) /\ Commands(new) \subseteq Commands(entries)
  BY <1>2, <1>4, ReplayType, ReplayCommands
<1>6. LogFits => Commands(new) = Commands(entries)
  <2> SUFFICES ASSUME LogFits PROVE Commands(new) = Commands(entries)
    OBVIOUS
  <2>1. ToReplay(entries, MaxReplayOps) = entries
    <3>1. Len(entries) <= MaxReplayOps \/ MaxReplayOps = 0
      BY <1>2, <1>4 DEF LogFits
    <3> QED BY <3>1 DEF ToReplay
  <2>2. DOMAIN new = DOMAIN entries /\ \A k \in DOMAIN entries : new[k].cmd = entries[k].cmd
    BY <2>1 DEF Replayed
  <2> HIDE DEF new
  <2> QED BY <2>2 DEF Commands
<1> HIDE DEF new, old
<1>7. Commands(history') = Commands(old) \cup Commands(new) /\ Extends(history', old)
  BY <1>1, <1>3, <1>5, CommandsConcat, ExtendsConcat DEF new, old
<1> QED BY <1>2, <1>4, <1>5, <1>6, <1>7 DEF RecoveryStep, old

(* A recovery brings back HEAD's history, followed by commands logged      *)
(* under a number past HEAD's length, all of them when the log is within   *)
(* maxReplayOps, whatever clients, checkouts and rejections came before.   *)
THEOREM RecoveryReadsLog == Spec => [][RecoveryStep]_vars
<1>1. WellFormed /\ [Next]_vars => RecoveryStep
  <2> SUFFICES ASSUME WellFormed, [Next]_vars, ~up, up' PROVE RecoveryStep
    BY DEF RecoveryStep
  <2> QED BY OnlyLoadRevives, LoadReadsLog
<1> QED BY <1>1, AlwaysWellFormed, PTL DEF Spec

LossStep ==
  ~up /\ up' /\ LogFits =>
    LET old == ckpts[head].hist
    IN  \A m \in acked :
          m \notin Commands(history') <=>
            /\ m \notin Commands(old)
            /\ \E i \in DOMAIN wal : wal[i].cmd = m /\ wal[i].seq <= Len(old)

(* Which acknowledged commands a recovery loses: those, and only those,    *)
(* that HEAD's history lacks and the log holds under a number HEAD's       *)
(* length already covers.                                                  *)
THEOREM LosesOnlyCovered == Spec => [][LossStep]_vars
<1>1. WellFormed /\ LogInv /\ [Next]_vars => LossStep
  <2> SUFFICES ASSUME WellFormed, LogInv, [Next]_vars, ~up, up', LogFits, NEW m \in acked
               PROVE  m \notin Commands(history') <=>
                        /\ m \notin Commands(ckpts[head].hist)
                        /\ \E i \in DOMAIN wal :
                             wal[i].cmd = m /\ wal[i].seq <= Len(ckpts[head].hist)
    BY DEF LossStep
  <2> DEFINE old == ckpts[head].hist
  <2>1. head # 0 /\ Commands(history') = Commands(old) \cup LoggedPast(Len(old))
    BY OnlyLoadRevives, LoadReadsLog DEF RecoveryStep
  <2>2. PICK i \in DOMAIN wal : wal[i].cmd = m
    <3>1. m \in Commands(wal)
      BY DEF LogInv
    <3> QED BY <3>1 DEF Commands
  <2>3. \A j \in DOMAIN wal : wal[j].cmd = m => j = i
    BY <2>2 DEF LogInv, LoggedOnce
  <2>4. wal[i].seq \in Nat /\ Len(old) \in Nat
    <3>1. ckpts[head] \in Checkpoint /\ wal[i] \in LogEntry
      BY <2>1 DEF WellFormed, DurableOK, RefsResolve
    <3> QED BY <3>1 DEF Checkpoint, LogEntry
  <2>5. m \in LoggedPast(Len(old)) <=> wal[i].seq > Len(old)
    BY <2>2, <2>3 DEF LoggedPast
  <2>6. (\E j \in DOMAIN wal : wal[j].cmd = m /\ wal[j].seq <= Len(old))
          <=> wal[i].seq <= Len(old)
    BY <2>2, <2>3
  <2> HIDE DEF old
  <2>7. m \notin Commands(history') <=>
          m \notin Commands(old) /\ wal[i].seq <= Len(old)
    BY <2>1, <2>4, <2>5
  <2> QED BY <2>6, <2>7 DEF old
<1> QED BY <1>1, LogInvariant, PTL DEF Spec

-----------------------------------------------------------------------------
(* The parents of checkpoints.  A checkpoint names the manager's latest as *)
(* its parent when it is built, two awaits before it is stored, and the    *)
(* manager may be at any stage of another one by then; that a parent is    *)
(* stored first is inductive only with what is on its way to be stored.    *)

ParentsAreOlder == \A i \in DOMAIN ckpts : ckpts[i].parent < i

LineageInv ==
  /\ ParentsAreOlder
  /\ latest <= Len(ckpts)
  /\ \A a \in Actor : call[a].ckpt.parent <= Len(ckpts)

(* A step of one actor that stores no checkpoint.                          *)
LEMMA LineageStep ==
  ASSUME WellFormed, LineageInv, NEW a \in Actor, NEW r,
         call' = [call EXCEPT ![a] = r], ckpts' = ckpts, latest' <= Len(ckpts),
         r.ckpt.parent <= Len(ckpts)
  PROVE  LineageInv'
<1>1. ASSUME NEW b \in Actor PROVE call'[b] = IF b = a THEN r ELSE call[b]
  BY DEF WellFormed, CallsOK
<1>2. ASSUME NEW b \in Actor PROVE call'[b].ckpt.parent <= Len(ckpts')
  BY <1>1 DEF LineageInv
<1> QED BY <1>2 DEF LineageInv, ParentsAreOlder

(* A step of one actor that stores the checkpoint it carries.              *)
LEMMA LineageGrows ==
  ASSUME WellFormed, LineageInv, NEW a \in Actor, NEW r,
         call' = [call EXCEPT ![a] = r], ckpts' = Append(ckpts, call[a].ckpt),
         r.ckpt = call[a].ckpt, latest' = latest
  PROVE  LineageInv'
<1>1. /\ ckpts \in Seq(Checkpoint) /\ Len(ckpts) \in Nat /\ latest \in Nat
      /\ \A b \in Actor : call[b].ckpt \in Checkpoint /\ call[b].ckpt.parent \in Nat
  BY DEF WellFormed, DurableOK, MemoryOK, CallsOK, Call, Checkpoint, Hash
<1>2. /\ Len(ckpts') = Len(ckpts) + 1
      /\ DOMAIN ckpts' = 1 .. Len(ckpts) + 1 /\ DOMAIN ckpts = 1 .. Len(ckpts)
      /\ ckpts'[Len(ckpts) + 1] = call[a].ckpt
      /\ \A i \in 1 .. Len(ckpts) : ckpts'[i] = ckpts[i]
  BY <1>1
<1>3. ParentsAreOlder'
  <2>1. call[a].ckpt.parent < Len(ckpts) + 1
    BY <1>1 DEF LineageInv
  <2>2. 1 .. Len(ckpts) + 1 = (1 .. Len(ckpts)) \cup {Len(ckpts) + 1}
    BY <1>1
  <2> QED BY <1>2, <2>1, <2>2 DEF LineageInv, ParentsAreOlder
<1>4. ASSUME NEW b \in Actor PROVE call'[b].ckpt.parent <= Len(ckpts')
  <2>1. call'[b].ckpt = call[b].ckpt
    BY DEF WellFormed, CallsOK
  <2> QED BY <1>1, <1>2, <2>1 DEF LineageInv
<1>5. latest' <= Len(ckpts')
  BY <1>1, <1>2 DEF LineageInv
<1> QED BY <1>3, <1>4, <1>5 DEF LineageInv

LEMMA NewCallLineage ==
  ASSUME WellFormed, LineageInv, NEW c \in Client, NewCall(c)
  PROVE  LineageInv'
<1>1. ASSUME NEW record, NEW method, Begin(c, method, record),
             UNCHANGED <<durable, up, memory, acked>>, DOMAIN record = DOMAIN NoCall,
             record.ckpt = NoCheckpoint
      PROVE  LineageInv'
  <2> DEFINE r == [record EXCEPT !.method = method]
  <2>1. r.ckpt = NoCheckpoint
    BY <1>1 DEF NoCall
  <2>2. call' = [call EXCEPT ![c] = r] /\ ckpts' = ckpts /\ latest' = latest /\ c \in Actor
    BY <1>1 DEF Begin, durable, memory, Actor
  <2>3. latest' <= Len(ckpts) /\ r.ckpt.parent <= Len(ckpts)
    <3>1. Len(ckpts) \in Nat
      BY DEF WellFormed, DurableOK
    <3> QED BY <2>1, <2>2, <3>1 DEF LineageInv, NoCheckpoint
  <2> HIDE DEF r
  <2> QED BY <2>2, <2>3, LineageStep
<1>2. CASE Exec(c)
  BY <1>1, <1>2 DEF Exec, NoCall
<1>3. CASE ManualCheckpoint(c)
  BY <1>1, <1>3 DEF ManualCheckpoint, NoCall
<1>4. CASE CallBranch(c)
  BY <1>1, <1>4 DEF CallBranch, NoCall
<1>5. CASE CallCheckout(c)
  BY <1>1, <1>5 DEF CallCheckout, NoCall
<1>6. CASE CallFork(c)
  BY <1>1, <1>6 DEF CallFork, NoCall
<1> QED BY <1>2, <1>3, <1>4, <1>5, <1>6 DEF NewCall

LEMMA CallStepLineage ==
  ASSUME WellFormed, LineageInv, NEW a \in Actor, Step(a)
  PROVE  LineageInv'
<1>0. /\ call[a] \in Call /\ CallOK(call[a], Len(ckpts)) /\ a \in DOMAIN call
      /\ Len(ckpts) \in Nat /\ latest \in Nat /\ latest <= Len(ckpts)
      /\ call[a].ckpt.parent <= Len(ckpts)
  BY Facts DEF WellFormed, MemoryOK, CallsOK, LineageInv, Hash
<1>1. ASSUME NEW pc, Goto(a, pc), ckpts' = ckpts, latest' <= Len(ckpts)
      PROVE  LineageInv'
  <2> DEFINE r == [call[a] EXCEPT !.pc = pc]
  <2>1. r.ckpt = call[a].ckpt
    BY <1>0 DEF Call
  <2>2. call' = [call EXCEPT ![a] = r]
    BY <1>0, <1>1 DEF Goto
  <2> HIDE DEF r
  <2> QED BY <1>0, <1>1, <2>1, <2>2, LineageStep
<1>2. ASSUME Return(a), ckpts' = ckpts, latest' <= Len(ckpts)
      PROVE  LineageInv'
  <2>1. NoCall.ckpt.parent <= Len(ckpts)
    BY <1>0 DEF NoCall, NoCheckpoint
  <2> QED BY <1>2, <2>1, LineageStep DEF Return
<1>3. CASE ExecStep(a)
  <2>1. ckpts' = ckpts /\ latest' = latest
    BY <1>3 DEF ExecStep, RunCommand, PushHistory, AppendWAL, CountOperation, durable, memory
  <2>2. Return(a) \/ \E pc \in Await : Goto(a, pc)
    BY <1>3 DEF ExecStep, RunCommand, PushHistory, AppendWAL, CountOperation, Await
  <2> QED BY <1>0, <1>1, <1>2, <2>1, <2>2
<1>4. CASE ReadTree(a)
  <2> DEFINE r == [call[a] EXCEPT !.pc = "hashed", !.tree = files]
  <2>1. r.ckpt = call[a].ckpt
    BY <1>0 DEF Call
  <2>2. call' = [call EXCEPT ![a] = r] /\ ckpts' = ckpts /\ latest' = latest
    BY <1>0, <1>4 DEF ReadTree, durable, memory
  <2> HIDE DEF r
  <2> QED BY <1>0, <2>1, <2>2, LineageStep
<1>5. CASE Snapshot(a)
  <2> DEFINE ckpt == [hist |-> history, tree |-> call[a].tree, parent |-> latest]
             r == [call[a] EXCEPT !.pc = "put", !.ckpt = ckpt]
  <2>1. r.ckpt.parent = latest
    BY <1>0 DEF Call
  <2>2. call' = [call EXCEPT ![a] = r] /\ ckpts' = ckpts /\ latest' = latest
    BY <1>0, <1>5 DEF Snapshot, durable, memory
  <2> HIDE DEF r
  <2> QED BY <1>0, <2>1, <2>2, LineageStep
<1>6. CASE PutCheckpoint(a)
  <2> DEFINE r == [call[a] EXCEPT !.pc = "stored", !.id = Len(ckpts) + 1]
  <2>1. r.ckpt = call[a].ckpt
    BY <1>0 DEF Call
  <2>2. /\ call' = [call EXCEPT ![a] = r] /\ ckpts' = Append(ckpts, call[a].ckpt)
        /\ latest' = latest
    BY <1>0, <1>6 DEF PutCheckpoint, memory
  <2> HIDE DEF r
  <2> QED BY <2>1, <2>2, LineageGrows
<1>7. CASE PutHead(a)
  BY <1>0, <1>1, <1>7 DEF PutHead, memory
<1>8. CASE MarkCheckpointed(a)
  BY <1>0, <1>1, <1>8 DEF MarkCheckpointed, memory
<1>9. CASE FinishCheckpoint(a)
  <2>1. \/ Goto(a, "branchRef") \/ Goto(a, "autoRef") \/ Goto(a, "fork") \/ Return(a)
    BY <1>9 DEF FinishCheckpoint
  <2>2. ckpts' = ckpts /\ latest' <= Len(ckpts)
    BY <1>0, <1>9 DEF FinishCheckpoint, durable, CallOK
  <2> QED BY <1>1, <1>2, <2>1, <2>2
<1>10. CASE BranchStep(a)
  <2>1. ckpts' = ckpts /\ latest' = latest
    BY <1>10 DEF BranchStep, PutBranchRef, PutAutosaveRef, RestoreFilesystem, AdoptState,
                 durable, memory
  <2>2. Return(a) \/ Goto(a, "restore") \/ Goto(a, "adopt")
    BY <1>10 DEF BranchStep, PutBranchRef, PutAutosaveRef, RestoreFilesystem, AdoptState
  <2> QED BY <1>0, <1>1, <1>2, <2>1, <2>2
<1>11. CASE BuildFork(a)
  <2> DEFINE ckpt == [hist |-> IF call[a].includeWAL THEN history ELSE <<>>,
                      tree |-> treeHash, parent |-> 0]
             r == [call[a] EXCEPT !.pc = "forkPut", !.target = call[a].id, !.ckpt = ckpt]
  <2>1. r.ckpt.parent = 0
    BY <1>0 DEF Call
  <2>2. call' = [call EXCEPT ![a] = r] /\ ckpts' = ckpts /\ latest' = latest
    BY <1>0, <1>11 DEF BuildFork, durable, memory
  <2> HIDE DEF r
  <2>3. r.ckpt.parent <= Len(ckpts) /\ latest' <= Len(ckpts)
    BY <1>0, <2>1, <2>2
  <2> QED BY <2>2, <2>3, LineageStep
<1>12. CASE PutForkCheckpoint(a)
  <2> DEFINE r == [call[a] EXCEPT !.pc = "forkRef", !.id = Len(ckpts) + 1]
  <2>1. r.ckpt = call[a].ckpt
    BY <1>0 DEF Call
  <2>2. /\ call' = [call EXCEPT ![a] = r] /\ ckpts' = Append(ckpts, call[a].ckpt)
        /\ latest' = latest
    BY <1>0, <1>12 DEF PutForkCheckpoint, memory
  <2> HIDE DEF r
  <2> QED BY <2>1, <2>2, LineageGrows
<1>13. CASE PutForkRef(a)
  BY <1>0, <1>1, <1>13 DEF PutForkRef, memory
<1>14. CASE PutForkHead(a)
  BY <1>0, <1>2, <1>14 DEF PutForkHead, memory
<1> QED BY <1>3, <1>4, <1>5, <1>6, <1>7, <1>8, <1>9, <1>10, <1>11, <1>12, <1>13, <1>14
        DEF Step, CheckpointStep, ForkStep

LEMMA FailureLineage ==
  ASSUME WellFormed, LineageInv,
         FireIdleTimer \/ Evict \/ Load \/ \E a \in Actor : Reject(a)
  PROVE  LineageInv'
<1>0. /\ Len(ckpts) \in Nat /\ latest <= Len(ckpts) /\ NoCall.ckpt.parent = 0
  BY DEF WellFormed, DurableOK, LineageInv, NoCall, NoCheckpoint
<1>1. CASE FireIdleTimer
  <2>1. ckpts' = ckpts /\ latest' = latest
    BY <1>1 DEF FireIdleTimer, durable
  <2>2. CASE UNCHANGED call
    BY <2>1, <2>2 DEF LineageInv, ParentsAreOlder
  <2>3. CASE ~UNCHANGED call
    <3> DEFINE r == [NoCall EXCEPT !.method = "idle", !.pc = "hash"]
    <3>1. call' = [call EXCEPT ![IdleTimer] = r]
      BY <1>1, <2>3 DEF FireIdleTimer
    <3>2. r.ckpt.parent = 0
      BY DEF NoCall, NoCheckpoint
    <3> HIDE DEF r
    <3>3. r.ckpt.parent <= Len(ckpts) /\ latest' <= Len(ckpts)
      BY <1>0, <2>1, <3>2
    <3> QED BY <2>1, <3>1, <3>3, LineageStep DEF Actor
  <2> QED BY <2>2, <2>3
<1>2. CASE Evict
  <2>1. ckpts' = ckpts /\ latest' = 0 /\ \A a \in Actor : call'[a] = NoCall
    BY <1>2 DEF Evict, durable
  <2> QED BY <1>0, <2>1 DEF LineageInv, ParentsAreOlder
<1>3. CASE Load
  BY <1>3 DEF Load, LineageInv, ParentsAreOlder
<1>4. CASE \E a \in Actor : Reject(a)
  <2>1. PICK a \in Actor : Reject(a)
    BY <1>4
  <2>2. ckpts' = ckpts /\ latest' = latest /\ call' = [call EXCEPT ![a] = NoCall]
    BY <2>1 DEF Reject, Return, durable, memory
  <2>3. NoCall.ckpt.parent <= Len(ckpts) /\ latest' <= Len(ckpts)
    BY <1>0, <2>2
  <2> QED BY <2>2, <2>3, LineageStep
<1> QED BY <1>1, <1>2, <1>3, <1>4

(* A checkpoint's parent was stored before it, in every interleaving of    *)
(* checkpoints and forks: following parents back never loops and never     *)
(* leaves what is stored.                                                  *)
THEOREM ParentsAlwaysOlder == Spec => []ParentsAreOlder
<1>1. Init => LineageInv
  BY DEF Init, LineageInv, ParentsAreOlder, NoCall, NoCheckpoint
<1>2. WellFormed /\ LineageInv /\ [Next]_vars => LineageInv'
  <2> SUFFICES ASSUME WellFormed, LineageInv, [Next]_vars PROVE LineageInv'
    OBVIOUS
  <2>1. CASE Next
    BY <2>1, NewCallLineage, CallStepLineage, FailureLineage DEF Next
  <2>2. CASE UNCHANGED vars
    BY <2>2 DEF vars, durable, memory, LineageInv, ParentsAreOlder
  <2> QED BY <2>1, <2>2
<1>3. LineageInv => ParentsAreOlder
  BY DEF LineageInv
<1> QED BY <1>1, <1>2, <1>3, AlwaysWellFormed, PTL DEF Spec
=============================================================================
