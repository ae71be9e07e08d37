----------------------- MODULE SessionDurable_proofs ------------------------
(***************************************************************************)
(* The session keeps its durable history, for every value of the constants *)
(* in which no client calls checkout: the history in memory extends the    *)
(* one in HEAD, and the session implements DurableHistory.                 *)
(***************************************************************************)
EXTENDS Session_proofs

-----------------------------------------------------------------------------
(* Extends, and the histories it relates.                                  *)

LEMMA ExtendsItself ==
  ASSUME NEW h \in Seq(Entry)
  PROVE  Extends(h, h)
BY DEF Extends

LEMMA ExtendsAppend ==
  ASSUME NEW h \in Seq(Entry), NEW g \in Seq(Entry), NEW e \in Entry, Extends(h, g)
  PROVE  Extends(Append(h, e), g)
<1>1. Len(g) \in Nat /\ Len(h) \in Nat /\ Len(g) <= Len(h)
  BY DEF Extends
<1>2. Len(Append(h, e)) = Len(h) + 1
      /\ \A i \in 1 .. Len(h) : Append(h, e)[i] = h[i]
  OBVIOUS
<1> QED BY <1>1, <1>2 DEF Extends

-----------------------------------------------------------------------------
(* The history in memory extends the one in HEAD.  This is inductive only  *)
(* with what is on its way to HEAD: a snapshot not yet stored, a stored    *)
(* checkpoint HEAD does not name yet, a command not yet logged.  A         *)
(* snapshot stays a prefix because the history only grows while the object *)
(* is up, and none outlives an eviction because calls do not.              *)

(* What a call r carries, over the checkpoints cs and the history h.       *)
CarriesPrefix(r, cs, h) ==
  /\ r.method # "checkout"
  /\ r.pc = "put" => Extends(h, r.ckpt.hist)
  /\ r.pc = "stored" => r.id # 0 /\ Extends(h, cs[r.id].hist)
  /\ r.pc = "append" => r.cmd \in Commands(h)

PrefixInv ==
  /\ HistoryExtendsHead
  /\ \A a \in Actor : CarriesPrefix(call[a], ckpts, history)
  /\ ~up => \A a \in Actor : call[a].pc = "none"

LEMMA NoCallCarries == \A cs, h : CarriesPrefix(NoCall, cs, h)
BY DEF CarriesPrefix, NoCall

(* A step of one actor that leaves the history and the checkpoints alone.  *)
LEMMA QuietStep ==
  ASSUME WellFormed, PrefixInv, NEW a \in Actor, NEW r,
         call' = [call EXCEPT ![a] = r], up,
         UNCHANGED <<ckpts, head, history, up>>,
         CarriesPrefix(r, ckpts, history)
  PROVE  PrefixInv'
<1>1. HistoryExtendsHead'
  BY DEF PrefixInv, HistoryExtendsHead
<1>2. ASSUME NEW b \in Actor PROVE CarriesPrefix(call'[b], ckpts', history')
  <2>1. call'[b] = IF b = a THEN r ELSE call[b]
    BY DEF WellFormed, CallsOK
  <2>2. CarriesPrefix(call'[b], ckpts, history)
    BY <2>1 DEF PrefixInv
  <2>3. ckpts' = ckpts /\ history' = history
    OBVIOUS
  <2> QED BY <2>2, <2>3
<1> QED BY <1>1, <1>2 DEF PrefixInv

(* A step of one actor that stores a checkpoint.                           *)
LEMMA StoringStep ==
  ASSUME WellFormed, PrefixInv, NEW a \in Actor, NEW r, NEW ckpt \in Checkpoint,
         call' = [call EXCEPT ![a] = r], up,
         ckpts' = Append(ckpts, ckpt), UNCHANGED <<head, history, up>>,
         CarriesPrefix(r, ckpts', history)
  PROVE  PrefixInv'
<1>1. /\ ckpts \in Seq(Checkpoint) /\ Len(ckpts) \in Nat
      /\ \A i \in 1 .. Len(ckpts) : ckpts'[i] = ckpts[i]
  BY DEF WellFormed, DurableOK
<1>2. HistoryExtendsHead'
  <2>1. head \in 0 .. Len(ckpts)
    BY DEF WellFormed, RefsResolve
  <2> QED BY <1>1, <2>1 DEF PrefixInv, HistoryExtendsHead
<1>3. ASSUME NEW b \in Actor PROVE CarriesPrefix(call'[b], ckpts', history')
  <2>1. CASE b = a
    <3>1. call'[b] = r
      BY <2>1 DEF WellFormed, CallsOK
    <3> QED BY <3>1
  <2>2. CASE b # a
    <3>1. call'[b] = call[b] /\ CarriesPrefix(call[b], ckpts, history)
      BY <2>2 DEF WellFormed, CallsOK, PrefixInv
    <3>2. call[b].id \in 0 .. Len(ckpts)
      BY DEF WellFormed, CallsOK, CallOK
    <3> QED BY <1>1, <3>1, <3>2 DEF CarriesPrefix
  <2> QED BY <2>1, <2>2
<1> QED BY <1>2, <1>3 DEF PrefixInv

LEMMA HistoryPushed ==
  ASSUME WellFormed, PrefixInv, NEW c \in Actor, PushHistory(c)
  PROVE  PrefixInv'
<1> DEFINE e == [seq |-> call[c].seq, cmd |-> call[c].cmd]
           r == [call[c] EXCEPT !.pc = "append"]
<1>1. /\ history' = Append(history, e) /\ UNCHANGED <<ckpts, head, up>> /\ up
      /\ call' = [call EXCEPT ![c] = r] /\ call[c].pc = "ran"
  BY DEF PushHistory, At, Goto, durable, WellFormed, CallsOK
<1>2. /\ call[c] \in Call /\ CallOK(call[c], Len(ckpts))
      /\ history \in Seq(Entry) /\ ckpts \in Seq(Checkpoint) /\ Len(ckpts) \in Nat
  BY Facts DEF WellFormed, DurableOK, MemoryOK
<1>3. e \in Entry
  BY <1>1, <1>2 DEF CallOK, Call, Entry
<1>4. ASSUME NEW i \in 1 .. Len(ckpts) PROVE ckpts[i].hist \in Seq(Entry)
  <2>1. ckpts[i] \in Checkpoint
    BY <1>2
  <2> QED BY <2>1 DEF Checkpoint
<1> HIDE DEF e
<1>5. Commands(history') = Commands(history) \cup {e.cmd}
  BY <1>1, <1>2, <1>3, CommandsAppend
<1>6. HistoryExtendsHead'
  <2>1. head \in 0 .. Len(ckpts)
    BY DEF WellFormed, RefsResolve
  <2> QED BY <1>1, <1>2, <1>3, <1>4, <2>1, ExtendsAppend DEF PrefixInv, HistoryExtendsHead
<1>7. ASSUME NEW b \in Actor PROVE CarriesPrefix(call'[b], ckpts', history')
  <2>1. CASE b = c
    <3>1. call'[b] = r /\ r.pc = "append" /\ r.method = call[c].method /\ r.cmd = e.cmd
      BY <1>1, <1>2, <2>1 DEF WellFormed, CallsOK, Call, e
    <3>2. call[c].method # "checkout"
      BY DEF PrefixInv, CarriesPrefix
    <3> QED BY <1>5, <3>1, <3>2 DEF CarriesPrefix
  <2>2. CASE b # c
    <3>1. /\ call'[b] = call[b] /\ CarriesPrefix(call[b], ckpts, history)
          /\ call[b] \in Call /\ call[b].id \in 0 .. Len(ckpts)
      BY <1>1, <2>2 DEF WellFormed, CallsOK, CallOK, PrefixInv
    <3>2. call[b].pc = "put" => Extends(history', call[b].ckpt.hist)
      BY <1>1, <1>2, <1>3, <3>1, ExtendsAppend DEF CarriesPrefix, Call, Checkpoint
    <3>3. call[b].pc = "stored" => Extends(history', ckpts[call[b].id].hist)
      BY <1>1, <1>2, <1>3, <1>4, <3>1, ExtendsAppend DEF CarriesPrefix
    <3> QED BY <1>1, <1>5, <3>1, <3>2, <3>3 DEF CarriesPrefix
  <2> QED BY <2>1, <2>2
<1> QED BY <1>1, <1>6, <1>7 DEF PrefixInv

LEMMA NewCallPrefix ==
  ASSUME WellFormed, PrefixInv, "checkout" \notin Methods, NEW c \in Client, NewCall(c)
  PROVE  PrefixInv'
<1>1. ASSUME NEW record, NEW method, Begin(c, method, record),
             UNCHANGED <<durable, up, memory, acked>>,
             record.pc \in {"running", "hash", "fork"}, DOMAIN record = DOMAIN NoCall
      PROVE  PrefixInv'
  <2> DEFINE r == [record EXCEPT !.method = method]
  <2>1. r.pc = record.pc /\ r.method = method
    BY <1>1 DEF NoCall
  <2>2. CarriesPrefix(r, ckpts, history)
    BY <1>1, <2>1 DEF Begin, CarriesPrefix
  <2>3. call' = [call EXCEPT ![c] = r] /\ up /\ UNCHANGED <<ckpts, head, history, up>>
    BY <1>1 DEF Begin, durable, memory
  <2> HIDE DEF r
  <2> QED BY <2>2, <2>3, QuietStep DEF Actor
<1>2. CASE Exec(c)
  BY <1>1, <1>2 DEF Exec, NoCall
<1>3. CASE ManualCheckpoint(c)
  BY <1>1, <1>3 DEF ManualCheckpoint, NoCall
<1>4. CASE CallBranch(c)
  BY <1>1, <1>4 DEF CallBranch, NoCall
<1>5. CASE CallCheckout(c)
  BY <1>5 DEF CallCheckout, Begin
<1>6. CASE CallFork(c)
  BY <1>1, <1>6 DEF CallFork, NoCall
<1> QED BY <1>2, <1>3, <1>4, <1>5, <1>6 DEF NewCall

LEMMA CallStepPrefix ==
  ASSUME WellFormed, PrefixInv, NEW a \in Actor, Step(a)
  PROVE  PrefixInv'
<1>0. /\ call[a] \in Call /\ CallOK(call[a], Len(ckpts)) /\ Len(ckpts) \in Nat
      /\ CarriesPrefix(call[a], ckpts, history)
      /\ history \in Seq(Entry) /\ ckpts \in Seq(Checkpoint) /\ a \in DOMAIN call
  BY Facts DEF WellFormed, DurableOK, MemoryOK, CallsOK, PrefixInv
<1>1. ASSUME NEW pc, Goto(a, pc), pc \notin {"put", "stored", "append"}, up,
             UNCHANGED <<ckpts, head, history, up>>
      PROVE  PrefixInv'
  <2> DEFINE r == [call[a] EXCEPT !.pc = pc]
  <2>1. r.pc = pc /\ r.method = call[a].method
    BY <1>0 DEF Call
  <2>2. CarriesPrefix(r, ckpts, history)
    BY <1>0, <1>1, <2>1 DEF CarriesPrefix
  <2>3. call' = [call EXCEPT ![a] = r]
    BY <1>0, <1>1 DEF Goto
  <2> HIDE DEF r
  <2> QED BY <1>1, <2>2, <2>3, QuietStep
<1>2. ASSUME Return(a), up, UNCHANGED <<ckpts, head, history, up>>
      PROVE  PrefixInv'
  BY <1>2, NoCallCarries, QuietStep DEF Return
<1>3. CASE ExecStep(a)
  <2>1. CASE RunCommand(a)
    BY <1>1, <2>1 DEF RunCommand, At, memory
  <2>2. CASE PushHistory(a)
    BY <2>2, HistoryPushed
  <2>3. CASE AppendWAL(a)
    BY <1>1, <2>3 DEF AppendWAL, At, memory
  <2>4. CASE CountOperation(a)
    BY <1>1, <1>2, <2>4 DEF CountOperation, At, durable
  <2> QED BY <1>3, <2>1, <2>2, <2>3, <2>4 DEF ExecStep
<1>4. CASE ReadTree(a)
  <2> DEFINE r == [call[a] EXCEPT !.pc = "hashed", !.tree = files]
  <2>1. CarriesPrefix(r, ckpts, history)
    BY <1>0 DEF Call, CarriesPrefix
  <2>2. call' = [call EXCEPT ![a] = r] /\ up /\ UNCHANGED <<ckpts, head, history, up>>
    BY <1>0, <1>4 DEF ReadTree, At, durable, memory
  <2> HIDE DEF r
  <2> QED BY <2>1, <2>2, QuietStep
<1>5. CASE Snapshot(a)
  <2> DEFINE ckpt == [hist |-> history, tree |-> call[a].tree, parent |-> latest]
             r == [call[a] EXCEPT !.pc = "put", !.ckpt = ckpt]
  <2>1. CarriesPrefix(r, ckpts, history)
    BY <1>0, ExtendsItself DEF Call, CarriesPrefix
  <2>2. call' = [call EXCEPT ![a] = r] /\ up /\ UNCHANGED <<ckpts, head, history, up>>
    BY <1>0, <1>5 DEF Snapshot, At, durable, memory
  <2> HIDE DEF r
  <2> QED BY <2>1, <2>2, QuietStep
<1>6. CASE PutCheckpoint(a)
  <2> DEFINE r == [call[a] EXCEPT !.pc = "stored", !.id = Len(ckpts) + 1]
  <2>1. /\ ckpts' = Append(ckpts, call[a].ckpt) /\ call[a].ckpt \in Checkpoint
        /\ call' = [call EXCEPT ![a] = r] /\ up /\ call[a].pc = "put"
        /\ UNCHANGED <<head, history, up>>
    BY <1>0, <1>6 DEF PutCheckpoint, At, memory, Call
  <2>2. ckpts'[Len(ckpts) + 1] = call[a].ckpt
    BY <1>0, <2>1
  <2>3. CarriesPrefix(r, ckpts', history)
    BY <1>0, <2>1, <2>2 DEF CarriesPrefix, Call
  <2> HIDE DEF r
  <2> QED BY <2>1, <2>3, StoringStep
<1>7. CASE PutHead(a)
  <2>1. /\ head' = call[a].id /\ UNCHANGED <<ckpts, history, up>> /\ up
        /\ call' = [call EXCEPT ![a] = [call[a] EXCEPT !.pc = "marking"]]
        /\ call[a].pc = "stored"
    BY <1>0, <1>7 DEF PutHead, At, Goto, memory
  <2>2. HistoryExtendsHead'
    BY <1>0, <2>1 DEF HistoryExtendsHead, CarriesPrefix
  <2>3. ASSUME NEW b \in Actor PROVE CarriesPrefix(call'[b], ckpts', history')
    <3>1. CASE b = a
      BY <1>0, <2>1, <3>1 DEF CarriesPrefix, Call
    <3>2. CASE b # a
      <4>1. call'[b] = call[b] /\ CarriesPrefix(call[b], ckpts, history)
        BY <2>1, <3>2 DEF WellFormed, CallsOK, PrefixInv
      <4> QED BY <2>1, <4>1
    <3> QED BY <3>1, <3>2
  <2> QED BY <2>1, <2>2, <2>3 DEF PrefixInv
<1>8. CASE MarkCheckpointed(a)
  BY <1>1, <1>8 DEF MarkCheckpointed, At, memory
<1>9. CASE FinishCheckpoint(a)
  <2>1. \/ Goto(a, "branchRef") \/ Goto(a, "autoRef") \/ Goto(a, "fork") \/ Return(a)
    BY <1>9 DEF FinishCheckpoint
  <2>2. up /\ UNCHANGED <<ckpts, head, history, up>>
    BY <1>9 DEF FinishCheckpoint, At, durable
  <2> QED BY <1>1, <1>2, <2>1, <2>2
<1>10. CASE BranchStep(a)
  <2>1. call[a].pc \notin {"autoRef", "restore", "adopt"}
    BY <1>0 DEF CallOK, CarriesPrefix
  <2>2. PutBranchRef(a)
    BY <1>10, <2>1 DEF BranchStep, PutAutosaveRef, RestoreFilesystem, AdoptState, At
  <2> QED BY <1>2, <2>2 DEF PutBranchRef, At, memory
<1>11. CASE BuildFork(a)
  <2> DEFINE ckpt == [hist |-> IF call[a].includeWAL THEN history ELSE <<>>,
                      tree |-> treeHash, parent |-> 0]
             r == [call[a] EXCEPT !.pc = "forkPut", !.target = call[a].id, !.ckpt = ckpt]
  <2>1. CarriesPrefix(r, ckpts, history)
    BY <1>0 DEF Call, CarriesPrefix
  <2>2. call' = [call EXCEPT ![a] = r] /\ up /\ UNCHANGED <<ckpts, head, history, up>>
    BY <1>0, <1>11 DEF BuildFork, At, durable, memory
  <2> HIDE DEF r
  <2> QED BY <2>1, <2>2, QuietStep
<1>12. CASE PutForkCheckpoint(a)
  <2> DEFINE r == [call[a] EXCEPT !.pc = "forkRef", !.id = Len(ckpts) + 1]
  <2>1. /\ ckpts' = Append(ckpts, call[a].ckpt) /\ call[a].ckpt \in Checkpoint
        /\ call' = [call EXCEPT ![a] = r] /\ up
        /\ UNCHANGED <<head, history, up>>
    BY <1>0, <1>12 DEF PutForkCheckpoint, At, memory, Call
  <2>2. CarriesPrefix(r, ckpts', history)
    BY <1>0 DEF CarriesPrefix, Call
  <2> HIDE DEF r
  <2> QED BY <2>1, <2>2, StoringStep
<1>13. CASE PutForkRef(a)
  BY <1>1, <1>13 DEF PutForkRef, At, memory
<1>14. CASE PutForkHead(a)
  BY <1>2, <1>14 DEF PutForkHead, At, memory
<1> QED BY <1>3, <1>4, <1>5, <1>6, <1>7, <1>8, <1>9, <1>10, <1>11, <1>12, <1>13, <1>14
        DEF Step, CheckpointStep, ForkStep

LEMMA FailurePrefix ==
  ASSUME WellFormed, PrefixInv,
         FireIdleTimer \/ Evict \/ Load \/ \E a \in Actor : Reject(a)
  PROVE  PrefixInv'
<1>1. CASE FireIdleTimer
  <2>1. up /\ UNCHANGED <<ckpts, head, history, up>>
    BY <1>1 DEF FireIdleTimer, durable
  <2>2. CASE UNCHANGED call
    BY <2>1, <2>2 DEF PrefixInv, HistoryExtendsHead, CarriesPrefix
  <2>3. CASE ~UNCHANGED call
    <3> DEFINE r == [NoCall EXCEPT !.method = "idle", !.pc = "hash"]
    <3>1. call' = [call EXCEPT ![IdleTimer] = r]
      BY <1>1, <2>3 DEF FireIdleTimer
    <3>2. CarriesPrefix(r, ckpts, history)
      BY DEF CarriesPrefix, NoCall
    <3> HIDE DEF r
    <3> QED BY <2>1, <3>1, <3>2, QuietStep DEF Actor
  <2> QED BY <2>2, <2>3
<1>2. CASE Evict
  <2>1. HistoryExtendsHead'
    BY <1>2 DEF Evict, durable, PrefixInv, HistoryExtendsHead
  <2>2. \A a \in Actor : call'[a] = NoCall
    BY <1>2 DEF Evict
  <2>3. NoCall.pc = "none"
    BY DEF NoCall
  <2> QED BY <2>1, <2>2, <2>3, NoCallCarries DEF PrefixInv
<1>3. CASE Load
  <2>1. PICK entries \in EntriesSince(wal, Len(ckpts[head].hist)) :
          history' = ckpts[head].hist \o Replayed(ToReplay(entries, MaxReplayOps))
    BY <1>3 DEF Load
  <2>2. ckpts[head].hist \in Seq(Entry)
    <3>1. ckpts[head] \in Checkpoint
      BY <1>3 DEF Load, WellFormed, DurableOK, RefsResolve
    <3> QED BY <3>1 DEF Checkpoint
  <2>3. Replayed(ToReplay(entries, MaxReplayOps)) \in Seq(Entry)
    <3>1. entries \in Seq(LogEntry)
      BY <2>2, EntriesSinceType DEF WellFormed, DurableOK
    <3> QED BY <3>1, ReplayType, SessionAssumption
  <2>4. HistoryExtendsHead'
    <3>1. UNCHANGED <<ckpts, head>>
      BY <1>3 DEF Load
    <3> QED BY <2>1, <2>2, <2>3, <3>1, ExtendsConcat DEF HistoryExtendsHead
  <2>5. \A a \in Actor : call'[a].pc = "none" /\ call'[a].method # "checkout"
    BY <1>3 DEF Load, PrefixInv, CarriesPrefix
  <2>6. up' = TRUE
    BY <1>3 DEF Load
  <2> QED BY <2>4, <2>5, <2>6 DEF PrefixInv, CarriesPrefix
<1>4. CASE \E a \in Actor : Reject(a)
  <2>1. PICK a \in Actor : Reject(a)
    BY <1>4
  <2> QED BY <2>1, NoCallCarries, QuietStep DEF Reject, Return, durable, memory
<1> QED BY <1>1, <1>2, <1>3, <1>4

(* While no client calls checkout, the history in memory extends the one   *)
(* in HEAD: overlapping checkpoints may move HEAD back, never aside.       *)
THEOREM PrefixInvariant ==
  ASSUME "checkout" \notin Methods
  PROVE  Spec => [](WellFormed /\ PrefixInv)
<1>1. Init => PrefixInv
  BY NoCallCarries DEF Init, PrefixInv, HistoryExtendsHead
<1>2. WellFormed /\ PrefixInv /\ [Next]_vars => PrefixInv'
  <2> SUFFICES ASSUME WellFormed, PrefixInv, [Next]_vars PROVE PrefixInv'
    OBVIOUS
  <2>1. CASE Next
    BY <2>1, NewCallPrefix, CallStepPrefix, FailurePrefix DEF Next
  <2>2. CASE UNCHANGED vars
    BY <2>2 DEF vars, durable, memory, PrefixInv, HistoryExtendsHead, CarriesPrefix
  <2> QED BY <2>1, <2>2
<1>3. Spec => []WellFormed
  BY AlwaysWellFormed
<1> QED BY <1>1, <1>2, <1>3, PTL DEF Spec

(* The same for the invariant the runs check.                              *)
THEOREM HistoryAlwaysExtendsHead ==
  ASSUME "checkout" \notin Methods
  PROVE  Spec => []HistoryExtendsHead
<1>1. PrefixInv => HistoryExtendsHead
  BY DEF PrefixInv
<1> QED BY <1>1, PrefixInvariant, PTL

-----------------------------------------------------------------------------
(* The refinement, one abstract action at a time.                          *)

Hist   == [i \in DOMAIN history |-> history[i].cmd]
Saved  == IF head = 0 THEN 0 ELSE Len(ckpts[head].hist)
Logged == Commands(wal)

(* The abstract variables are these, and they have their types.            *)
LEMMA AbstractFacts ==
  ASSUME WellFormed, PrefixInv
  PROVE  /\ Hist \in Seq(Command) /\ Len(Hist) = Len(history) /\ Len(Hist) \in Nat
         /\ DOMAIN Hist = DOMAIN history
         /\ Durable!Elements(Hist) = Commands(history)
         /\ Saved \in 0 .. Len(Hist)
<1>1. history \in Seq(Entry) /\ Len(history) \in Nat /\ DOMAIN history = 1 .. Len(history)
  BY DEF WellFormed, MemoryOK
<1>2. ASSUME NEW i \in DOMAIN history PROVE history[i].cmd \in Command
  <2>1. history[i] \in Entry
    BY <1>1
  <2> QED BY <2>1 DEF Entry
<1>3. Hist \in [1 .. Len(history) -> Command]
  BY <1>1, <1>2 DEF Hist
<1>4. Hist \in Seq(Command) /\ Len(Hist) = Len(history)
  BY <1>1, <1>3, FunctionIsSeq
<1>5. Durable!Elements(Hist) = Commands(history)
  BY DEF Durable!Elements, Hist, Commands
<1>6. Saved \in 0 .. Len(history)
  <2>1. CASE head = 0
    BY <1>1, <2>1 DEF Saved
  <2>2. CASE head # 0
    <3>1. ckpts[head] \in Checkpoint
      BY <2>2 DEF WellFormed, DurableOK, RefsResolve
    <3>2. Len(ckpts[head].hist) \in Nat
      BY <3>1 DEF Checkpoint
    <3>3. Len(ckpts[head].hist) <= Len(history)
      BY <2>2 DEF PrefixInv, HistoryExtendsHead, Extends
    <3> QED BY <1>1, <2>2, <3>2, <3>3 DEF Saved
  <2> QED BY <2>1, <2>2
<1> QED BY <1>1, <1>4, <1>5, <1>6 DEF Hist

(* A step that keeps the history, HEAD, the checkpoints stored so far and  *)
(* the commands logged is a stutter of the abstract specification.         *)
LEMMA Stutter ==
  ASSUME WellFormed, UNCHANGED <<history, head, up>>, Logged' = Logged,
         ckpts' = ckpts \/ \E ckpt : ckpts' = Append(ckpts, ckpt)
  PROVE  UNCHANGED Durable!vars
<1>1. Hist' = Hist
  BY DEF Hist
<1>2. Saved' = Saved
  <2>1. CASE head = 0
    BY <2>1 DEF Saved
  <2>2. CASE head # 0
    <3>1. head \in 1 .. Len(ckpts) /\ ckpts \in Seq(Checkpoint)
      BY <2>2 DEF WellFormed, DurableOK, RefsResolve
    <3>2. ckpts'[head] = ckpts[head]
      BY <3>1
    <3> QED BY <3>2 DEF Saved
  <2> QED BY <2>1, <2>2
<1> QED BY <1>1, <1>2 DEF Durable!vars, Hist, Saved, Logged

LEMMA PushIsRun ==
  ASSUME WellFormed, PrefixInv, NEW c \in Actor, PushHistory(c)
  PROVE  Durable!Run
<1> DEFINE e == [seq |-> call[c].seq, cmd |-> call[c].cmd]
<1>1. /\ history' = Append(history, e) /\ UNCHANGED <<ckpts, head, wal, up>> /\ up
      /\ history \in Seq(Entry) /\ call[c].cmd \in Command
  BY Facts DEF PushHistory, At, durable, WellFormed, MemoryOK, CallOK
<1>2. Hist \in Seq(Command) /\ Len(Hist) = Len(history) /\ DOMAIN Hist = DOMAIN history
  BY AbstractFacts
<1>3. /\ DOMAIN history' = 1 .. Len(history) + 1 /\ DOMAIN history = 1 .. Len(history)
      /\ Len(history) \in Nat
      /\ history'[Len(history) + 1] = e
      /\ \A i \in 1 .. Len(history) : history'[i] = history[i]
  BY <1>1
<1>4. Hist' = Append(Hist, call[c].cmd)
  <2>1. /\ DOMAIN Append(Hist, call[c].cmd) = 1 .. Len(history) + 1
        /\ Append(Hist, call[c].cmd)[Len(history) + 1] = call[c].cmd
        /\ \A i \in 1 .. Len(history) : Append(Hist, call[c].cmd)[i] = Hist[i]
    BY <1>1, <1>2, <1>3
  <2>2. Append(Hist, call[c].cmd) = [i \in 1 .. Len(history) + 1 |-> Append(Hist, call[c].cmd)[i]]
    BY <1>1, <1>2, <2>1
  <2>3. ASSUME NEW i \in 1 .. Len(history) + 1
        PROVE  history'[i].cmd = Append(Hist, call[c].cmd)[i]
    <3>1. CASE i = Len(history) + 1
      BY <1>3, <2>1, <3>1
    <3>2. CASE i \in 1 .. Len(history)
      <4>1. Hist[i] = history[i].cmd
        BY <1>3, <3>2 DEF Hist
      <4>2. history'[i] = history[i]
        BY <1>3, <3>2
      <4>3. Append(Hist, call[c].cmd)[i] = Hist[i]
        BY <2>1, <3>2
      <4> QED BY <4>1, <4>2, <4>3
    <3>3. i = Len(history) + 1 \/ i \in 1 .. Len(history)
      <4>1. Len(history) \in Nat
        BY <1>3
      <4> QED BY <4>1
    <3> QED BY <3>1, <3>2, <3>3
  <2>4. Hist' = [i \in 1 .. Len(history) + 1 |-> history'[i].cmd]
    BY <1>3 DEF Hist
  <2> QED BY <2>2, <2>3, <2>4
<1>5. Saved' = Saved /\ Logged' = Logged
  BY <1>1 DEF Saved, Logged
<1> QED BY <1>1, <1>4, <1>5 DEF Durable!Run, Hist, Saved, Logged

LEMMA AppendIsLog ==
  ASSUME WellFormed, PrefixInv, NEW c \in Actor, AppendWAL(c)
  PROVE  Durable!Log
<1> DEFINE e == [seq |-> call[c].seq, cmd |-> call[c].cmd, checkpointed |-> FALSE]
<1>1. /\ wal' = Append(wal, e) /\ UNCHANGED <<ckpts, head, history, up>> /\ up
      /\ wal \in Seq(LogEntry) /\ call[c].pc = "append"
  BY DEF AppendWAL, At, memory, WellFormed, DurableOK
<1>2. e \in LogEntry
  BY <1>1, Facts DEF CallOK, Call, LogEntry
<1>3. call[c].cmd \in Durable!Elements(Hist)
  BY <1>1, AbstractFacts DEF PrefixInv, CarriesPrefix
<1>4. Logged' = Logged \cup {call[c].cmd}
  BY <1>1, <1>2, CommandsAppend DEF Logged
<1>5. Hist' = Hist /\ Saved' = Saved
  BY <1>1 DEF Hist, Saved
<1> QED BY <1>1, <1>3, <1>4, <1>5 DEF Durable!Log, Hist, Saved, Logged

LEMMA HeadIsSave ==
  ASSUME WellFormed, PrefixInv, NEW a \in Actor, PutHead(a), PrefixInv', WellFormed'
  PROVE  Durable!Save
<1>1. UNCHANGED <<history, wal, up>> /\ up
  BY DEF PutHead, At, memory
<1>2. Hist' = Hist /\ Logged' = Logged
  BY <1>1 DEF Hist, Logged
<1>3. (Saved \in 0 .. Len(Hist))'
  <2>1. (WellFormed /\ PrefixInv => Saved \in 0 .. Len(Hist))'
    BY AbstractFacts, PTL
  <2> QED BY <2>1
<1> QED BY <1>1, <1>2, <1>3 DEF Durable!Save, Hist, Saved, Logged

LEMMA LoadIsRecover ==
  ASSUME WellFormed, PrefixInv, Load
  PROVE  Durable!Recover
<1> DEFINE old == ckpts[head].hist
<1>1. PICK entries \in EntriesSince(wal, Len(old)) :
        history' = old \o Replayed(ToReplay(entries, MaxReplayOps))
  BY DEF Load
<1> DEFINE new == Replayed(ToReplay(entries, MaxReplayOps))
<1>2. UNCHANGED <<ckpts, head, wal>> /\ ~up /\ up' = TRUE /\ head # 0
  BY DEF Load
<1>3. old \in Seq(Entry) /\ Len(old) \in Nat
  <2>1. ckpts[head] \in Checkpoint
    BY <1>2 DEF WellFormed, DurableOK, RefsResolve
  <2> QED BY <2>1 DEF Checkpoint
<1>4. new \in Seq(Entry) /\ Commands(new) \subseteq Commands(wal)
  <2>1. entries \in Seq(LogEntry) /\ Commands(entries) \subseteq Commands(wal)
    BY <1>3, EntriesSinceType, EntriesSinceCommands DEF WellFormed, DurableOK
  <2> QED BY <2>1, ReplayType, ReplayCommands, SessionAssumption
<1>5. Extends(history, old)
  BY <1>2 DEF PrefixInv, HistoryExtendsHead
<1> HIDE DEF new, old
<1>6. /\ history' = old \o new /\ history' \in Seq(Entry)
      /\ Len(history') = Len(old) + Len(new)
      /\ DOMAIN history' = 1 .. Len(old) + Len(new)
      /\ Len(new) \in Nat /\ DOMAIN new = 1 .. Len(new)
      /\ \A i \in 1 .. Len(old) : history'[i] = old[i]
      /\ \A i \in 1 .. Len(new) : history'[Len(old) + i] = new[i]
  BY <1>1, <1>3, <1>4, ConcatProperties DEF new, old
<1>7. Saved = Len(old) /\ Saved' = Saved /\ Logged' = Logged
  BY <1>2 DEF Saved, Logged, old
<1>8. DOMAIN Hist' = DOMAIN history' /\ Len(Hist') = Len(history')
  <2>1. ASSUME NEW i \in DOMAIN history' PROVE history'[i].cmd \in Command
    <3>1. history'[i] \in Entry
      BY <1>6
    <3> QED BY <3>1 DEF Entry
  <2>2. Hist' \in [1 .. Len(history') -> Command]
    BY <1>6, <2>1 DEF Hist
  <2> QED BY <1>3, <1>6, <2>2, FunctionIsSeq
<1>9. ASSUME NEW i \in DOMAIN Hist'
      PROVE  IF i <= Saved THEN Hist'[i] = Hist[i] ELSE Hist'[i] \in Logged
  <2>1. Hist'[i] = history'[i].cmd /\ i \in 1 .. Len(old) + Len(new)
    BY <1>6, <1>8 DEF Hist
  <2>2. CASE i <= Saved
    <3>1. i \in 1 .. Len(old) /\ i \in DOMAIN history
      <4>1. history \in Seq(Entry)
        BY DEF WellFormed, MemoryOK
      <4> QED BY <1>3, <1>5, <1>7, <2>1, <2>2, <4>1 DEF Extends
    <3> QED BY <1>5, <1>6, <2>1, <2>2, <3>1 DEF Extends, Hist
  <2>3. CASE ~(i <= Saved)
    <3>1. i - Len(old) \in 1 .. Len(new) /\ i = Len(old) + (i - Len(old))
      BY <1>3, <1>6, <1>7, <2>1, <2>3
    <3>2. history'[i] = new[i - Len(old)]
      BY <1>6, <3>1
    <3> QED BY <1>4, <1>6, <2>1, <2>3, <3>1, <3>2 DEF Commands, Logged
  <2> QED BY <2>2, <2>3
<1>10. Saved <= Len(Hist')
  BY <1>3, <1>6, <1>7, <1>8
<1> QED BY <1>2, <1>7, <1>8, <1>9, <1>10 DEF Durable!Recover, Hist, Saved, Logged

(* Every step of the session is a step of DurableHistory or a stutter.     *)
LEMMA StepRefines ==
  ASSUME WellFormed, PrefixInv, WellFormed', PrefixInv', "checkout" \notin Methods,
         [Next]_vars
  PROVE  [Durable!Next]_Durable!vars
<1>1. ASSUME UNCHANGED <<history, head, up>>, wal' = wal,
             ckpts' = ckpts \/ \E ckpt : ckpts' = Append(ckpts, ckpt)
      PROVE  UNCHANGED Durable!vars
  BY <1>1, Stutter DEF Logged
<1>2. ASSUME NEW c \in Client, NewCall(c) PROVE UNCHANGED Durable!vars
  BY <1>1, <1>2 DEF NewCall, Exec, ManualCheckpoint, CallBranch, CallCheckout, CallFork,
                    durable, memory
<1>3. ASSUME NEW a \in Actor, ExecStep(a) PROVE Durable!Next \/ UNCHANGED Durable!vars
  <2>1. CASE RunCommand(a) \/ CountOperation(a)
    BY <1>1, <2>1 DEF RunCommand, CountOperation, durable, memory
  <2>2. CASE PushHistory(a)
    BY <2>2, PushIsRun DEF Durable!Next
  <2>3. CASE AppendWAL(a)
    BY <2>3, AppendIsLog DEF Durable!Next
  <2> QED BY <1>3, <2>1, <2>2, <2>3 DEF ExecStep
<1>4. ASSUME NEW a \in Actor, CheckpointStep(a)
      PROVE  Durable!Next \/ UNCHANGED Durable!vars
  <2>1. CASE ReadTree(a) \/ Snapshot(a) \/ PutCheckpoint(a) \/ FinishCheckpoint(a)
    BY <1>1, <2>1 DEF ReadTree, Snapshot, PutCheckpoint, FinishCheckpoint, durable, memory
  <2>2. CASE PutHead(a)
    BY <2>2, HeadIsSave DEF Durable!Next
  <2>3. CASE MarkCheckpointed(a)
    <3>1. UNCHANGED <<history, head, up, ckpts>>
      BY <2>3 DEF MarkCheckpointed, memory
    <3>2. Logged' = Logged
      BY <2>3, MarkCommands DEF MarkCheckpointed, Logged, WellFormed, DurableOK
    <3> QED BY <3>1, <3>2, Stutter
  <2> QED BY <1>4, <2>1, <2>2, <2>3 DEF CheckpointStep
<1>5. ASSUME NEW a \in Actor, BranchStep(a) PROVE UNCHANGED Durable!vars
  <2>1. call[a].pc \notin {"autoRef", "restore", "adopt"}
    BY Facts DEF CallOK, PrefixInv, CarriesPrefix
  <2>2. PutBranchRef(a)
    BY <1>5, <2>1 DEF BranchStep, PutAutosaveRef, RestoreFilesystem, AdoptState, At
  <2> QED BY <1>1, <2>2 DEF PutBranchRef, memory
<1>6. ASSUME NEW a \in Actor, ForkStep(a) PROVE UNCHANGED Durable!vars
  BY <1>1, <1>6 DEF ForkStep, BuildFork, PutForkCheckpoint, PutForkRef, PutForkHead,
                    durable, memory
<1>7. ASSUME NEW a \in Actor, Reject(a) PROVE UNCHANGED Durable!vars
  BY <1>1, <1>7 DEF Reject, durable, memory
<1>8. CASE FireIdleTimer
  BY <1>1, <1>8 DEF FireIdleTimer, durable
<1>9. CASE Evict
  <2>1. /\ up /\ up' = FALSE /\ UNCHANGED <<history, head, ckpts, wal>>
    BY <1>9 DEF Evict, durable
  <2>2. Hist' = Hist /\ Saved' = Saved /\ Logged' = Logged
    BY <2>1 DEF Hist, Saved, Logged
  <2> QED BY <2>1, <2>2 DEF Durable!Next, Durable!Evict, Hist, Saved, Logged
<1>10. CASE Load
  BY <1>10, LoadIsRecover DEF Durable!Next
<1>11. CASE UNCHANGED vars
  BY <1>1, <1>11 DEF vars, durable, memory
<1> QED BY <1>2, <1>3, <1>4, <1>5, <1>6, <1>7, <1>8, <1>9, <1>10, <1>11 DEF Next, Step

(* The session implements DurableHistory while no client calls checkout:   *)
(* whatever is interleaved, rejected or evicted, a recovery brings back    *)
(* what HEAD saved, in order, followed by logged commands only.            *)
THEOREM ImplementsDurableHistory ==
  ASSUME "checkout" \notin Methods
  PROVE  Spec => KeepsDurableHistory
<1>1. Init => Durable!Init
  <2> SUFFICES ASSUME Init PROVE Durable!Init
    OBVIOUS
  <2>1. Hist = <<>> /\ Logged = {} /\ Saved = 0
    BY DEF Init, Hist, Logged, Saved, Commands
  <2> QED BY <2>1 DEF Init, Durable!Init, Hist, Saved, Logged
<1>2. WellFormed /\ PrefixInv /\ (WellFormed /\ PrefixInv)' /\ [Next]_vars
        => [Durable!Next]_Durable!vars
  BY StepRefines
<1>3. Spec => [](WellFormed /\ PrefixInv)
  BY PrefixInvariant
<1> QED BY <1>1, <1>2, <1>3, PTL DEF Spec, KeepsDurableHistory, Durable!Spec

=============================================================================
