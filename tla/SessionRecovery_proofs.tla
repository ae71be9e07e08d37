----------------------- MODULE SessionRecovery_proofs -----------------------
(***************************************************************************)
(* What a session with a single client keeps, for every other value of the *)
(* constants: a checkout drops no work, and while nothing rejects and no   *)
(* client checks out, a recovery repeats no command and drops at most one  *)
(* that was acknowledged.                                                  *)
(***************************************************************************)
EXTENDS SessionDurable_proofs

OneClient == \A c, d \in Client : c = d

-----------------------------------------------------------------------------
(* Checkout.  The history it replaces is the one it autosaved, because the *)
(* only client is inside checkout and the idle timer never changes the     *)
(* history.  Inductive with the history followed from the snapshot through *)
(* the stored checkpoint to the autosave reference.                        *)

(* What a checkout r has saved so far of the history h, over the           *)
(* checkpoints cs and the autosave reference auto.                         *)
Saves(r, cs, h, auto) ==
  r.method = "checkout" =>
    /\ r.pc = "put" => r.ckpt.hist = h
    /\ r.pc \in {"stored", "marking", "marked", "autoRef"} =>
         r.id # 0 /\ cs[r.id].hist = h
    /\ r.pc \in {"restore", "adopt"} => auto # 0 /\ cs[auto].hist = h

(* The idle timer runs no method of a client, and no call outlives an      *)
(* eviction.                                                               *)
TimerOnlyIdle  == call[IdleTimer].method \in {"none", "idle"}
NoneWhenEvicted == ~up => \A a \in Actor : call[a] = NoCall

CheckoutInv ==
  /\ \A a \in Actor : Saves(call[a], ckpts, history, autosave)
  /\ TimerOnlyIdle
  /\ NoneWhenEvicted

LEMMA NoCallSaves == \A cs, h, auto : Saves(NoCall, cs, h, auto)
BY DEF Saves, NoCall

(* A step of one actor that leaves the history and the autosave alone.     *)
LEMMA CheckoutStep ==
  ASSUME WellFormed, CheckoutInv, NEW a \in Actor, NEW r,
         call' = [call EXCEPT ![a] = r], up, UNCHANGED <<history, autosave, up>>,
         ckpts' = ckpts \/ \E ckpt : ckpts' = Append(ckpts, ckpt),
         a = IdleTimer => r.method \in {"none", "idle"},
         Saves(r, ckpts', history, autosave)
  PROVE  CheckoutInv'
<1>1. /\ ckpts \in Seq(Checkpoint) /\ Len(ckpts) \in Nat
      /\ \A i \in 1 .. Len(ckpts) : ckpts'[i] = ckpts[i]
  BY DEF WellFormed, DurableOK
<1>2. ASSUME NEW b \in Actor PROVE Saves(call'[b], ckpts', history', autosave')
  <2>1. CASE b = a
    <3>1. call'[b] = r
      BY <2>1 DEF WellFormed, CallsOK
    <3> QED BY <3>1
  <2>2. CASE b # a
    <3>1. call'[b] = call[b] /\ Saves(call[b], ckpts, history, autosave)
      BY <2>2 DEF WellFormed, CallsOK, CheckoutInv
    <3>2. call[b].id \in 0 .. Len(ckpts) /\ autosave \in 0 .. Len(ckpts)
      BY DEF WellFormed, CallsOK, CallOK, RefsResolve
    <3>3. call[b].id # 0 => ckpts'[call[b].id] = ckpts[call[b].id]
      BY <1>1, <3>2
    <3>4. autosave # 0 => ckpts'[autosave] = ckpts[autosave]
      BY <1>1, <3>2
    <3> QED BY <3>1, <3>3, <3>4 DEF Saves
  <2> QED BY <2>1, <2>2
<1>3. TimerOnlyIdle'
  <2>1. call'[IdleTimer] = IF a = IdleTimer THEN r ELSE call[IdleTimer]
    BY DEF WellFormed, CallsOK, Actor
  <2> QED BY <2>1 DEF CheckoutInv, TimerOnlyIdle
<1> QED BY <1>2, <1>3 DEF CheckoutInv, NoneWhenEvicted

(* A step of the only client that leaves no checkout under way.            *)
LEMMA NoCheckoutLeft ==
  ASSUME WellFormed, CheckoutInv, OneClient, NEW c \in Client, NEW r,
         call' = [call EXCEPT ![c] = r], up, up', r.method # "checkout"
  PROVE  CheckoutInv'
<1>1. c \in Actor /\ c # IdleTimer
  BY SessionAssumption DEF Actor
<1>2. ASSUME NEW b \in Actor PROVE call'[b].method # "checkout"
  <2>1. CASE b = c
    BY <1>1, <2>1 DEF WellFormed, CallsOK
  <2>2. CASE b # c
    <3>1. b = IdleTimer /\ call'[b] = call[b]
      BY <2>2 DEF Actor, OneClient, WellFormed, CallsOK
    <3> QED BY <3>1 DEF CheckoutInv, TimerOnlyIdle
  <2> QED BY <2>1, <2>2
<1>3. call'[IdleTimer] = call[IdleTimer]
  BY <1>1 DEF WellFormed, CallsOK, Actor
<1> QED BY <1>2, <1>3 DEF CheckoutInv, Saves, TimerOnlyIdle, NoneWhenEvicted

LEMMA NewCallSaves ==
  ASSUME WellFormed, CheckoutInv, NEW c \in Client, NewCall(c)
  PROVE  CheckoutInv'
<1>1. ASSUME NEW record, NEW method, Begin(c, method, record),
             UNCHANGED <<durable, up, memory, acked>>,
             record.pc \in {"running", "hash", "fork"}, DOMAIN record = DOMAIN NoCall
      PROVE  CheckoutInv'
  <2> DEFINE r == [record EXCEPT !.method = method]
  <2>1. r.pc = record.pc
    BY <1>1 DEF NoCall
  <2>2. Saves(r, ckpts', history, autosave)
    BY <1>1, <2>1 DEF Saves
  <2>3. /\ call' = [call EXCEPT ![c] = r] /\ up /\ ckpts' = ckpts
        /\ UNCHANGED <<history, autosave, up>>
    BY <1>1 DEF Begin, durable, refs, memory
  <2>4. c \in Actor /\ c # IdleTimer
    BY SessionAssumption DEF Actor
  <2> HIDE DEF r
  <2> QED BY <2>2, <2>3, <2>4, CheckoutStep
<1>2. CASE Exec(c)
  BY <1>1, <1>2 DEF Exec, NoCall
<1>3. CASE ManualCheckpoint(c)
  BY <1>1, <1>3 DEF ManualCheckpoint, NoCall
<1>4. CASE CallBranch(c)
  BY <1>1, <1>4 DEF CallBranch, NoCall
<1>5. CASE CallCheckout(c)
  BY <1>1, <1>5 DEF CallCheckout, NoCall
<1>6. CASE CallFork(c)
  BY <1>1, <1>6 DEF CallFork, NoCall
<1> QED BY <1>2, <1>3, <1>4, <1>5, <1>6 DEF NewCall

LEMMA CallStepSaves ==
  ASSUME WellFormed, CheckoutInv, OneClient, NEW a \in Actor, Step(a)
  PROVE  CheckoutInv'
<1>0. /\ call[a] \in Call /\ CallOK(call[a], Len(ckpts)) /\ Len(ckpts) \in Nat
      /\ Saves(call[a], ckpts, history, autosave)
      /\ a = IdleTimer => call[a].method \in {"none", "idle"}
      /\ history \in Seq(Entry) /\ ckpts \in Seq(Checkpoint) /\ a \in DOMAIN call
  BY Facts DEF WellFormed, DurableOK, MemoryOK, CallsOK, CheckoutInv, TimerOnlyIdle
<1>1. ASSUME NEW pc, Goto(a, pc), up, UNCHANGED <<ckpts, history, autosave, up>>,
             Saves([call[a] EXCEPT !.pc = pc], ckpts, history, autosave)
      PROVE  CheckoutInv'
  <2> DEFINE r == [call[a] EXCEPT !.pc = pc]
  <2>1. r.method = call[a].method
    BY <1>0 DEF Call
  <2>2. call' = [call EXCEPT ![a] = r]
    BY <1>0, <1>1 DEF Goto
  <2>3. Saves(r, ckpts', history, autosave)
    BY <1>1
  <2> HIDE DEF r
  <2> QED BY <1>0, <1>1, <2>1, <2>2, <2>3, CheckoutStep
<1>2. ASSUME NEW pc, pc \notin {"put", "stored", "marking", "marked", "autoRef",
                                "restore", "adopt"} \/ call[a].method # "checkout"
      PROVE  Saves([call[a] EXCEPT !.pc = pc], ckpts, history, autosave)
  BY <1>0, <1>2 DEF Saves, Call
<1>3. ASSUME Return(a), up, UNCHANGED <<ckpts, history, autosave, up>>
      PROVE  CheckoutInv'
  <2>1. NoCall.method = "none"
    BY DEF NoCall
  <2> QED BY <1>3, <2>1, NoCallSaves, CheckoutStep DEF Return
<1>4. CASE RunCommand(a)
  BY <1>1, <1>2, <1>4 DEF RunCommand, At, refs, memory
<1>5. CASE PushHistory(a)
  <2> DEFINE r == [call[a] EXCEPT !.pc = "append"]
  <2>1. call[a].method = "exec" /\ call' = [call EXCEPT ![a] = r] /\ up /\ up'
    BY <1>0, <1>5 DEF PushHistory, At, Goto, CallOK
  <2>2. r.method = "exec" /\ a \in Client
    BY <1>0, <2>1 DEF Call, Actor
  <2> HIDE DEF r
  <2> QED BY <2>1, <2>2, NoCheckoutLeft
<1>6. CASE AppendWAL(a)
  BY <1>1, <1>2, <1>6 DEF AppendWAL, At, refs, memory
<1>7. CASE CountOperation(a)
  <2>1. (Goto(a, "hash") \/ Return(a)) /\ up /\ UNCHANGED <<ckpts, history, autosave, up>>
    BY <1>7 DEF CountOperation, At, durable, refs
  <2> QED BY <1>1, <1>2, <1>3, <2>1
<1>8. CASE ReadTree(a)
  <2> DEFINE r == [call[a] EXCEPT !.pc = "hashed", !.tree = files]
  <2>1. r.method = call[a].method /\ r.pc = "hashed"
    BY <1>0 DEF Call
  <2>2. /\ call' = [call EXCEPT ![a] = r] /\ up /\ ckpts' = ckpts
        /\ UNCHANGED <<history, autosave, up>>
    BY <1>0, <1>8 DEF ReadTree, At, durable, refs, memory
  <2> HIDE DEF r
  <2>3. Saves(r, ckpts', history, autosave)
    BY <2>1 DEF Saves
  <2> QED BY <1>0, <2>1, <2>2, <2>3, CheckoutStep
<1>9. CASE Snapshot(a)
  <2> DEFINE ckpt == [hist |-> history, tree |-> call[a].tree, parent |-> latest]
             r == [call[a] EXCEPT !.pc = "put", !.ckpt = ckpt]
  <2>1. r.method = call[a].method /\ r.pc = "put" /\ r.ckpt.hist = history
    BY <1>0 DEF Call
  <2>2. /\ call' = [call EXCEPT ![a] = r] /\ up /\ ckpts' = ckpts
        /\ UNCHANGED <<history, autosave, up>>
    BY <1>0, <1>9 DEF Snapshot, At, durable, refs, memory
  <2> HIDE DEF r
  <2>3. Saves(r, ckpts', history, autosave)
    BY <2>1 DEF Saves
  <2> QED BY <1>0, <2>1, <2>2, <2>3, CheckoutStep
<1>10. CASE PutCheckpoint(a)
  <2> DEFINE r == [call[a] EXCEPT !.pc = "stored", !.id = Len(ckpts) + 1]
  <2>1. r.method = call[a].method /\ r.pc = "stored" /\ r.id = Len(ckpts) + 1
    BY <1>0 DEF Call
  <2>2. /\ call' = [call EXCEPT ![a] = r] /\ up /\ ckpts' = Append(ckpts, call[a].ckpt)
        /\ UNCHANGED <<history, autosave, up>> /\ call[a].pc = "put"
    BY <1>0, <1>10 DEF PutCheckpoint, At, refs, memory
  <2> HIDE DEF r
  <2>3. ckpts'[Len(ckpts) + 1] = call[a].ckpt
    <3>1. call[a].ckpt \in Checkpoint
      BY <1>0 DEF Call
    <3> QED BY <1>0, <2>2, <3>1
  <2>4. Saves(r, ckpts', history, autosave)
    BY <1>0, <2>1, <2>2, <2>3 DEF Saves
  <2> QED BY <1>0, <2>1, <2>2, <2>4, CheckoutStep
<1>11. CASE PutHead(a)
  <2>1. Saves([call[a] EXCEPT !.pc = "marking"], ckpts, history, autosave)
    BY <1>0, <1>11 DEF PutHead, At, Saves, Call
  <2> QED BY <1>1, <1>11, <2>1 DEF PutHead, At, refs, memory
<1>12. CASE MarkCheckpointed(a)
  <2>1. Saves([call[a] EXCEPT !.pc = "marked"], ckpts, history, autosave)
    BY <1>0, <1>12 DEF MarkCheckpointed, At, Saves, Call
  <2> QED BY <1>1, <1>12, <2>1 DEF MarkCheckpointed, At, refs, memory
<1>13. CASE FinishCheckpoint(a)
  <2>1. up /\ UNCHANGED <<ckpts, history, autosave, up>> /\ call[a].pc = "marked"
    BY <1>13 DEF FinishCheckpoint, At, durable, refs
  <2>2. CASE call[a].method = "checkout"
    <3>1. Saves([call[a] EXCEPT !.pc = "autoRef"], ckpts, history, autosave)
      BY <1>0, <2>1 DEF Saves, Call
    <3> QED BY <1>1, <1>13, <2>1, <2>2, <3>1 DEF FinishCheckpoint
  <2>3. CASE call[a].method # "checkout"
    <3>1. \/ Goto(a, "branchRef") \/ Goto(a, "fork") \/ Return(a)
      BY <1>13, <2>3 DEF FinishCheckpoint
    <3> QED BY <1>1, <1>2, <1>3, <2>1, <3>1
  <2> QED BY <2>2, <2>3
<1>14. CASE PutBranchRef(a)
  BY <1>3, <1>14 DEF PutBranchRef, At, memory
<1>15. CASE PutAutosaveRef(a)
  <2> DEFINE r == [call[a] EXCEPT !.pc = "restore"]
  <2>1. /\ call' = [call EXCEPT ![a] = r] /\ up /\ autosave' = call[a].id
        /\ UNCHANGED <<ckpts, history, up>> /\ call[a].pc = "autoRef"
    BY <1>0, <1>15 DEF PutAutosaveRef, At, Goto, memory
  <2>2. call[a].method = "checkout" /\ call[a].id # 0 /\ ckpts[call[a].id].hist = history
    BY <1>0, <2>1 DEF CallOK, Saves
  <2>3. a \in Client /\ a # IdleTimer
    BY <1>0, <2>2, SessionAssumption DEF Actor
  <2>4. ASSUME NEW b \in Actor PROVE Saves(call'[b], ckpts', history', autosave')
    <3>1. CASE b = a
      <4>1. call'[b] = r /\ r.pc = "restore"
        BY <1>0, <2>1, <3>1 DEF Call
      <4> QED BY <2>1, <2>2, <4>1 DEF Saves
    <3>2. CASE b # a
      <4>1. b = IdleTimer /\ call'[b] = call[b]
        BY <2>1, <2>3, <3>2 DEF Actor, OneClient, WellFormed, CallsOK
      <4> QED BY <4>1 DEF CheckoutInv, TimerOnlyIdle, Saves
    <3> QED BY <3>1, <3>2
  <2>5. call'[IdleTimer] = call[IdleTimer]
    BY <2>1, <2>3 DEF WellFormed, CallsOK, Actor
  <2> QED BY <2>1, <2>4, <2>5 DEF CheckoutInv, TimerOnlyIdle, NoneWhenEvicted
<1>16. CASE RestoreFilesystem(a)
  <2>1. Saves([call[a] EXCEPT !.pc = "adopt"], ckpts, history, autosave)
    BY <1>0, <1>16 DEF RestoreFilesystem, At, Saves, Call
  <2> QED BY <1>1, <1>16, <2>1 DEF RestoreFilesystem, At, refs, memory
<1>17. CASE AdoptState(a)
  <2>1. call[a].method = "checkout" /\ call' = [call EXCEPT ![a] = NoCall] /\ up /\ up'
    BY <1>0, <1>17 DEF AdoptState, At, Return, CallOK
  <2>2. a \in Client /\ NoCall.method # "checkout"
    BY <1>0, <2>1 DEF Actor, NoCall
  <2> QED BY <2>1, <2>2, NoCheckoutLeft
<1>18. CASE ForkStep(a)
  <2>1. CASE BuildFork(a)
    <3> DEFINE ckpt == [hist |-> IF call[a].includeWAL THEN history ELSE <<>>,
                        tree |-> treeHash, parent |-> 0]
               r == [call[a] EXCEPT !.pc = "forkPut", !.target = call[a].id, !.ckpt = ckpt]
    <3>1. r.method = call[a].method /\ r.pc = "forkPut"
      BY <1>0 DEF Call
    <3>2. /\ call' = [call EXCEPT ![a] = r] /\ up /\ ckpts' = ckpts
          /\ UNCHANGED <<history, autosave, up>>
      BY <1>0, <2>1 DEF BuildFork, At, durable, refs, memory
    <3> HIDE DEF r
    <3>3. Saves(r, ckpts', history, autosave)
      BY <3>1 DEF Saves
    <3> QED BY <1>0, <3>1, <3>2, <3>3, CheckoutStep
  <2>2. CASE PutForkCheckpoint(a)
    <3> DEFINE r == [call[a] EXCEPT !.pc = "forkRef", !.id = Len(ckpts) + 1]
    <3>1. r.method = call[a].method /\ r.pc = "forkRef"
      BY <1>0 DEF Call
    <3>2. /\ call' = [call EXCEPT ![a] = r] /\ up /\ ckpts' = Append(ckpts, call[a].ckpt)
          /\ UNCHANGED <<history, autosave, up>>
      BY <1>0, <2>2 DEF PutForkCheckpoint, At, refs, memory
    <3> HIDE DEF r
    <3>3. Saves(r, ckpts', history, autosave)
      BY <3>1 DEF Saves
    <3> QED BY <1>0, <3>1, <3>2, <3>3, CheckoutStep
  <2>3. CASE PutForkRef(a)
    BY <1>1, <1>2, <2>3 DEF PutForkRef, At, memory
  <2>4. CASE PutForkHead(a)
    BY <1>3, <2>4 DEF PutForkHead, At, memory
  <2> QED BY <1>18, <2>1, <2>2, <2>3, <2>4 DEF ForkStep
<1> QED BY <1>4, <1>5, <1>6, <1>7, <1>8, <1>9, <1>10, <1>11, <1>12, <1>13, <1>14,
           <1>15, <1>16, <1>17, <1>18
        DEF Step, CheckpointStep, ExecStep, BranchStep

LEMMA OtherSaves ==
  ASSUME WellFormed, CheckoutInv,
         FireIdleTimer \/ Evict \/ Load \/ \E a \in Actor : Reject(a)
  PROVE  CheckoutInv'
<1>1. CASE FireIdleTimer
  <2>1. up /\ UNCHANGED <<ckpts, history, autosave, up>>
    BY <1>1 DEF FireIdleTimer, durable, refs
  <2>2. CASE UNCHANGED call
    BY <2>1, <2>2 DEF CheckoutInv, Saves, TimerOnlyIdle, NoneWhenEvicted
  <2>3. CASE ~UNCHANGED call
    <3> DEFINE r == [NoCall EXCEPT !.method = "idle", !.pc = "hash"]
    <3>1. call' = [call EXCEPT ![IdleTimer] = r]
      BY <1>1, <2>3 DEF FireIdleTimer
    <3>2. r.method = "idle" /\ ckpts' = ckpts
      BY <2>1 DEF NoCall
    <3> HIDE DEF r
    <3>3. Saves(r, ckpts', history, autosave)
      BY <3>2 DEF Saves
    <3> QED BY <2>1, <3>1, <3>2, <3>3, CheckoutStep DEF Actor
  <2> QED BY <2>2, <2>3
<1>2. CASE Evict
  <2>1. \A a \in Actor : call'[a] = NoCall
    BY <1>2 DEF Evict
  <2>2. IdleTimer \in Actor /\ NoCall.method = "none"
    BY DEF Actor, NoCall
  <2> QED BY <2>1, <2>2, NoCallSaves DEF CheckoutInv, TimerOnlyIdle, NoneWhenEvicted
<1>3. CASE Load
  <2>1. \A a \in Actor : call'[a] = NoCall
    BY <1>3 DEF Load, CheckoutInv, NoneWhenEvicted
  <2>2. IdleTimer \in Actor /\ NoCall.method = "none"
    BY DEF Actor, NoCall
  <2> QED BY <2>1, <2>2, NoCallSaves DEF CheckoutInv, TimerOnlyIdle, NoneWhenEvicted
<1>4. ASSUME NEW a \in Actor, Reject(a) PROVE CheckoutInv'
  <2>1. /\ call' = [call EXCEPT ![a] = NoCall] /\ up /\ ckpts' = ckpts
        /\ UNCHANGED <<history, autosave, up>>
    BY <1>4 DEF Reject, Return, durable, refs, memory
  <2>2. NoCall.method = "none"
    BY DEF NoCall
  <2> QED BY <2>1, <2>2, NoCallSaves, CheckoutStep
<1> QED BY <1>1, <1>2, <1>3, <1>4

(* With one client, a checkout has saved the history it is about to        *)
(* replace.                                                                *)
THEOREM CheckoutInvariant ==
  ASSUME OneClient
  PROVE  Spec => [](WellFormed /\ CheckoutInv)
<1>1. Init => CheckoutInv
  <2> SUFFICES ASSUME Init PROVE CheckoutInv
    OBVIOUS
  <2>1. \A a \in Actor : call[a] = NoCall
    BY DEF Init
  <2>2. IdleTimer \in Actor /\ NoCall.method = "none"
    BY DEF Actor, NoCall
  <2> QED BY <2>1, <2>2, NoCallSaves DEF CheckoutInv, TimerOnlyIdle, NoneWhenEvicted
<1>2. WellFormed /\ CheckoutInv /\ [Next]_vars => CheckoutInv'
  <2> SUFFICES ASSUME WellFormed, CheckoutInv, [Next]_vars PROVE CheckoutInv'
    OBVIOUS
  <2>1. CASE Next
    BY <2>1, NewCallSaves, CallStepSaves, OtherSaves DEF Next
  <2>2. CASE UNCHANGED vars
    BY <2>2 DEF vars, durable, refs, memory, CheckoutInv, Saves, TimerOnlyIdle,
                NoneWhenEvicted
  <2> QED BY <2>1, <2>2
<1>3. Spec => []WellFormed
  BY AlwaysWellFormed
<1> QED BY <1>1, <1>2, <1>3, PTL DEF Spec

(* With one client, checkout drops no work: Session.checkout replaces the  *)
(* state only after an autosave reference names a checkpoint of exactly    *)
(* the history it replaces, whatever the idle timer stores meanwhile,      *)
(* whatever rejects and whenever the object is evicted.                    *)
THEOREM CheckoutAlwaysKeepsWork ==
  ASSUME OneClient
  PROVE  Spec => []CheckoutKeepsWork
<1>1. WellFormed /\ CheckoutInv => CheckoutKeepsWork
  <2> SUFFICES ASSUME WellFormed, CheckoutInv, NEW c \in Client, call[c].pc = "adopt"
               PROVE  /\ autosave # 0
                      /\ Commands(history) \subseteq Commands(ckpts[autosave].hist)
    BY DEF CheckoutKeepsWork
  <2>1. c \in Actor
    BY DEF Actor
  <2>2. call[c].method = "checkout"
    BY <2>1 DEF WellFormed, CallsOK, CallOK
  <2>3. autosave # 0 /\ ckpts[autosave].hist = history
    BY <2>1, <2>2 DEF CheckoutInv, Saves
  <2> QED BY <2>3
<1> QED BY <1>1, CheckoutInvariant, PTL
-----------------------------------------------------------------------------
(* The answer of a log query over an interval of the log.                  *)

(* The only increasing enumeration of an interval counts up from its first *)
(* element: fewer numbers lie below and above a value than places do       *)
(* before and after it, were it anywhere else.                             *)
LEMMA IntervalEnumeration ==
  ASSUME NEW lo \in Int, NEW hi \in Int, lo <= hi + 1, NEW at \in Enumerations(lo .. hi)
  PROVE  /\ DOMAIN at = 1 .. hi - lo + 1
         /\ \A k \in 1 .. hi - lo + 1 : at[k] = lo + k - 1
<1> DEFINE N == hi - lo + 1
<1>1. Cardinality(lo .. hi) = N /\ N \in Nat
  BY FS_Interval
<1> HIDE DEF N
<1>2. at \in [1 .. N -> lo .. hi] /\ \A i, j \in 1 .. N : i < j => at[i] < at[j]
  BY <1>1 DEF Enumerations
<1>3. ASSUME NEW k \in 1 .. N PROVE at[k] = lo + k - 1
  <2>1. k \in Nat /\ k <= N /\ N = hi - lo + 1 /\ at[k] \in Int /\ lo <= at[k] /\ at[k] <= hi
    BY <1>1, <1>2 DEF N
  <2>2. at[k] >= lo + k - 1
    <3> SUFFICES ASSUME at[k] < lo + k - 1 PROVE FALSE
      BY <2>1
    <3> DEFINE f == [i \in 1 .. k |-> at[i]]
    <3>1. f \in [1 .. k -> lo .. at[k]]
      <4>1. ASSUME NEW i \in 1 .. k PROVE at[i] \in lo .. at[k]
        <5>1. i \in 1 .. N /\ at[i] \in lo .. hi /\ (i = k \/ i < k)
          BY <1>2, <2>1
        <5> QED BY <1>2, <2>1, <5>1
      <4> QED BY <4>1
    <3>2. /\ IsFiniteSet(1 .. k) /\ Cardinality(1 .. k) = k
          /\ IsFiniteSet(lo .. at[k]) /\ Cardinality(lo .. at[k]) = at[k] - lo + 1
      BY <2>1, FS_Interval
    <3>3. PICK x, y \in 1 .. k : x # y /\ f[x] = f[y]
      <4> HIDE DEF f
      <4>1. at[k] - lo + 1 < k
        BY <2>1
      <4> QED BY <3>1, <3>2, <4>1, FS_PigeonHole
    <3>4. x \in 1 .. N /\ y \in 1 .. N /\ (x < y \/ y < x) /\ at[x] = at[y]
      BY <2>1, <3>3
    <3> QED BY <1>2, <3>4
  <2>3. at[k] <= lo + k - 1
    <3> SUFFICES ASSUME at[k] > lo + k - 1 PROVE FALSE
      BY <2>1
    <3> DEFINE f == [i \in k .. N |-> at[i]]
    <3>1. f \in [k .. N -> at[k] .. hi]
      <4>1. ASSUME NEW i \in k .. N PROVE at[i] \in at[k] .. hi
        <5>1. i \in 1 .. N /\ at[i] \in lo .. hi /\ (i = k \/ k < i)
          BY <1>2, <2>1
        <5> QED BY <1>2, <2>1, <5>1
      <4> QED BY <4>1
    <3>2. /\ IsFiniteSet(k .. N) /\ Cardinality(k .. N) = N - k + 1
          /\ IsFiniteSet(at[k] .. hi) /\ Cardinality(at[k] .. hi) = hi - at[k] + 1
      BY <1>1, <2>1, FS_Interval
    <3>3. PICK x, y \in k .. N : x # y /\ f[x] = f[y]
      <4> HIDE DEF f
      <4>1. hi - at[k] + 1 < N - k + 1
        BY <2>1
      <4> QED BY <3>1, <3>2, <4>1, FS_PigeonHole
    <3>4. x \in 1 .. N /\ y \in 1 .. N /\ (x < y \/ y < x) /\ at[x] = at[y]
      BY <1>1, <2>1, <3>3
    <3> QED BY <1>2, <3>4
  <2> QED BY <2>1, <2>2, <2>3
<1> QED BY <1>2, <1>3 DEF N

(* A log whose entries past seq l are those from place lo on answers with  *)
(* these, in the order of the log.                                         *)
LEMMA AnswerFrom ==
  ASSUME NEW log \in Seq(LogEntry), NEW l \in Nat, NEW entries \in EntriesSince(log, l),
         NEW lo \in Int, lo >= 1, lo <= Len(log) + 1,
         \A i \in DOMAIN log : log[i].seq > l <=> i >= lo
  PROVE  /\ Len(entries) = Len(log) - lo + 1
         /\ \A k \in 1 .. Len(log) - lo + 1 :
              lo + k - 1 \in DOMAIN log /\ entries[k] = log[lo + k - 1]
<1>1. DOMAIN log = 1 .. Len(log) /\ Len(log) \in Nat
  OBVIOUS
<1>2. {i \in DOMAIN log : log[i].seq > l} = lo .. Len(log)
  <2>1. ASSUME NEW i \in DOMAIN log PROVE i >= lo <=> i \in lo .. Len(log)
    BY <1>1
  <2>2. \A i \in lo .. Len(log) : i \in DOMAIN log
    BY <1>1
  <2> QED BY <2>1, <2>2
<1>3. PICK at \in Enumerations(lo .. Len(log)) : entries = [k \in DOMAIN at |-> log[at[k]]]
  BY <1>2 DEF EntriesSince
<1>4. /\ DOMAIN at = 1 .. Len(log) - lo + 1
      /\ \A k \in 1 .. Len(log) - lo + 1 : at[k] = lo + k - 1
  BY <1>1, <1>3, IntervalEnumeration
<1>5. entries \in Seq(LogEntry)
  BY EntriesSinceType
<1>6. Len(entries) = Len(log) - lo + 1
  <2>1. DOMAIN entries = 1 .. Len(log) - lo + 1
    BY <1>3, <1>4
  <2>2. Len(entries) \in Nat /\ DOMAIN entries = 1 .. Len(entries)
    BY <1>5
  <2> QED BY <1>1, <2>1, <2>2
<1>7. ASSUME NEW k \in 1 .. Len(log) - lo + 1
      PROVE  lo + k - 1 \in DOMAIN log /\ entries[k] = log[lo + k - 1]
  <2>1. entries[k] = log[at[k]] /\ at[k] = lo + k - 1
    BY <1>3, <1>4
  <2>2. lo + k - 1 \in 1 .. Len(log)
    BY <1>1
  <2> QED BY <1>1, <2>1, <2>2
<1> QED BY <1>6, <1>7

-----------------------------------------------------------------------------
(* How the log lines up with the history.  A recovery may drop the entry   *)
(* at HEAD's length; the entries behind it move down one place and keep    *)
(* their numbers.  So past some place m the history's numbers are the      *)
(* places or, once commands have run again, one less; and the log past m   *)
(* is the history past m, shifted by some s.                               *)

Same(e, f) == e.seq = f.seq /\ e.cmd = f.cmd

Lags(h, m) ==
  /\ \A p \in m + 1 .. Len(h) : h[p].seq \in {p - 1, p}
  /\ \A p, q \in m + 1 .. Len(h) : p < q /\ h[p].seq = p - 1 => h[q].seq = q - 1

Aligned(h, log, s, m) ==
  /\ \A i \in 1 .. Len(log) : log[i].seq > m =>
       s + i \in m + 1 .. Len(h) /\ Same(log[i], h[s + i])
  /\ \A p \in m + 1 .. Len(h) : h[p].seq > m /\ p <= s + Len(log) =>
       p > s /\ Same(log[p - s], h[p])

(* new is h up to place l, and past l it is h again or h one place on.     *)
Rebuilds(new, h, l) ==
  \E d \in {0, 1} : \A p \in 1 .. Len(new) :
    IF p <= l THEN new[p] = h[p]
              ELSE p + d \in 1 .. Len(h) /\ new[p] = h[p + d]

(* A recovery from a checkpoint old of a history h rebuilds h, or h        *)
(* without one entry, and the log lines up with the result past old.       *)
LEMMA Recovered ==
  ASSUME NEW h \in Seq(Entry), NEW old \in Seq(Entry), NEW log \in Seq(LogEntry),
         NEW s \in Int, NEW m \in Nat, NEW entries \in EntriesSince(log, Len(old)),
         NEW new, new = old \o Replayed(entries),
         Extends(h, old), m <= Len(old), Lags(h, m), Aligned(h, log, s, m),
         s + Len(log) \in {Len(h), Len(h) - 1}
  PROVE  /\ new \in Seq(Entry) /\ Len(old) <= Len(new)
         /\ Rebuilds(new, h, Len(old))
         /\ Lags(new, Len(old))
         /\ Aligned(new, log, Len(new) - Len(log), Len(old))
<1> DEFINE L == Len(old)  w == Len(log)  n == Len(h)
           d == IF L + 1 <= n /\ h[L + 1].seq = L THEN 1 ELSE 0
           lo == IF L + 1 + d <= s + w THEN L + 1 + d - s ELSE w + 1
<1>1. /\ L \in Nat /\ w \in Nat /\ n \in Nat /\ L <= n /\ m <= L /\ s + w \in {n, n - 1}
      /\ d \in {0, 1} /\ lo \in Int
      /\ (L + 1 <= n /\ h[L + 1].seq = L <=> d = 1)
      /\ (L + 1 + d <= s + w => lo = L + 1 + d - s)
      /\ (~(L + 1 + d <= s + w) => lo = w + 1)
  BY DEF Extends
<1>2. /\ \A p \in 1 .. n : h[p] \in Entry /\ h[p].seq \in Nat
      /\ \A i \in 1 .. w : log[i] \in LogEntry /\ log[i].seq \in Nat
      /\ DOMAIN log = 1 .. w
  <2>1. ASSUME NEW p \in 1 .. n PROVE h[p] \in Entry /\ h[p].seq \in Nat
    <3>1. h[p] \in Entry
      OBVIOUS
    <3> QED BY <3>1 DEF Entry
  <2>2. ASSUME NEW i \in 1 .. w PROVE log[i] \in LogEntry /\ log[i].seq \in Nat
    <3>1. log[i] \in LogEntry
      OBVIOUS
    <3> QED BY <3>1 DEF LogEntry
  <2> QED BY <2>1, <2>2
<1>3. /\ \A p \in L + 1 .. n : h[p].seq \in {p - 1, p}
      /\ \A p, q \in L + 1 .. n : p < q /\ h[p].seq = p - 1 => h[q].seq = q - 1
  BY <1>1 DEF Lags
<1>4. /\ \A i \in 1 .. w : log[i].seq > L => s + i \in m + 1 .. n /\ Same(log[i], h[s + i])
      /\ \A p \in L + 1 .. n : h[p].seq > L /\ p <= s + w =>
           p > s /\ Same(log[p - s], h[p])
  <2>1. ASSUME NEW i \in 1 .. w, log[i].seq > L
        PROVE  s + i \in m + 1 .. n /\ Same(log[i], h[s + i])
    <3>1. log[i].seq > m
      BY <1>1, <1>2, <2>1
    <3> QED BY <3>1 DEF Aligned
  <2>2. ASSUME NEW p \in L + 1 .. n, h[p].seq > L, p <= s + w
        PROVE  p > s /\ Same(log[p - s], h[p])
    <3>1. p \in m + 1 .. n /\ h[p].seq > m
      BY <1>1, <1>2, <2>2
    <3> QED BY <2>2, <3>1 DEF Aligned
  <2> QED BY <2>1, <2>2
<1> HIDE DEF L, w, n, d, lo
<1>5. ASSUME NEW p \in L + 1 .. n PROVE h[p].seq > L <=> p >= L + 1 + d
  <2>1. h[p].seq \in {p - 1, p}
    BY <1>3
  <2>2. CASE p = L + 1
    BY <1>1, <2>1, <2>2
  <2>3. CASE p > L + 1
    BY <1>1, <2>1, <2>3
  <2> QED BY <1>1, <2>2, <2>3
<1>6. ASSUME NEW i \in 1 .. w, log[i].seq > L PROVE s + i \in L + 1 + d .. n
  <2>1. s + i \in m + 1 .. n /\ h[s + i].seq > L
    BY <1>4, <1>6 DEF Same
  <2>2. h[s + i].seq \in {s + i - 1, s + i}
    BY <2>1 DEF Lags, n
  <2>3. s + i \in L + 1 .. n
    BY <1>1, <2>1, <2>2
  <2> QED BY <1>1, <1>5, <2>1, <2>3
<1>7. ASSUME NEW i \in 1 .. w, i >= lo
      PROVE  log[i].seq > L /\ s + i \in L + 1 + d .. n /\ Same(log[i], h[s + i])
  <2>1. lo = L + 1 + d - s
    BY <1>1, <1>7
  <2>2. s + i \in L + 1 .. n /\ s + i >= L + 1 + d /\ s + i <= s + w
    BY <1>1, <1>7, <2>1
  <2>3. h[s + i].seq > L
    BY <1>5, <2>2
  <2>4. Same(log[(s + i) - s], h[s + i])
    BY <1>4, <2>2, <2>3
  <2>5. (s + i) - s = i
    BY <1>1
  <2>6. Same(log[i], h[s + i])
    BY <2>4, <2>5
  <2>7. log[i].seq > L
    BY <2>3, <2>6 DEF Same
  <2> QED BY <1>1, <2>2, <2>6, <2>7
<1>8. /\ lo >= 1 /\ lo <= w + 1
      /\ \A i \in DOMAIN log : log[i].seq > L <=> i >= lo
  <2>1. lo >= 1 /\ lo <= w + 1
    <3>1. CASE L + 1 + d <= s + w
      <4>1. L + 1 + d \in L + 1 .. n
        BY <1>1, <3>1
      <4>2. L + 1 + d > s
        BY <1>1, <1>4, <1>5, <3>1, <4>1
      <4> QED BY <1>1, <3>1, <4>2
    <3>2. CASE ~(L + 1 + d <= s + w)
      BY <1>1, <3>2
    <3> QED BY <3>1, <3>2
  <2>2. ASSUME NEW i \in 1 .. w, log[i].seq > L PROVE i >= lo
    <3>1. s + i \in L + 1 + d .. n
      BY <1>6, <2>2
    <3> QED BY <1>1, <3>1
  <2> QED BY <1>2, <1>7, <2>1, <2>2
<1>9. /\ Len(entries) = w - lo + 1
      /\ \A k \in 1 .. w - lo + 1 : lo + k - 1 \in DOMAIN log /\ entries[k] = log[lo + k - 1]
  BY <1>1, <1>8, AnswerFrom DEF L, w
<1> DEFINE tail == Replayed(entries)
<1>10. /\ tail \in Seq(Entry) /\ Len(tail) = w - lo + 1
       /\ \A k \in 1 .. w - lo + 1 : L + d + k \in 1 .. n /\ tail[k] = h[L + d + k]
  <2>1. entries \in Seq(LogEntry) /\ DOMAIN entries = 1 .. w - lo + 1
    <3>1. entries \in Seq(LogEntry)
      BY EntriesSinceType
    <3> QED BY <1>9, <3>1
  <2>2. ASSUME NEW k \in 1 .. w - lo + 1
        PROVE  L + d + k \in 1 .. n /\ tail[k] = h[L + d + k] /\ tail[k] \in Entry
    <3>1. k >= 1 /\ lo = L + 1 + d - s /\ lo + k - 1 \in 1 .. w /\ lo + k - 1 >= lo
      <4>1. k \in Int /\ k >= 1 /\ k <= w - lo + 1 /\ lo \in Int /\ w \in Nat
        BY <1>1
      <4>2. lo # w + 1
        BY <4>1
      <4>3. lo = L + 1 + d - s
        BY <1>1, <4>2
      <4>4. lo >= 1
        BY <1>8
      <4> QED BY <4>1, <4>3, <4>4
    <3>2. s + (lo + k - 1) \in L + 1 + d .. n /\ Same(log[lo + k - 1], h[s + (lo + k - 1)])
      BY <1>7, <3>1
    <3>3. s + (lo + k - 1) = L + d + k
      BY <1>1, <3>1
    <3>4. L + d + k \in 1 .. n
      BY <1>1, <3>2, <3>3
    <3>5. tail[k] = [seq |-> log[lo + k - 1].seq, cmd |-> log[lo + k - 1].cmd]
      BY <1>9, <2>1 DEF Replayed
    <3>6. tail[k] = [seq |-> h[L + d + k].seq, cmd |-> h[L + d + k].cmd]
      BY <3>2, <3>3, <3>5 DEF Same
    <3>7. h[L + d + k] \in Entry
      BY <1>2, <3>4
    <3> QED BY <3>4, <3>6, <3>7 DEF Entry
  <2>3. DOMAIN tail = 1 .. w - lo + 1
    BY <2>1 DEF Replayed
  <2>4. tail = [k \in 1 .. w - lo + 1 |-> tail[k]]
    BY <2>1 DEF Replayed
  <2> HIDE DEF tail
  <2>5. tail \in [1 .. w - lo + 1 -> Entry]
    BY <2>2, <2>4
  <2>6. w - lo + 1 \in Nat
    <3>1. w \in Nat /\ lo \in Int /\ lo <= w + 1
      BY <1>1, <1>8
    <3> QED BY <3>1
  <2> QED BY <2>2, <2>5, <2>6, FunctionIsSeq
<1> HIDE DEF tail
<1>11. /\ new \in Seq(Entry) /\ Len(new) = L + (w - lo + 1) /\ Len(new) \in Nat /\ L <= Len(new)
       /\ \A p \in 1 .. L : new[p] = h[p]
       /\ \A p \in L + 1 .. Len(new) : p + d \in L + 1 .. n /\ new[p] = h[p + d]
  <2>1. /\ new = old \o tail /\ new \in Seq(Entry) /\ Len(new) = L + (w - lo + 1)
        /\ Len(new) \in Nat /\ L <= Len(new)
    <3>1. new = old \o tail
      BY DEF tail
    <3>2. Len(tail) \in Nat /\ Len(tail) = w - lo + 1 /\ tail \in Seq(Entry)
      BY <1>10
    <3>3. new \in Seq(Entry) /\ Len(new) = Len(old) + Len(tail)
      BY <3>1, <3>2, ConcatProperties
    <3> QED BY <1>1, <3>1, <3>2, <3>3 DEF L
  <2>2. ASSUME NEW p \in 1 .. L PROVE new[p] = h[p]
    BY <1>10, <2>1 DEF L, Extends
  <2>3. ASSUME NEW p \in L + 1 .. Len(new) PROVE p + d \in L + 1 .. n /\ new[p] = h[p + d]
    <3>1. p - L \in 1 .. w - lo + 1 /\ L + d + (p - L) = p + d /\ p \in Int
      BY <1>1, <2>1
    <3>2. new[p] = tail[p - L]
      BY <1>10, <2>1, <3>1 DEF L
    <3>3. p + d \in 1 .. n /\ tail[p - L] = h[p + d]
      BY <1>10, <3>1
    <3>4. p > L /\ p \in Int
      BY <1>1
    <3>5. p + d \in L + 1 .. n
      BY <1>1, <3>3, <3>4
    <3>6. new[p] = h[p + d]
      BY <3>2, <3>3, Zenon
    <3> QED BY <3>5, <3>6
  <2> QED BY <2>1, <2>2, <2>3
<1>12. Lags(new, L)
  <2>1. ASSUME NEW p \in L + 1 .. Len(new)
        PROVE  new[p].seq \in {p - 1, p} /\ (d = 1 => new[p].seq = p)
    <3>1. p + d \in L + 1 .. n /\ new[p] = h[p + d] /\ p \in Int /\ p > L
      <4>1. p + d \in L + 1 .. n /\ new[p] = h[p + d]
        BY <1>11
      <4> QED BY <1>1, <4>1
    <3>2. h[p + d].seq \in {(p + d) - 1, p + d}
      BY <1>3, <3>1
    <3>3. CASE d = 0
      BY <3>1, <3>2, <3>3
    <3>4. CASE d = 1
      <4>1. L + 1 \in L + 1 .. n /\ L + 1 < p + 1 /\ h[L + 1].seq = (L + 1) - 1
        BY <1>1, <3>1, <3>4
      <4>2. h[p + 1].seq = (p + 1) - 1
        BY <1>3, <3>1, <3>4, <4>1
      <4> QED BY <3>1, <3>4, <4>2
    <3> QED BY <1>1, <3>3, <3>4
  <2>2. ASSUME NEW p \in L + 1 .. Len(new), NEW q \in L + 1 .. Len(new),
               p < q, new[p].seq = p - 1
        PROVE  new[q].seq = q - 1
    <3>1. d = 0
      BY <1>1, <2>1, <2>2
    <3>2. /\ p \in L + 1 .. n /\ q \in L + 1 .. n /\ new[p] = h[p] /\ new[q] = h[q]
      <4>1. p + 0 = p /\ q + 0 = q
        BY <1>1
      <4> QED BY <1>11, <3>1, <4>1
    <3> QED BY <1>3, <2>2, <3>2
  <2> QED BY <2>1, <2>2 DEF Lags
<1>13. Aligned(new, log, Len(new) - w, L)
  <2> DEFINE t == Len(new) - w
  <2>1. ASSUME NEW i \in 1 .. w, log[i].seq > L
        PROVE  t + i \in L + 1 .. Len(new) /\ Same(log[i], new[t + i])
    <3>1. i >= lo
      BY <1>2, <1>8, <2>1
    <3>2. s + i \in L + 1 + d .. n /\ Same(log[i], h[s + i]) /\ lo = L + 1 + d - s
      BY <1>1, <1>7, <3>1
    <3>3. t = s - d /\ t + i \in L + 1 .. Len(new) /\ (t + i) + d = s + i
      BY <1>1, <1>11, <3>1, <3>2
    <3>4. new[t + i] = h[(t + i) + d]
      <4> HIDE DEF t
      <4> QED BY <1>11, <3>3
    <3> QED BY <3>2, <3>3, <3>4
  <2>2. ASSUME NEW p \in L + 1 .. Len(new)
        PROVE  p > t /\ Same(log[p - t], new[p])
    <3>1. p + d \in L + 1 .. n /\ new[p] = h[p + d] /\ p \in Int /\ p > L
      <4>1. p + d \in L + 1 .. n /\ new[p] = h[p + d]
        BY <1>11
      <4> QED BY <1>1, <4>1
    <3>2. lo <= w /\ lo = L + 1 + d - s /\ t = s - d
      BY <1>1, <1>8, <1>11, <3>1
    <3>3. p - t \in 1 .. w /\ p - t >= lo /\ s + (p - t) = p + d
      BY <1>1, <1>8, <1>11, <3>1, <3>2
    <3>4. Same(log[p - t], h[s + (p - t)])
      <4> HIDE DEF t
      <4> QED BY <1>7, <3>3
    <3>5. p > t
      BY <1>1, <3>1, <3>3
    <3> QED BY <3>1, <3>3, <3>4, <3>5
  <2> QED BY <2>1, <2>2 DEF Aligned, w
<1>14. \E e \in {0, 1} : \A p \in 1 .. Len(new) :
         IF p <= L THEN new[p] = h[p] ELSE p + e \in 1 .. n /\ new[p] = h[p + e]
  <2>1. ASSUME NEW p \in 1 .. Len(new)
        PROVE  IF p <= L THEN new[p] = h[p] ELSE p + d \in 1 .. n /\ new[p] = h[p + d]
    <3>1. CASE p <= L
      BY <1>11, <3>1
    <3>2. CASE ~(p <= L)
      <4>1. p \in L + 1 .. Len(new)
        BY <1>1, <1>11, <3>2
      <4>2. p + d \in L + 1 .. n /\ new[p] = h[p + d]
        BY <1>11, <4>1
      <4> QED BY <1>1, <3>2, <4>2
    <3> QED BY <3>1, <3>2
  <2> QED BY <1>1, <2>1
<1> QED BY <1>11, <1>12, <1>13, <1>14 DEF Rebuilds, L, w, n

-----------------------------------------------------------------------------
(* The invariant of recovery.                                              *)

(* What recovery supposes: one client, which does not check out, nothing   *)
(* that rejects, and a log the replay limit never cuts.                    *)
Careful ==
  /\ OneClient
  /\ "checkout" \notin Methods
  /\ ~StorageFails
  /\ MaxReplayOps = 0 \/ MaxCalls <= MaxReplayOps

Logging == \E a \in Actor : call[a].pc = "append"

(* The log is the history shifted by s, up to the entry being logged, which*)
(* an eviction may have left unlogged.                                     *)
Shift(s) ==
  /\ s + Len(wal) \in {Len(history), Len(history) - 1}
  /\ up => s + Len(wal) = IF Logging THEN Len(history) - 1 ELSE Len(history)

(* No checkpoint is, or is about to be, HEAD that is shorter than m.       *)
NoHeadBelow(m) ==
  /\ m <= Saved
  /\ \A a \in Actor :
       /\ call[a].pc = "put" => m <= Len(call[a].ckpt.hist)
       /\ call[a].pc = "stored" => m <= Len(ckpts[call[a].id].hist)

LogAligned ==
  \E s \in Int, m \in Nat :
    Shift(s) /\ NoHeadBelow(m) /\ Lags(history, m) /\ Aligned(history, wal, s, m)

(* A command has the same number in the log and in the history.            *)
SameNumbers ==
  \A i \in DOMAIN wal, p \in DOMAIN history :
    wal[i].cmd = history[p].cmd => wal[i].seq = history[p].seq

(* Where the command of an exec r is, with the history h, the log and the  *)
(* number n of calls made.                                                 *)
Runs(r, h, log, n) ==
  r.method = "exec" =>
    /\ r.cmd <= n
    /\ r.pc \in {"running", "ran"} =>
         r.seq = Len(h) /\ r.cmd \notin Commands(h) /\ r.cmd \notin Commands(log)
    /\ r.pc = "append" =>
         /\ Len(h) # 0 /\ Same(r, h[Len(h)]) /\ r.seq = Len(h) - 1
         /\ r.cmd \notin Commands(log)
    /\ r.pc \notin {"running", "ran", "append"} => r.cmd \in Commands(log)

RecoveryInv ==
  /\ LogAligned
  /\ SameNumbers
  /\ NoCommandTwice
  /\ \A k \in Commands(history) \cup Commands(wal) : k <= calls
  /\ acked \subseteq Commands(wal)
  /\ \A a \in Actor : Runs(call[a], history, wal, calls)

(* What the other invariants contribute.                                   *)
Sound == WellFormed /\ PrefixInv /\ CheckoutInv

LEMMA SoundFacts ==
  ASSUME Sound
  PROVE  /\ history \in Seq(Entry) /\ Len(history) \in Nat
         /\ DOMAIN history = 1 .. Len(history)
         /\ wal \in Seq(LogEntry) /\ Len(wal) \in Nat /\ DOMAIN wal = 1 .. Len(wal)
         /\ ckpts \in Seq(Checkpoint) /\ Len(ckpts) \in Nat
         /\ Saved \in Nat /\ Saved <= Len(history)
         /\ calls \in Nat
         /\ \A p \in 1 .. Len(history) :
              history[p] \in Entry /\ history[p].seq \in Nat /\ history[p].cmd \in Command
         /\ \A i \in 1 .. Len(wal) :
              wal[i] \in LogEntry /\ wal[i].seq \in Nat /\ wal[i].cmd \in Command
         /\ \A a \in Actor :
              call[a] \in Call /\ CallOK(call[a], Len(ckpts)) /\ call[a].cmd \in Nat
<1>1. /\ history \in Seq(Entry) /\ wal \in Seq(LogEntry) /\ ckpts \in Seq(Checkpoint)
      /\ calls \in Nat
  BY SessionAssumption DEF Sound, WellFormed, DurableOK, MemoryOK, CountersOK
<1>2. Len(Hist) = Len(history) /\ Saved \in 0 .. Len(Hist)
  BY AbstractFacts DEF Sound
<1>3. ASSUME NEW p \in 1 .. Len(history)
      PROVE  history[p] \in Entry /\ history[p].seq \in Nat /\ history[p].cmd \in Command
  <2>1. history[p] \in Entry
    BY <1>1
  <2> QED BY <2>1 DEF Entry
<1>4. ASSUME NEW i \in 1 .. Len(wal)
      PROVE  wal[i] \in LogEntry /\ wal[i].seq \in Nat /\ wal[i].cmd \in Command
  <2>1. wal[i] \in LogEntry
    BY <1>1
  <2> QED BY <2>1 DEF LogEntry
<1>5. ASSUME NEW a \in Actor
      PROVE  call[a] \in Call /\ CallOK(call[a], Len(ckpts)) /\ call[a].cmd \in Nat
  <2>1. call[a] \in Call /\ CallOK(call[a], Len(ckpts))
    BY Facts DEF Sound
  <2>2. call[a].cmd \in Command \cup {0}
    BY <2>1 DEF Call
  <2> QED BY <2>1, <2>2 DEF Command
<1> QED BY <1>1, <1>2, <1>3, <1>4, <1>5

(* Another actor than the only client is the idle timer and runs no exec.  *)
LEMMA OthersRunNothing ==
  ASSUME Sound, OneClient, NEW c \in Client, NEW b \in Actor, b # c
  PROVE  call[b].method # "exec" /\ call[b].pc # "append"
<1>1. b = IdleTimer
  BY DEF Actor, OneClient
<1>2. call[b].method \in {"none", "idle"}
  BY <1>1 DEF Sound, CheckoutInv, TimerOnlyIdle
<1>3. CallOK(call[b], Len(ckpts))
  BY SoundFacts
<1> QED BY <1>2, <1>3 DEF CallOK

LEMMA NoCallRuns == \A h, log, n : Runs(NoCall, h, log, n)
BY DEF Runs, NoCall

-----------------------------------------------------------------------------
(* Steps that leave the history and the commands of the log alone.         *)

LEMMA QuietRecovery ==
  ASSUME Sound, RecoveryInv, NEW a \in Actor, NEW r,
         call' = [call EXCEPT ![a] = r], up, UNCHANGED <<history, up>>,
         calls' \in Nat, calls <= calls',
         Len(wal') = Len(wal), DOMAIN wal' = DOMAIN wal,
         \A i \in DOMAIN wal : Same(wal'[i], wal[i]),
         Commands(wal') = Commands(wal),
         acked' \subseteq Commands(wal),
         call[a].pc # "append", r.pc # "append",
         Runs(r, history, wal, calls'),
         \A m \in Nat : NoHeadBelow(m) => NoHeadBelow(m)'
  PROVE  RecoveryInv'
<1>1. ASSUME NEW b \in Actor PROVE call'[b] = IF b = a THEN r ELSE call[b]
  BY DEF Sound, WellFormed, CallsOK
<1>2. Logging' <=> Logging
  BY <1>1 DEF Logging
<1>3. LogAligned'
  <2>1. PICK s \in Int, m \in Nat :
          Shift(s) /\ NoHeadBelow(m) /\ Lags(history, m) /\ Aligned(history, wal, s, m)
    BY DEF RecoveryInv, LogAligned
  <2>2. Shift(s)'
    BY <1>2, <2>1 DEF Shift
  <2>3. Aligned(history, wal', s, m)
    <3>1. ASSUME NEW i \in 1 .. Len(wal), wal'[i].seq > m
          PROVE  s + i \in m + 1 .. Len(history) /\ Same(wal'[i], history[s + i])
      <4>1. Same(wal'[i], wal[i])
        BY SoundFacts
      <4> QED BY <2>1, <3>1, <4>1 DEF Aligned, Same
    <3>2. ASSUME NEW p \in m + 1 .. Len(history), history[p].seq > m, p <= s + Len(wal)
          PROVE  p > s /\ Same(wal'[p - s], history[p])
      <4>1. p > s /\ Same(wal[p - s], history[p])
        BY <2>1, <3>2 DEF Aligned
      <4>2. p - s \in DOMAIN wal
        BY <3>2, <4>1, SoundFacts
      <4> QED BY <4>1, <4>2 DEF Same
    <3> QED BY <3>1, <3>2 DEF Aligned
  <2>4. NoHeadBelow(m)' /\ Lags(history', m) /\ Aligned(history', wal', s, m)
    BY <2>1, <2>3
  <2> QED BY <2>2, <2>4 DEF LogAligned
<1>4. SameNumbers'
  BY DEF RecoveryInv, SameNumbers, Same
<1>5. NoCommandTwice'
  BY DEF RecoveryInv, NoCommandTwice
<1>6. \A k \in Commands(history') \cup Commands(wal') : k <= calls'
  <2>1. ASSUME NEW k \in Commands(history) \cup Commands(wal) PROVE k \in Nat
    BY SoundFacts DEF Commands, Command
  <2>2. ASSUME NEW k \in Commands(history) \cup Commands(wal) PROVE k <= calls'
    <3>1. k <= calls /\ k \in Nat
      BY <2>1 DEF RecoveryInv
    <3> QED BY <3>1, SoundFacts
  <2> QED BY <2>2
<1>7. ASSUME NEW b \in Actor PROVE Runs(call'[b], history', wal', calls')
  <2>1. CASE b = a
    BY <1>1, <2>1 DEF Runs
  <2>2. CASE b # a
    <3>1. call'[b] = call[b] /\ Runs(call[b], history, wal, calls) /\ call[b].cmd \in Nat
      BY <1>1, <2>2, SoundFacts DEF RecoveryInv
    <3>2. call[b].cmd <= calls => call[b].cmd <= calls'
      BY <3>1, SoundFacts
    <3> QED BY <3>1, <3>2 DEF Runs
  <2> QED BY <2>1, <2>2
<1> QED BY <1>3, <1>4, <1>5, <1>6, <1>7 DEF RecoveryInv

(* HEAD is not moved, and what the actor carries towards it is either the  *)
(* history or what it carried before.                                      *)
LEMMA HeadStays ==
  ASSUME Sound, NEW a \in Actor, NEW r, call' = [call EXCEPT ![a] = r],
         UNCHANGED <<head, history>>,
         ckpts' = ckpts \/ \E ckpt : ckpts' = Append(ckpts, ckpt),
         r.pc = "put" => r.ckpt.hist = history,
         r.pc = "stored" => call[a].pc = "put" /\ ckpts'[r.id] = call[a].ckpt
  PROVE  \A m \in Nat : NoHeadBelow(m) => NoHeadBelow(m)'
<1> SUFFICES ASSUME NEW m \in Nat, NoHeadBelow(m) PROVE NoHeadBelow(m)'
  OBVIOUS
<1>1. \A i \in 1 .. Len(ckpts) : ckpts'[i] = ckpts[i]
  BY SoundFacts
<1>2. Saved' = Saved
  <2>1. head \in 0 .. Len(ckpts)
    BY DEF Sound, WellFormed, RefsResolve
  <2>2. CASE head = 0
    BY <2>2 DEF Saved
  <2>3. CASE head # 0
    <3>1. head \in 1 .. Len(ckpts)
      BY <2>1, <2>3, SoundFacts
    <3> QED BY <1>1, <3>1 DEF Saved
  <2> QED BY <2>2, <2>3
<1>3. ASSUME NEW b \in Actor
      PROVE  /\ call'[b].pc = "put" => m <= Len(call'[b].ckpt.hist)
             /\ call'[b].pc = "stored" => m <= Len(ckpts'[call'[b].id].hist)
  <2>1. call'[b] = IF b = a THEN r ELSE call[b]
    BY DEF Sound, WellFormed, CallsOK
  <2>2. CASE b = a
    BY <2>1, <2>2, SoundFacts DEF NoHeadBelow
  <2>3. CASE b # a
    <3>1. call[b].pc = "stored" => call[b].id \in 1 .. Len(ckpts)
      <4>1. call[b].id \in 0 .. Len(ckpts)
        BY SoundFacts DEF CallOK
      <4>2. call[b].pc = "stored" => call[b].id # 0
        BY DEF Sound, PrefixInv, CarriesPrefix
      <4> QED BY <4>1, <4>2, SoundFacts
    <3> QED BY <1>1, <2>1, <2>3, <3>1 DEF NoHeadBelow
  <2> QED BY <2>2, <2>3
<1> QED BY <1>2, <1>3 DEF NoHeadBelow

(* The usual case: the log and the acknowledged commands stay as well.     *)
LEMMA StillRecovery ==
  ASSUME Sound, RecoveryInv, NEW a \in Actor, NEW r,
         call' = [call EXCEPT ![a] = r], up, UNCHANGED <<head, history, up, wal>>,
         ckpts' = ckpts \/ \E ckpt : ckpts' = Append(ckpts, ckpt),
         calls' \in Nat, calls <= calls',
         acked' \subseteq Commands(wal),
         call[a].pc # "append", r.pc # "append",
         Runs(r, history, wal, calls'),
         r.pc = "put" => r.ckpt.hist = history,
         r.pc = "stored" => call[a].pc = "put" /\ ckpts'[r.id] = call[a].ckpt
  PROVE  RecoveryInv'
<1>1. \A m \in Nat : NoHeadBelow(m) => NoHeadBelow(m)'
  BY HeadStays
<1>2. /\ Len(wal') = Len(wal) /\ DOMAIN wal' = DOMAIN wal /\ Commands(wal') = Commands(wal)
      /\ \A i \in DOMAIN wal : Same(wal'[i], wal[i])
  BY DEF Same
<1> QED BY <1>1, <1>2, QuietRecovery

LEMMA NewCallRecovery ==
  ASSUME Sound, RecoveryInv, Careful, NEW c \in Client, NewCall(c)
  PROVE  RecoveryInv'
<1>0. c \in Actor /\ calls \in Nat /\ Len(history) \in Nat
  BY SoundFacts DEF Actor
<1>1. ASSUME NEW record, NEW method, Begin(c, method, record),
             UNCHANGED <<durable, up, memory, acked>>,
             record.pc \in {"running", "hash", "fork"}, DOMAIN record = DOMAIN NoCall,
             method = "exec" =>
               record.pc = "running" /\ record.cmd = calls + 1 /\ record.seq = Len(history)
      PROVE  RecoveryInv'
  <2> DEFINE r == [record EXCEPT !.method = method]
  <2>1. /\ r.pc = record.pc /\ r.method = method /\ r.cmd = record.cmd /\ r.seq = record.seq
    BY <1>1 DEF NoCall
  <2>2. /\ call' = [call EXCEPT ![c] = r] /\ up /\ UNCHANGED <<head, history, up, wal>>
        /\ ckpts' = ckpts /\ calls' = calls + 1 /\ acked' = acked /\ call[c].pc = "none"
    BY <1>1 DEF Begin, durable, memory, NoCall
  <2> HIDE DEF r
  <2>3. Runs(r, history, wal, calls')
    <3>1. calls + 1 \notin Commands(history) /\ calls + 1 \notin Commands(wal)
      <4>1. ASSUME calls + 1 \in Commands(history) \cup Commands(wal) PROVE FALSE
        <5>1. calls + 1 <= calls
          BY <4>1 DEF RecoveryInv
        <5> QED BY <1>0, <5>1
      <4> QED BY <4>1
    <3> QED BY <1>0, <1>1, <2>1, <2>2, <3>1 DEF Runs
  <2>4. calls' \in Nat /\ calls <= calls' /\ acked' \subseteq Commands(wal)
    BY <1>0, <2>2 DEF RecoveryInv
  <2>5. r.pc \notin {"append", "put", "stored"} /\ call[c].pc # "append"
    BY <1>1, <2>1, <2>2
  <2> QED BY <1>0, <2>2, <2>3, <2>4, <2>5, StillRecovery
<1>2. CASE Exec(c)
  BY <1>1, <1>2 DEF Exec, NoCall
<1>3. CASE ManualCheckpoint(c)
  BY <1>1, <1>3 DEF ManualCheckpoint, NoCall
<1>4. CASE CallBranch(c)
  BY <1>1, <1>4 DEF CallBranch, NoCall
<1>5. CASE CallCheckout(c)
  BY <1>5 DEF CallCheckout, Begin, Careful
<1>6. CASE CallFork(c)
  BY <1>1, <1>6 DEF CallFork, NoCall
<1> QED BY <1>2, <1>3, <1>4, <1>5, <1>6 DEF NewCall

-----------------------------------------------------------------------------
(* The two steps of exec that extend the history and the log.              *)

LEMMA PushRecovery ==
  ASSUME Sound, RecoveryInv, Careful, NEW c \in Actor, PushHistory(c)
  PROVE  RecoveryInv'
<1> DEFINE e == [seq |-> call[c].seq, cmd |-> call[c].cmd]
           r == [call[c] EXCEPT !.pc = "append"]
           n == Len(history)
<1>1. /\ history' = Append(history, e) /\ up /\ call[c].pc = "ran"
      /\ UNCHANGED <<ckpts, head, wal, up, calls, acked>>
      /\ call' = [call EXCEPT ![c] = r] /\ call[c] \in Call /\ c \in DOMAIN call
  BY SoundFacts DEF PushHistory, At, Goto, durable, Sound, WellFormed, CallsOK
<1>2. call[c].method = "exec" /\ c \in Client /\ c # IdleTimer
  <2>1. CallOK(call[c], Len(ckpts))
    BY SoundFacts
  <2>2. call[c].method = "exec"
    BY <1>1, <2>1 DEF CallOK
  <2>3. c # IdleTimer
    BY <2>2 DEF Sound, CheckoutInv, TimerOnlyIdle
  <2> QED BY <2>2, <2>3 DEF Actor
<1>3. /\ e.seq = n /\ e.cmd = call[c].cmd /\ e.cmd <= calls
      /\ e.cmd \notin Commands(history) /\ e.cmd \notin Commands(wal)
  BY <1>1, <1>2 DEF RecoveryInv, Runs
<1>4. e \in Entry
  <2>1. CallOK(call[c], Len(ckpts))
    BY SoundFacts
  <2> QED BY <1>1, <1>2, <2>1 DEF CallOK, Call, Entry
<1>5. /\ r.pc = "append" /\ r.method = "exec" /\ r.cmd = e.cmd /\ r.seq = e.seq
      /\ call'[c] = r
      /\ \A b \in Actor : b # c => call'[b] = call[b] /\ call[b].method # "exec"
                                   /\ call[b].pc # "append"
  <2>1. r.pc = "append" /\ r.method = "exec" /\ r.cmd = e.cmd /\ r.seq = e.seq /\ call'[c] = r
    BY <1>1, <1>2 DEF Call
  <2>2. ASSUME NEW b \in Actor, b # c
        PROVE  call'[b] = call[b] /\ call[b].method # "exec" /\ call[b].pc # "append"
    <3>1. call'[b] = call[b]
      BY <1>1, <2>2 DEF Sound, WellFormed, CallsOK
    <3> QED BY <1>2, <2>2, <3>1, OthersRunNothing DEF Careful
  <2> QED BY <2>1, <2>2
<1> HIDE DEF e, r
<1>6. /\ history \in Seq(Entry) /\ n \in Nat /\ DOMAIN history = 1 .. n
      /\ history' \in Seq(Entry) /\ Len(history') = n + 1 /\ DOMAIN history' = 1 .. n + 1
      /\ history'[n + 1] = e /\ \A p \in 1 .. n : history'[p] = history[p]
  BY <1>1, <1>4, SoundFacts
<1>7. Commands(history') = Commands(history) \cup {e.cmd}
  BY <1>1, <1>4, <1>6, CommandsAppend
<1>8. ASSUME NEW p \in 1 .. n + 1 PROVE (p \in 1 .. n /\ p < n + 1) \/ p = n + 1
  BY <1>6
<1> HIDE DEF n
<1>9. LogAligned'
  <2>1. PICK s \in Int, m \in Nat :
          Shift(s) /\ NoHeadBelow(m) /\ Lags(history, m) /\ Aligned(history, wal, s, m)
    BY DEF RecoveryInv, LogAligned
  <2>2. s + Len(wal) = n /\ ~Logging /\ Logging'
    <3>1. ~Logging
      BY <1>1, <1>5 DEF Logging
    <3>2. Logging'
      BY <1>5 DEF Logging
    <3> QED BY <1>1, <2>1, <3>1, <3>2 DEF Shift, n
  <2>3. Shift(s)'
    <3>1. s + Len(wal) = (n + 1) - 1
      BY <1>6, <2>2
    <3> QED BY <1>1, <1>6, <2>2, <3>1 DEF Shift
  <2>4. NoHeadBelow(m)'
    <3>1. Saved' = Saved
      BY <1>1 DEF Saved
    <3> QED BY <1>1, <1>5, <2>1, <3>1 DEF NoHeadBelow
  <2>5. Lags(history', m)
    <3>1. ASSUME NEW p \in m + 1 .. n + 1
          PROVE  /\ history'[p].seq \in {p - 1, p}
                 /\ p # n + 1 => p \in m + 1 .. n /\ history'[p] = history[p]
                 /\ p = n + 1 => history'[p].seq = p - 1
      <4>1. p \in 1 .. n + 1
        BY <1>6
      <4>2. CASE p = n + 1
        BY <1>3, <1>6, <4>2
      <4>3. CASE p # n + 1
        <5>1. p \in 1 .. n /\ p \in m + 1 .. n
          BY <1>6, <4>1, <4>3
        <5>2. history[p].seq \in {p - 1, p}
          BY <2>1, <5>1 DEF Lags, n
        <5> QED BY <1>6, <4>3, <5>1, <5>2
      <4> QED BY <4>2, <4>3
    <3>2. ASSUME NEW p \in m + 1 .. n + 1, NEW q \in m + 1 .. n + 1,
                 p < q, history'[p].seq = p - 1
          PROVE  history'[q].seq = q - 1
      <4>1. CASE q = n + 1
        BY <3>1, <4>1
      <4>2. CASE q # n + 1
        <5>1. p # n + 1
          BY <1>6, <3>2, <4>2
        <5> QED BY <2>1, <3>1, <3>2, <4>2, <5>1 DEF Lags, n
      <4> QED BY <4>1, <4>2
    <3> QED BY <1>6, <3>1, <3>2 DEF Lags
  <2>6. Aligned(history', wal', s, m)
    <3>1. ASSUME NEW i \in 1 .. Len(wal), wal[i].seq > m
          PROVE  s + i \in m + 1 .. n + 1 /\ Same(wal[i], history'[s + i])
      <4>1. s + i \in m + 1 .. n /\ Same(wal[i], history[s + i])
        BY <2>1, <3>1 DEF Aligned, n
      <4>2. s + i \in 1 .. n /\ s + i \in m + 1 .. n + 1
        BY <1>6, <4>1
      <4> QED BY <1>6, <4>1, <4>2
    <3>2. ASSUME NEW p \in m + 1 .. n + 1, history'[p].seq > m, p <= s + Len(wal)
          PROVE  p > s /\ Same(wal[p - s], history'[p])
      <4>1. p \in m + 1 .. n /\ p \in 1 .. n
        BY <1>6, <2>2, <3>2
      <4>2. history'[p] = history[p]
        BY <1>6, <4>1
      <4> QED BY <2>1, <3>2, <4>1, <4>2 DEF Aligned, n
    <3> QED BY <1>1, <1>6, <3>1, <3>2 DEF Aligned
  <2> QED BY <2>3, <2>4, <2>5, <2>6 DEF LogAligned
<1>10. SameNumbers'
  <2>1. ASSUME NEW i \in DOMAIN wal, NEW p \in 1 .. n + 1, wal[i].cmd = history'[p].cmd
        PROVE  wal[i].seq = history'[p].seq
    <3>1. p # n + 1
      BY <1>3, <1>6, <2>1 DEF Commands
    <3>2. p \in 1 .. n
      BY <1>8, <3>1
    <3> QED BY <1>6, <2>1, <3>2 DEF RecoveryInv, SameNumbers
  <2> QED BY <1>1, <1>6, <2>1 DEF SameNumbers
<1>11. NoCommandTwice'
  <2>1. ASSUME NEW p \in 1 .. n + 1, NEW q \in 1 .. n + 1, history'[p].cmd = history'[q].cmd
        PROVE  p = q
    <3>1. CASE p \in 1 .. n /\ q \in 1 .. n
      BY <1>6, <2>1, <3>1 DEF RecoveryInv, NoCommandTwice
    <3>2. CASE p = n + 1 /\ q \in 1 .. n
      BY <1>3, <1>6, <2>1, <3>2 DEF Commands
    <3>3. CASE q = n + 1 /\ p \in 1 .. n
      BY <1>3, <1>6, <2>1, <3>3 DEF Commands
    <3> QED BY <1>8, <3>1, <3>2, <3>3
  <2> QED BY <1>6, <2>1 DEF NoCommandTwice
<1>12. \A k \in Commands(history') \cup Commands(wal') : k <= calls'
  BY <1>1, <1>3, <1>7 DEF RecoveryInv
<1>13. acked' \subseteq Commands(wal')
  BY <1>1 DEF RecoveryInv
<1>14. ASSUME NEW b \in Actor PROVE Runs(call'[b], history', wal', calls')
  <2>1. CASE b = c
    <3>1. Same(r, history'[n + 1]) /\ n + 1 # 0 /\ r.seq = (n + 1) - 1
      BY <1>3, <1>5, <1>6 DEF Same
    <3> QED BY <1>1, <1>3, <1>5, <1>6, <2>1, <3>1 DEF Runs
  <2>2. CASE b # c
    BY <1>5, <2>2 DEF Runs
  <2> QED BY <2>1, <2>2
<1> QED BY <1>9, <1>10, <1>11, <1>12, <1>13, <1>14 DEF RecoveryInv

LEMMA AppendRecovery ==
  ASSUME Sound, RecoveryInv, Careful, NEW c \in Actor, AppendWAL(c)
  PROVE  RecoveryInv'
<1> DEFINE e == [seq |-> call[c].seq, cmd |-> call[c].cmd, checkpointed |-> FALSE]
           r == [call[c] EXCEPT !.pc = "appended"]
           n == Len(history)
           w == Len(wal)
<1>1. /\ wal' = Append(wal, e) /\ up /\ call[c].pc = "append"
      /\ UNCHANGED <<ckpts, head, history, up, calls, acked>>
      /\ call' = [call EXCEPT ![c] = r] /\ call[c] \in Call /\ c \in DOMAIN call
  BY SoundFacts DEF AppendWAL, At, Goto, memory, Sound, WellFormed, CallsOK
<1>2. call[c].method = "exec" /\ c \in Client /\ c # IdleTimer
  <2>1. CallOK(call[c], Len(ckpts))
    BY SoundFacts
  <2>2. call[c].method = "exec"
    BY <1>1, <2>1 DEF CallOK
  <2>3. c # IdleTimer
    BY <2>2 DEF Sound, CheckoutInv, TimerOnlyIdle
  <2> QED BY <2>2, <2>3 DEF Actor
<1>3. /\ n # 0 /\ Same(e, history[n]) /\ e.seq = n - 1 /\ e.cmd <= calls
      /\ e.cmd = call[c].cmd /\ e.cmd \notin Commands(wal)
  BY <1>1, <1>2 DEF RecoveryInv, Runs, Same
<1>4. e \in LogEntry
  <2>1. CallOK(call[c], Len(ckpts))
    BY SoundFacts
  <2> QED BY <1>1, <1>2, <2>1 DEF CallOK, Call, LogEntry
<1>5. /\ r.pc = "appended" /\ r.method = "exec" /\ r.cmd = e.cmd
      /\ call'[c] = r
      /\ \A b \in Actor : b # c => call'[b] = call[b] /\ call[b].method # "exec"
                                   /\ call[b].pc # "append"
  <2>1. r.pc = "appended" /\ r.method = "exec" /\ r.cmd = e.cmd /\ call'[c] = r
    BY <1>1, <1>2 DEF Call
  <2>2. ASSUME NEW b \in Actor, b # c
        PROVE  call'[b] = call[b] /\ call[b].method # "exec" /\ call[b].pc # "append"
    <3>1. call'[b] = call[b]
      BY <1>1, <2>2 DEF Sound, WellFormed, CallsOK
    <3> QED BY <1>2, <2>2, <3>1, OthersRunNothing DEF Careful
  <2> QED BY <2>1, <2>2
<1> HIDE DEF e, r
<1>6. /\ n \in Nat /\ DOMAIN history = 1 .. n /\ n \in DOMAIN history
      /\ w \in Nat /\ DOMAIN wal = 1 .. w /\ wal \in Seq(LogEntry)
      /\ wal' \in Seq(LogEntry) /\ Len(wal') = w + 1 /\ DOMAIN wal' = 1 .. w + 1
      /\ wal'[w + 1] = e /\ \A i \in 1 .. w : wal'[i] = wal[i]
  BY <1>1, <1>3, <1>4, SoundFacts
<1>7. Commands(wal') = Commands(wal) \cup {e.cmd}
  BY <1>1, <1>4, <1>6, CommandsAppend
<1> HIDE DEF n, w
<1>8. ASSUME NEW i \in 1 .. w + 1 PROVE i \in 1 .. w \/ i = w + 1
  BY <1>6
<1>9. LogAligned'
  <2>1. PICK s \in Int, m \in Nat :
          Shift(s) /\ NoHeadBelow(m) /\ Lags(history, m) /\ Aligned(history, wal, s, m)
    BY DEF RecoveryInv, LogAligned
  <2>2. s + w = n - 1 /\ ~Logging'
    <3>1. Logging
      BY <1>1 DEF Logging
    <3>2. ~Logging'
      BY <1>5 DEF Logging
    <3> QED BY <1>1, <2>1, <3>1, <3>2 DEF Shift, n, w
  <2>3. Shift(s)'
    <3>1. s + (w + 1) = n
      BY <1>6, <2>2
    <3> QED BY <1>1, <1>6, <2>2, <3>1 DEF Shift, n
  <2>4. NoHeadBelow(m)'
    <3>1. Saved' = Saved
      BY <1>1 DEF Saved
    <3> QED BY <1>1, <1>5, <2>1, <3>1 DEF NoHeadBelow
  <2>5. Aligned(history', wal', s, m)
    <3>1. ASSUME NEW i \in 1 .. w + 1, wal'[i].seq > m
          PROVE  s + i \in m + 1 .. n /\ Same(wal'[i], history[s + i])
      <4>1. CASE i \in 1 .. w
        BY <1>6, <2>1, <3>1, <4>1 DEF Aligned, n, w
      <4>2. CASE i = w + 1
        <5>1. s + i = n /\ n - 1 > m
          BY <1>3, <1>6, <2>2, <3>1, <4>2
        <5>2. n \in m + 1 .. n
          BY <1>6, <5>1
        <5> QED BY <1>3, <1>6, <4>2, <5>1, <5>2
      <4> QED BY <1>8, <4>1, <4>2
    <3>2. ASSUME NEW p \in m + 1 .. n, history[p].seq > m, p <= s + (w + 1)
          PROVE  p > s /\ Same(wal'[p - s], history[p])
      <4>1. CASE p = n
        <5>1. n - s = w + 1 /\ n > s
          BY <1>6, <2>2
        <5> QED BY <1>3, <1>6, <4>1, <5>1
      <4>2. CASE p # n
        <5>1. p <= s + w
          BY <1>6, <2>2, <4>2
        <5>2. p > s /\ Same(wal[p - s], history[p])
          BY <2>1, <3>2, <5>1 DEF Aligned, n, w
        <5>3. p - s \in 1 .. w
          BY <1>6, <5>1, <5>2
        <5> QED BY <1>6, <5>2, <5>3
      <4> QED BY <4>1, <4>2
    <3> QED BY <1>1, <1>6, <3>1, <3>2 DEF Aligned, n
  <2> QED BY <1>1, <2>1, <2>3, <2>4, <2>5 DEF LogAligned
<1>10. SameNumbers'
  <2>1. ASSUME NEW i \in 1 .. w + 1, NEW p \in 1 .. n, wal'[i].cmd = history[p].cmd
        PROVE  wal'[i].seq = history[p].seq
    <3>1. CASE i \in 1 .. w
      BY <1>6, <2>1, <3>1 DEF RecoveryInv, SameNumbers
    <3>2. CASE i = w + 1
      <4>1. history[p].cmd = history[n].cmd
        BY <1>3, <1>6, <2>1, <3>2 DEF Same
      <4>2. p = n
        BY <1>6, <4>1 DEF RecoveryInv, NoCommandTwice
      <4> QED BY <1>3, <1>6, <3>2, <4>2 DEF Same
    <3> QED BY <1>8, <3>1, <3>2
  <2> QED BY <1>1, <1>6, <2>1 DEF SameNumbers
<1>11. NoCommandTwice'
  BY <1>1 DEF RecoveryInv, NoCommandTwice
<1>12. \A k \in Commands(history') \cup Commands(wal') : k <= calls'
  BY <1>1, <1>3, <1>7 DEF RecoveryInv
<1>13. acked' \subseteq Commands(wal')
  BY <1>1, <1>7 DEF RecoveryInv
<1>14. ASSUME NEW b \in Actor PROVE Runs(call'[b], history', wal', calls')
  <2>1. CASE b = c
    BY <1>1, <1>3, <1>5, <1>7, <2>1 DEF Runs
  <2>2. CASE b # c
    BY <1>5, <2>2 DEF Runs
  <2> QED BY <2>1, <2>2
<1> QED BY <1>9, <1>10, <1>11, <1>12, <1>13, <1>14 DEF RecoveryInv

-----------------------------------------------------------------------------
(* The other steps.                                                        *)

LEMMA MarkSame ==
  ASSUME NEW log \in Seq(LogEntry), NEW through
  PROVE  /\ Len(MarkThrough(log, through)) = Len(log)
         /\ DOMAIN MarkThrough(log, through) = DOMAIN log
         /\ \A i \in DOMAIN log : Same(MarkThrough(log, through)[i], log[i])
<1>1. MarkThrough(log, through) \in Seq(LogEntry)
  BY MarkThroughType
<1>2. DOMAIN MarkThrough(log, through) = DOMAIN log
  BY DEF MarkThrough
<1>3. Len(MarkThrough(log, through)) = Len(log)
  BY <1>1, <1>2
<1>4. ASSUME NEW i \in DOMAIN log PROVE Same(MarkThrough(log, through)[i], log[i])
  <2>1. log[i] \in LogEntry
    OBVIOUS
  <2> QED BY <2>1 DEF MarkThrough, LogEntry, Same
<1> QED BY <1>2, <1>3, <1>4

LEMMA CallStepRecovery ==
  ASSUME Sound, RecoveryInv, Careful, NEW a \in Actor, Step(a)
  PROVE  RecoveryInv'
<1>0. /\ call[a] \in Call /\ CallOK(call[a], Len(ckpts)) /\ Len(ckpts) \in Nat
      /\ calls \in Nat /\ a \in DOMAIN call
      /\ Runs(call[a], history, wal, calls) /\ acked \subseteq Commands(wal)
      /\ CarriesPrefix(call[a], ckpts, history)
  BY SoundFacts DEF RecoveryInv, Sound, WellFormed, CallsOK, PrefixInv
<1> DEFINE Waiting == {"running", "ran", "append"}
           Quiet   == up /\ UNCHANGED <<head, history, up, wal>> /\ calls' = calls
<1>1. ASSUME NEW r, call' = [call EXCEPT ![a] = r], Quiet, acked' = acked,
             ckpts' = ckpts \/ \E ckpt : ckpts' = Append(ckpts, ckpt),
             r.method = call[a].method, r.cmd = call[a].cmd,
             call[a].pc \notin Waiting, r.pc \notin Waiting,
             r.pc = "put" => r.ckpt.hist = history,
             r.pc = "stored" => call[a].pc = "put" /\ ckpts'[r.id] = call[a].ckpt
      PROVE  RecoveryInv'
  <2>1. Runs(r, history, wal, calls')
    BY <1>0, <1>1 DEF Runs
  <2>2. calls' \in Nat /\ calls <= calls'
    BY <1>0, <1>1
  <2> QED BY <1>0, <1>1, <2>1, <2>2, StillRecovery
<1>2. ASSUME NEW pc, Goto(a, pc), Quiet, ckpts' = ckpts,
             call[a].pc \notin Waiting, pc \notin Waiting, pc \notin {"put", "stored"},
             acked' = acked \/ (acked' = acked \cup {call[a].cmd} /\ call[a].method = "exec")
      PROVE  RecoveryInv'
  <2> DEFINE r == [call[a] EXCEPT !.pc = pc]
  <2>1. r.pc = pc /\ r.method = call[a].method /\ r.cmd = call[a].cmd
    BY <1>0 DEF Call
  <2>2. call' = [call EXCEPT ![a] = r]
    BY <1>0, <1>2 DEF Goto
  <2> HIDE DEF r
  <2>3. Runs(r, history, wal, calls') /\ acked' \subseteq Commands(wal)
    BY <1>0, <1>2, <2>1 DEF Runs
  <2>4. calls' \in Nat /\ calls <= calls'
    BY <1>0, <1>2
  <2> QED BY <1>0, <1>2, <2>1, <2>2, <2>3, <2>4, StillRecovery
<1>3. ASSUME Return(a), Quiet, ckpts' = ckpts, call[a].pc \notin Waiting,
             acked' = acked \/ (acked' = acked \cup {call[a].cmd} /\ call[a].method = "exec")
      PROVE  RecoveryInv'
  <2>1. NoCall.pc = "none" /\ call' = [call EXCEPT ![a] = NoCall]
    BY <1>3 DEF NoCall, Return
  <2>2. Runs(NoCall, history, wal, calls') /\ acked' \subseteq Commands(wal)
    BY <1>0, <1>3, NoCallRuns DEF Runs
  <2>3. calls' \in Nat /\ calls <= calls'
    BY <1>0, <1>3
  <2> QED BY <1>0, <1>3, <2>1, <2>2, <2>3, StillRecovery
<1>4. CASE RunCommand(a)
  <2> DEFINE r == [call[a] EXCEPT !.pc = "ran"]
  <2>1. /\ call' = [call EXCEPT ![a] = r] /\ Quiet /\ ckpts' = ckpts /\ acked' = acked
        /\ call[a].pc = "running"
    BY <1>0, <1>4 DEF RunCommand, At, Goto, memory
  <2>2. r.pc = "ran" /\ r.method = call[a].method /\ r.cmd = call[a].cmd /\ r.seq = call[a].seq
    BY <1>0 DEF Call
  <2> HIDE DEF r
  <2>3. Runs(r, history, wal, calls')
    BY <1>0, <2>1, <2>2 DEF Runs
  <2>4. calls' \in Nat /\ calls <= calls' /\ acked' \subseteq Commands(wal)
    BY <1>0, <2>1
  <2> QED BY <2>1, <2>2, <2>3, <2>4, StillRecovery
<1>5. CASE PushHistory(a)
  BY <1>5, PushRecovery
<1>6. CASE AppendWAL(a)
  BY <1>6, AppendRecovery
<1>7. CASE CountOperation(a)
  <2>1. call[a].method = "exec" /\ call[a].pc = "appended" /\ Quiet /\ ckpts' = ckpts
    BY <1>0, <1>7 DEF CountOperation, At, durable, CallOK
  <2>2. \/ Goto(a, "hash") /\ acked' = acked
        \/ Return(a) /\ acked' = acked \cup {call[a].cmd}
    BY <1>7 DEF CountOperation
  <2> QED BY <1>2, <1>3, <2>1, <2>2
<1>8. CASE ReadTree(a)
  <2> DEFINE r == [call[a] EXCEPT !.pc = "hashed", !.tree = files]
  <2>1. r.pc = "hashed" /\ r.method = call[a].method /\ r.cmd = call[a].cmd
    BY <1>0 DEF Call
  <2>2. /\ call' = [call EXCEPT ![a] = r] /\ Quiet /\ ckpts' = ckpts /\ acked' = acked
        /\ call[a].pc = "hash"
    BY <1>0, <1>8 DEF ReadTree, At, durable, memory
  <2> HIDE DEF r
  <2> QED BY <1>1, <2>1, <2>2
<1>9. CASE Snapshot(a)
  <2> DEFINE ckpt == [hist |-> history, tree |-> call[a].tree, parent |-> latest]
             r == [call[a] EXCEPT !.pc = "put", !.ckpt = ckpt]
  <2>1. r.pc = "put" /\ r.method = call[a].method /\ r.cmd = call[a].cmd
        /\ r.ckpt.hist = history
    BY <1>0 DEF Call
  <2>2. /\ call' = [call EXCEPT ![a] = r] /\ Quiet /\ ckpts' = ckpts /\ acked' = acked
        /\ call[a].pc = "hashed"
    BY <1>0, <1>9 DEF Snapshot, At, durable, memory
  <2> HIDE DEF r
  <2> QED BY <1>1, <2>1, <2>2
<1>10. CASE PutCheckpoint(a)
  <2> DEFINE r == [call[a] EXCEPT !.pc = "stored", !.id = Len(ckpts) + 1]
  <2>1. /\ r.pc = "stored" /\ r.method = call[a].method /\ r.cmd = call[a].cmd
        /\ r.id = Len(ckpts) + 1
    BY <1>0 DEF Call
  <2>2. /\ call' = [call EXCEPT ![a] = r] /\ Quiet /\ ckpts' = Append(ckpts, call[a].ckpt)
        /\ acked' = acked /\ call[a].pc = "put"
    BY <1>0, <1>10 DEF PutCheckpoint, At, refs, memory
  <2>3. ckpts'[Len(ckpts) + 1] = call[a].ckpt
    <3>1. call[a].ckpt \in Checkpoint
      BY <1>0 DEF Call
    <3> QED BY <2>2, <3>1, SoundFacts
  <2> HIDE DEF r
  <2> QED BY <1>1, <2>1, <2>2, <2>3
<1>11. CASE PutHead(a)
  <2> DEFINE r == [call[a] EXCEPT !.pc = "marking"]
  <2>1. r.pc = "marking" /\ r.method = call[a].method /\ r.cmd = call[a].cmd
    BY <1>0 DEF Call
  <2>2. /\ call' = [call EXCEPT ![a] = r] /\ up /\ UNCHANGED <<ckpts, history, up, wal>>
        /\ calls' = calls /\ acked' = acked /\ call[a].pc = "stored" /\ head' = call[a].id
    BY <1>0, <1>11 DEF PutHead, At, Goto, refs, memory
  <2> HIDE DEF r
  <2>3. ASSUME NEW m \in Nat, NoHeadBelow(m) PROVE NoHeadBelow(m)'
    <3>1. m <= Saved'
      <4>1. call[a].id # 0
        BY <1>0, <2>2 DEF CarriesPrefix
      <4>2. Saved' = Len(ckpts[call[a].id].hist)
        BY <2>2, <4>1 DEF Saved
      <4> QED BY <2>2, <2>3, <4>2 DEF NoHeadBelow
    <3>2. ASSUME NEW b \in Actor
          PROVE  /\ call'[b].pc = "put" => m <= Len(call'[b].ckpt.hist)
                 /\ call'[b].pc = "stored" => m <= Len(ckpts'[call'[b].id].hist)
      <4>1. call'[b] = IF b = a THEN r ELSE call[b]
        BY <2>2 DEF Sound, WellFormed, CallsOK
      <4> QED BY <2>1, <2>2, <2>3, <4>1 DEF NoHeadBelow
    <3> QED BY <3>1, <3>2 DEF NoHeadBelow
  <2>4. Runs(r, history, wal, calls') /\ calls' \in Nat /\ calls <= calls'
    BY <1>0, <2>1, <2>2 DEF Runs
  <2>5. /\ Len(wal') = Len(wal) /\ DOMAIN wal' = DOMAIN wal /\ Commands(wal') = Commands(wal)
        /\ \A i \in DOMAIN wal : Same(wal'[i], wal[i])
    BY <2>2 DEF Same
  <2> QED BY <1>0, <2>1, <2>2, <2>3, <2>4, <2>5, QuietRecovery
<1>12. CASE MarkCheckpointed(a)
  <2> DEFINE r == [call[a] EXCEPT !.pc = "marked"]
  <2>1. r.pc = "marked" /\ r.method = call[a].method /\ r.cmd = call[a].cmd
    BY <1>0 DEF Call
  <2>2. /\ call' = [call EXCEPT ![a] = r] /\ up /\ UNCHANGED <<ckpts, head, history, up>>
        /\ calls' = calls /\ acked' = acked /\ call[a].pc = "marking"
    BY <1>0, <1>12 DEF MarkCheckpointed, At, Goto, refs, memory
  <2>3. PICK seq \in LatestSeq(wal) : wal' = MarkThrough(wal, seq)
    BY <1>12 DEF MarkCheckpointed
  <2>4. /\ Len(wal') = Len(wal) /\ DOMAIN wal' = DOMAIN wal /\ Commands(wal') = Commands(wal)
        /\ \A i \in DOMAIN wal : Same(wal'[i], wal[i])
    BY <2>3, MarkSame, MarkCommands, SoundFacts
  <2> HIDE DEF r
  <2>5. \A m \in Nat : NoHeadBelow(m) => NoHeadBelow(m)'
    BY <2>1, <2>2, HeadStays
  <2>6. Runs(r, history, wal, calls') /\ calls' \in Nat /\ calls <= calls'
    BY <1>0, <2>1, <2>2 DEF Runs
  <2> QED BY <1>0, <2>1, <2>2, <2>4, <2>5, <2>6, QuietRecovery
<1>13. CASE FinishCheckpoint(a)
  <2>1. Quiet /\ ckpts' = ckpts /\ call[a].pc = "marked"
    BY <1>13 DEF FinishCheckpoint, At, durable
  <2>2. acked' = acked \/ (acked' = acked \cup {call[a].cmd} /\ call[a].method = "exec")
    BY <1>13 DEF FinishCheckpoint
  <2>3. Goto(a, "branchRef") \/ Goto(a, "autoRef") \/ Goto(a, "fork") \/ Return(a)
    BY <1>13 DEF FinishCheckpoint
  <2> QED BY <1>2, <1>3, <2>1, <2>2, <2>3
<1>14. CASE BranchStep(a)
  <2>1. call[a].pc \notin {"autoRef", "restore", "adopt"}
    BY <1>0 DEF CallOK, CarriesPrefix
  <2>2. PutBranchRef(a)
    BY <1>14, <2>1 DEF BranchStep, PutAutosaveRef, RestoreFilesystem, AdoptState, At
  <2> QED BY <1>3, <2>2 DEF PutBranchRef, At, memory
<1>15. CASE BuildFork(a)
  <2> DEFINE ckpt == [hist |-> IF call[a].includeWAL THEN history ELSE <<>>,
                      tree |-> treeHash, parent |-> 0]
             r == [call[a] EXCEPT !.pc = "forkPut", !.target = call[a].id, !.ckpt = ckpt]
  <2>1. r.pc = "forkPut" /\ r.method = call[a].method /\ r.cmd = call[a].cmd
    BY <1>0 DEF Call
  <2>2. /\ call' = [call EXCEPT ![a] = r] /\ Quiet /\ ckpts' = ckpts /\ acked' = acked
        /\ call[a].pc = "fork"
    BY <1>0, <1>15 DEF BuildFork, At, durable, memory
  <2> HIDE DEF r
  <2> QED BY <1>1, <2>1, <2>2
<1>16. CASE PutForkCheckpoint(a)
  <2> DEFINE r == [call[a] EXCEPT !.pc = "forkRef", !.id = Len(ckpts) + 1]
  <2>1. r.pc = "forkRef" /\ r.method = call[a].method /\ r.cmd = call[a].cmd
    BY <1>0 DEF Call
  <2>2. /\ call' = [call EXCEPT ![a] = r] /\ Quiet /\ ckpts' = Append(ckpts, call[a].ckpt)
        /\ acked' = acked /\ call[a].pc = "forkPut"
    BY <1>0, <1>16 DEF PutForkCheckpoint, At, refs, memory
  <2> HIDE DEF r
  <2> QED BY <1>1, <2>1, <2>2
<1>17. CASE PutForkRef(a)
  BY <1>2, <1>17 DEF PutForkRef, At, memory
<1>18. CASE PutForkHead(a)
  BY <1>3, <1>18 DEF PutForkHead, At, memory
<1> QED BY <1>4, <1>5, <1>6, <1>7, <1>8, <1>9, <1>10, <1>11, <1>12, <1>13, <1>14, <1>15,
           <1>16, <1>17, <1>18
        DEF Step, CheckpointStep, ExecStep, ForkStep

-----------------------------------------------------------------------------
(* Recovery.                                                               *)

(* The replay limit cuts nothing: what the log answers are different       *)
(* commands, and there are no more of them than calls.                     *)
LEMMA ReplaysAll ==
  ASSUME Sound, RecoveryInv, Careful, NEW entries \in EntriesSince(wal, Saved)
  PROVE  ToReplay(entries, MaxReplayOps) = entries
<1> DEFINE keep == {i \in DOMAIN wal : wal[i].seq > Saved}
<1>1. PICK s \in Int, m \in Nat :
        Shift(s) /\ NoHeadBelow(m) /\ Lags(history, m) /\ Aligned(history, wal, s, m)
  BY DEF RecoveryInv, LogAligned
<1>2. IsFiniteSet(keep) /\ Cardinality(keep) \in Nat
  <2>1. IsFiniteSet(DOMAIN wal)
    BY SoundFacts, FS_Interval
  <2> QED BY <2>1, FS_Subset, FS_CardinalityType
<1>3. ASSUME NEW i \in keep, NEW j \in keep, wal[i].cmd = wal[j].cmd PROVE i = j
  <2>1. /\ i \in Int /\ j \in Int
        /\ s + i \in DOMAIN history /\ s + j \in DOMAIN history
        /\ Same(wal[i], history[s + i]) /\ Same(wal[j], history[s + j])
    <3>1. ASSUME NEW k \in keep
          PROVE  k \in Int /\ s + k \in DOMAIN history /\ Same(wal[k], history[s + k])
      <4>1. k \in 1 .. Len(wal) /\ wal[k].seq > m
        BY <1>1, SoundFacts DEF NoHeadBelow
      <4>2. s + k \in m + 1 .. Len(history) /\ Same(wal[k], history[s + k])
        BY <1>1, <4>1 DEF Aligned
      <4> QED BY <4>1, <4>2, SoundFacts
    <3> QED BY <3>1
  <2>2. s + i = s + j
    BY <1>3, <2>1 DEF RecoveryInv, NoCommandTwice, Same
  <2> QED BY <2>1, <2>2
<1>4. ~(Cardinality(keep) > MaxCalls)
  <2> SUFFICES ASSUME Cardinality(keep) > MaxCalls PROVE FALSE
    OBVIOUS
  <2> DEFINE f == [i \in keep |-> wal[i].cmd]
  <2>1. f \in [keep -> Command]
    BY SoundFacts
  <2>2. IsFiniteSet(Command) /\ Cardinality(Command) = MaxCalls
    BY SessionAssumption, FS_Interval DEF Command
  <2>3. PICK x, y \in keep : x # y /\ f[x] = f[y]
    <3> HIDE DEF f, keep
    <3>1. Cardinality(Command) < Cardinality(keep)
      BY <1>2, <2>2, SessionAssumption
    <3> QED BY <1>2, <2>1, <2>2, <3>1, FS_PigeonHole
  <2> QED BY <1>3, <2>3
<1>5. entries \in Seq(LogEntry) /\ Len(entries) = Cardinality(keep)
  <2>1. PICK at \in Enumerations(keep) : entries = [k \in DOMAIN at |-> wal[at[k]]]
    BY DEF EntriesSince
  <2>2. at \in [1 .. Cardinality(keep) -> keep]
    BY <2>1 DEF Enumerations
  <2>3. DOMAIN entries = 1 .. Cardinality(keep)
    BY <2>1, <2>2
  <2>4. entries \in Seq(LogEntry)
    BY EntriesSinceType, SoundFacts
  <2> HIDE DEF keep
  <2> QED BY <1>2, <2>3, <2>4
<1> HIDE DEF keep
<1>6. Len(entries) <= MaxReplayOps \/ MaxReplayOps = 0
  BY <1>2, <1>4, <1>5, SessionAssumption DEF Careful
<1> QED BY <1>6 DEF ToReplay

(* A recovery as Recovered describes it.                                   *)
LEMMA LoadRecovers ==
  ASSUME Sound, RecoveryInv, Careful, Load
  PROVE  /\ UNCHANGED <<ckpts, head, wal, call, calls, acked>> /\ up' = TRUE
         /\ history' \in Seq(Entry) /\ Saved <= Len(history')
         /\ Rebuilds(history', history, Saved)
         /\ \A p \in Saved + 1 .. Len(history) : history[p].seq \in {p - 1, p}
         /\ Lags(history', Saved)
         /\ Aligned(history', wal, Len(history') - Len(wal), Saved)
<1> DEFINE old == ckpts[head].hist
<1>1. /\ UNCHANGED <<ckpts, head, wal, call, calls, acked>> /\ up' = TRUE
      /\ ~up /\ head # 0 /\ Saved = Len(old)
  BY DEF Load, Saved
<1>2. PICK entries \in EntriesSince(wal, Len(old)) :
        history' = old \o Replayed(ToReplay(entries, MaxReplayOps))
  BY DEF Load
<1>3. history' = old \o Replayed(entries)
  BY <1>1, <1>2, ReplaysAll
<1>4. old \in Seq(Entry) /\ Extends(history, old)
  <2>1. ckpts[head] \in Checkpoint
    BY <1>1 DEF Sound, WellFormed, DurableOK, RefsResolve
  <2> QED BY <1>1, <2>1 DEF Checkpoint, Sound, PrefixInv, HistoryExtendsHead
<1>5. PICK s \in Int, m \in Nat :
        Shift(s) /\ NoHeadBelow(m) /\ Lags(history, m) /\ Aligned(history, wal, s, m)
  BY DEF RecoveryInv, LogAligned
<1>6. m <= Len(old) /\ s + Len(wal) \in {Len(history), Len(history) - 1}
  BY <1>1, <1>5 DEF NoHeadBelow, Shift
<1> HIDE DEF old
<1>7. history \in Seq(Entry) /\ wal \in Seq(LogEntry)
  BY SoundFacts
<1>8. ASSUME NEW new, new = old \o Replayed(entries)
      PROVE  /\ new \in Seq(Entry) /\ Len(old) <= Len(new)
             /\ Rebuilds(new, history, Len(old))
             /\ Lags(new, Len(old))
             /\ Aligned(new, wal, Len(new) - Len(wal), Len(old))
  <2>1. entries \in EntriesSince(wal, Len(old))
    BY <1>2
  <2>2. Lags(history, m) /\ Aligned(history, wal, s, m)
    BY <1>5
  <2> QED BY <1>4, <1>6, <1>7, <1>8, <2>1, <2>2, Recovered
<1>9. ASSUME NEW p \in Saved + 1 .. Len(history) PROVE history[p].seq \in {p - 1, p}
  <2>1. p \in m + 1 .. Len(history)
    <3>1. m <= Saved /\ Saved \in Nat /\ Len(history) \in Nat
      BY <1>1, <1>6, SoundFacts
    <3> QED BY <3>1
  <2> QED BY <1>5, <2>1 DEF Lags
<1>10. /\ history' \in Seq(Entry) /\ Saved <= Len(history')
       /\ Rebuilds(history', history, Saved)
       /\ Lags(history', Saved)
       /\ Aligned(history', wal, Len(history') - Len(wal), Saved)
  BY <1>1, <1>3, <1>8
<1> QED BY <1>1, <1>9, <1>10

LEMMA LoadRecovery ==
  ASSUME Sound, RecoveryInv, Careful, Load
  PROVE  RecoveryInv'
<1> DEFINE n == Len(history)
           k == Len(history')
<1>1. /\ UNCHANGED <<ckpts, head, wal, call, calls, acked>> /\ up' = TRUE /\ ~up
      /\ history' \in Seq(Entry) /\ Saved <= Len(history') /\ Saved' = Saved
  BY LoadRecovers DEF Load, Saved
<1>2. /\ n \in Nat /\ k \in Nat /\ Saved \in Nat /\ Saved <= n
      /\ DOMAIN history = 1 .. n /\ DOMAIN history' = 1 .. k
  BY <1>1, SoundFacts
<1>3. PICK d \in {0, 1} : \A p \in 1 .. k :
        IF p <= Saved THEN history'[p] = history[p]
                      ELSE p + d \in 1 .. n /\ history'[p] = history[p + d]
  BY LoadRecovers DEF Rebuilds
<1> DEFINE from(p) == IF p <= Saved THEN p ELSE p + d
<1> HIDE DEF n, k
<1>4. ASSUME NEW p \in 1 .. k PROVE from(p) \in DOMAIN history /\ history'[p] = history[from(p)]
  <2>1. CASE p <= Saved
    <3>1. p \in 1 .. n
      BY <1>2, <2>1
    <3> QED BY <1>2, <1>3, <2>1, <3>1
  <2>2. CASE ~(p <= Saved)
    BY <1>2, <1>3, <2>2
  <2> QED BY <2>1, <2>2
<1>5. ASSUME NEW p \in 1 .. k, NEW q \in 1 .. k, from(p) = from(q) PROVE p = q
  BY <1>2, <1>5
<1> HIDE DEF from
<1>6. \A a \in Actor : call'[a] = NoCall /\ NoCall.pc = "none"
  BY <1>1 DEF Sound, CheckoutInv, NoneWhenEvicted, NoCall
<1>7. LogAligned'
  <2>1. PICK t \in Int : t = k - Len(wal)
    BY <1>2, SoundFacts
  <2>2. PICK m \in Nat : m = Saved
    BY <1>2
  <2>3. ~Logging'
    BY <1>6 DEF Logging
  <2>4. Shift(t)'
    <3>1. t + Len(wal) = k
      BY <1>2, <2>1, SoundFacts
    <3> QED BY <1>1, <1>2, <2>3, <3>1 DEF Shift, k
  <2>5. NoHeadBelow(m)'
    BY <1>1, <1>2, <1>6, <2>2 DEF NoHeadBelow
  <2>6. Lags(history', m) /\ Aligned(history', wal', t, m)
    BY <1>1, <2>1, <2>2, LoadRecovers DEF k
  <2> QED BY <2>4, <2>5, <2>6 DEF LogAligned
<1>8. SameNumbers'
  BY <1>1, <1>2, <1>4 DEF RecoveryInv, SameNumbers
<1>9. NoCommandTwice'
  <2>1. ASSUME NEW p \in 1 .. k, NEW q \in 1 .. k, history'[p].cmd = history'[q].cmd
        PROVE  p = q
    <3>1. from(p) = from(q)
      BY <1>4, <2>1 DEF RecoveryInv, NoCommandTwice
    <3> QED BY <1>5, <3>1
  <2> QED BY <1>2, <2>1 DEF NoCommandTwice
<1>10. \A c \in Commands(history') \cup Commands(wal') : c <= calls'
  <2>1. Commands(history') \subseteq Commands(history)
    BY <1>2, <1>4 DEF Commands
  <2> QED BY <1>1, <2>1 DEF RecoveryInv
<1>11. acked' \subseteq Commands(wal')
  BY <1>1 DEF RecoveryInv
<1>12. ASSUME NEW b \in Actor PROVE Runs(call'[b], history', wal', calls')
  BY <1>6, NoCallRuns
<1> QED BY <1>7, <1>8, <1>9, <1>10, <1>11, <1>12 DEF RecoveryInv

(* The only acknowledged command a recovery can drop is the one whose      *)
(* number is HEAD's length.                                                *)
LEMMA LoadDropsOne ==
  ASSUME Sound, RecoveryInv, Careful, Load
  PROVE  Cardinality(Dropped) <= 1
<1> DEFINE x == history[Saved + 1].cmd
           k == Len(history')
<1>1. Dropped \subseteq {x}
  <2> SUFFICES ASSUME NEW c \in acked, c \in Commands(history), c \notin Commands(history')
               PROVE  c = x
    BY DEF Dropped
  <2>1. PICK p \in DOMAIN history : history[p].cmd = c
    BY DEF Commands
  <2>2. PICK i \in DOMAIN wal : wal[i].cmd = c
    <3>1. c \in Commands(wal)
      BY DEF RecoveryInv
    <3> QED BY <3>1 DEF Commands
  <2>3. wal[i].seq = history[p].seq
    BY <2>1, <2>2 DEF RecoveryInv, SameNumbers
  <2>4. /\ history' \in Seq(Entry) /\ k \in Nat /\ DOMAIN history' = 1 .. k /\ Saved <= k
        /\ p \in 1 .. Len(history) /\ i \in 1 .. Len(wal) /\ Saved \in Nat
        /\ Len(history) \in Nat /\ history[p].seq \in Nat
    <3>1. history' \in Seq(Entry) /\ Saved <= k
      BY LoadRecovers
    <3> QED BY <3>1, SoundFacts
  <2>5. ~(p <= Saved)
    <3> SUFFICES ASSUME p <= Saved PROVE FALSE
      OBVIOUS
    <3>1. p \in 1 .. k
      BY <2>4
    <3>2. history'[p] = history[p]
      BY <3>1, LoadRecovers DEF Rebuilds
    <3> QED BY <2>1, <2>4, <3>1, <3>2 DEF Commands
  <2>6. ~(history[p].seq > Saved)
    <3> SUFFICES ASSUME history[p].seq > Saved PROVE FALSE
      OBVIOUS
    <3>1. Aligned(history', wal, k - Len(wal), Saved)
      BY LoadRecovers
    <3>2. (k - Len(wal)) + i \in Saved + 1 .. k
          /\ Same(wal[i], history'[(k - Len(wal)) + i])
      BY <2>3, <2>4, <3>1 DEF Aligned
    <3>3. (k - Len(wal)) + i \in DOMAIN history'
      BY <2>4, <3>2
    <3> QED BY <2>2, <3>2, <3>3 DEF Same, Commands
  <2>7. history[p].seq \in {p - 1, p}
    <3>1. p \in Saved + 1 .. Len(history)
      BY <2>4, <2>5
    <3> QED BY <3>1, LoadRecovers
  <2>8. p = Saved + 1
    BY <2>4, <2>5, <2>6, <2>7
  <2> QED BY <2>1, <2>8
<1>2. IsFiniteSet({x}) /\ Cardinality({x}) = 1
  BY FS_Singleton
<1> HIDE DEF x
<1> QED BY <1>1, <1>2, FS_Subset

LEMMA OtherRecovery ==
  ASSUME Sound, RecoveryInv, Careful,
         FireIdleTimer \/ Evict \/ Load \/ \E a \in Actor : Reject(a)
  PROVE  RecoveryInv'
<1>1. CASE FireIdleTimer
  <2>1. up /\ UNCHANGED <<ckpts, head, history, wal, up, calls, acked>>
    BY <1>1 DEF FireIdleTimer, durable
  <2>2. CASE UNCHANGED call
    BY <2>1, <2>2 DEF RecoveryInv, LogAligned, Shift, Logging, NoHeadBelow, Saved,
                      SameNumbers, NoCommandTwice
  <2>3. CASE ~UNCHANGED call
    <3> DEFINE r == [NoCall EXCEPT !.method = "idle", !.pc = "hash"]
    <3>1. call' = [call EXCEPT ![IdleTimer] = r] /\ call[IdleTimer].pc = "none"
      BY <1>1, <2>3 DEF FireIdleTimer, NoCall
    <3>2. r.pc = "hash" /\ r.method = "idle"
      BY DEF NoCall
    <3> HIDE DEF r
    <3>3. Runs(r, history, wal, calls') /\ calls' \in Nat /\ calls <= calls'
          /\ acked' \subseteq Commands(wal)
      BY <2>1, <3>2, SoundFacts DEF Runs, RecoveryInv
    <3> QED BY <2>1, <3>1, <3>2, <3>3, StillRecovery DEF Actor
  <2> QED BY <2>2, <2>3
<1>2. CASE Evict
  <2>1. /\ UNCHANGED <<ckpts, head, history, wal, calls, acked>> /\ up' = FALSE
        /\ \A a \in Actor : call'[a] = NoCall /\ NoCall.pc = "none"
    BY <1>2 DEF Evict, durable, NoCall
  <2>2. LogAligned'
    <3>1. PICK s \in Int, m \in Nat :
            Shift(s) /\ NoHeadBelow(m) /\ Lags(history, m) /\ Aligned(history, wal, s, m)
      BY DEF RecoveryInv, LogAligned
    <3>2. Shift(s)' /\ NoHeadBelow(m)'
      BY <2>1, <3>1 DEF Shift, NoHeadBelow, Saved
    <3> QED BY <2>1, <3>1, <3>2 DEF LogAligned
  <2>3. ASSUME NEW b \in Actor PROVE Runs(call'[b], history', wal', calls')
    BY <2>1, NoCallRuns
  <2> QED BY <2>1, <2>2, <2>3 DEF RecoveryInv, SameNumbers, NoCommandTwice
<1>3. CASE Load
  BY <1>3, LoadRecovery
<1>4. CASE \E a \in Actor : Reject(a)
  BY <1>4 DEF Reject, Careful
<1> QED BY <1>1, <1>2, <1>3, <1>4

(* The invariants together.                                                *)
THEOREM RecoveryInvariant ==
  ASSUME Careful
  PROVE  Spec => [](Sound /\ RecoveryInv)
<1>1. Init => RecoveryInv
  <2> SUFFICES ASSUME Init PROVE RecoveryInv
    OBVIOUS
  <2>1. /\ history = <<>> /\ wal = <<>> /\ acked = {} /\ head = 0 /\ up = TRUE
        /\ \A a \in Actor : call[a] = NoCall /\ NoCall.pc = "none"
    BY DEF Init, NoCall
  <2>2. /\ DOMAIN history = {} /\ DOMAIN wal = {} /\ Len(history) = 0 /\ Len(wal) = 0
        /\ Saved = 0 /\ ~Logging
    BY <2>1 DEF Saved, Logging
  <2>3. Shift(0) /\ NoHeadBelow(0)
    BY <2>1, <2>2 DEF Shift, NoHeadBelow
  <2>4. Lags(history, 0) /\ Aligned(history, wal, 0, 0)
    BY <2>2 DEF Lags, Aligned
  <2>5. LogAligned
    BY <2>3, <2>4 DEF LogAligned
  <2>6. SameNumbers /\ NoCommandTwice /\ Commands(history) = {} /\ Commands(wal) = {}
    BY <2>2 DEF SameNumbers, NoCommandTwice, Commands
  <2> QED BY <2>1, <2>5, <2>6, NoCallRuns DEF RecoveryInv
<1>2. Sound /\ RecoveryInv /\ [Next]_vars => RecoveryInv'
  <2> SUFFICES ASSUME Sound, RecoveryInv, [Next]_vars PROVE RecoveryInv'
    OBVIOUS
  <2>1. CASE Next
    BY <2>1, NewCallRecovery, CallStepRecovery, OtherRecovery DEF Next
  <2>2. CASE UNCHANGED vars
    BY <2>2 DEF vars, durable, memory, RecoveryInv, LogAligned, Shift, Logging, NoHeadBelow,
                Saved, SameNumbers, NoCommandTwice
  <2> QED BY <2>1, <2>2
<1>3. Spec => []Sound
  <2>1. Spec => [](WellFormed /\ PrefixInv)
    BY PrefixInvariant DEF Careful
  <2>2. Spec => [](WellFormed /\ CheckoutInv)
    BY CheckoutInvariant DEF Careful
  <2>3. WellFormed /\ PrefixInv /\ CheckoutInv => Sound
    BY DEF Sound
  <2> QED BY <2>1, <2>2, <2>3, PTL
<1> QED BY <1>1, <1>2, <1>3, PTL DEF Spec

(* With one client that does not check out, no rejection and a log within  *)
(* maxReplayOps, loadSession replays no command HEAD already has: the      *)
(* history never holds a command twice, however often it was recovered.    *)
THEOREM NeverTwice ==
  ASSUME Careful
  PROVE  Spec => []NoCommandTwice
<1>1. RecoveryInv => NoCommandTwice
  BY DEF RecoveryInv
<1> QED BY <1>1, RecoveryInvariant, PTL

(* Under the same suppositions, what exec() acknowledged and the history   *)
(* still holds is in HEAD or in the log from HEAD's length on.             *)
THEOREM AlwaysRecoverable ==
  ASSUME Careful
  PROVE  Spec => []Recoverable
<1>1. Sound /\ RecoveryInv => Recoverable
  <2> SUFFICES ASSUME Sound, RecoveryInv, head # 0, NEW c \in acked, c \in Commands(history),
                      c \notin Commands(ckpts[head].hist)
               PROVE  \E i \in DOMAIN wal :
                        wal[i].cmd = c /\ wal[i].seq >= Len(ckpts[head].hist)
    BY DEF Recoverable
  <2> DEFINE old == ckpts[head].hist
  <2>1. PICK p \in DOMAIN history : history[p].cmd = c
    BY DEF Commands
  <2>2. PICK i \in DOMAIN wal : wal[i].cmd = c
    <3>1. c \in Commands(wal)
      BY DEF RecoveryInv
    <3> QED BY <3>1 DEF Commands
  <2>3. wal[i].seq = history[p].seq
    BY <2>1, <2>2 DEF RecoveryInv, SameNumbers
  <2>4. old \in Seq(Entry) /\ Extends(history, old) /\ Saved = Len(old)
    <3>1. ckpts[head] \in Checkpoint
      BY DEF Sound, WellFormed, DurableOK, RefsResolve
    <3> QED BY <3>1 DEF Checkpoint, Sound, PrefixInv, HistoryExtendsHead, Saved
  <2>5. p \in 1 .. Len(history) /\ Len(history) \in Nat /\ Len(old) \in Nat
        /\ DOMAIN old = 1 .. Len(old) /\ history[p].seq \in Nat
    BY <2>4, SoundFacts
  <2>6. ~(p <= Len(old))
    <3> SUFFICES ASSUME p <= Len(old) PROVE FALSE
      OBVIOUS
    <3>1. p \in 1 .. Len(old)
      BY <2>5
    <3>2. history[p] = old[p]
      BY <2>4, <3>1 DEF Extends
    <3> QED BY <2>1, <2>5, <3>1, <3>2 DEF Commands
  <2>7. history[p].seq \in {p - 1, p}
    <3>1. PICK m \in Nat : NoHeadBelow(m) /\ Lags(history, m)
      BY DEF RecoveryInv, LogAligned
    <3>2. p \in m + 1 .. Len(history)
      <4>1. m <= Saved
        BY <3>1 DEF NoHeadBelow
      <4> QED BY <2>4, <2>5, <2>6, <4>1
    <3> QED BY <3>1, <3>2 DEF Lags
  <2> HIDE DEF old
  <2>8. history[p].seq >= Len(old)
    BY <2>5, <2>6, <2>7
  <2> QED BY <2>2, <2>3, <2>8 DEF old
<1> QED BY <1>1, RecoveryInvariant, PTL

(* Under the same suppositions, one recovery drops at most one             *)
(* acknowledged command: getEntriesSince is asked for numbers larger than  *)
(* HEAD's length, and only one place can carry that number.                *)
THEOREM DropsAtMostOne ==
  ASSUME Careful
  PROVE  Spec => LosesAtMostOne
<1>1. Sound /\ RecoveryInv /\ [Next]_vars => [~up /\ up' => Cardinality(Dropped) <= 1]_vars
  BY OnlyLoadRevives, LoadDropsOne
<1> QED BY <1>1, RecoveryInvariant, PTL DEF Spec, LosesAtMostOne

(* What a recovery leaves of the history that was lost.                    *)
RebuildStep ==
  ~up /\ up' =>
    /\ Rebuilds(history', history, Saved)
    /\ Len(history') <= Len(history) /\ Len(history) - 2 <= Len(history')

LEMMA LoadRebuilds ==
  ASSUME Sound, RecoveryInv, Careful, Load
  PROVE  RebuildStep
<1> DEFINE k == Len(history')
           h == Len(history)
           n == Len(wal)
<1>1. /\ Saved <= k /\ Rebuilds(history', history, Saved)
      /\ \A p \in Saved + 1 .. h : history[p].seq \in {p - 1, p}
      /\ Aligned(history', wal, k - n, Saved)
      /\ history' \in Seq(Entry)
  BY LoadRecovers
<1>2. k \in Nat /\ h \in Nat /\ n \in Nat /\ Saved \in Nat /\ Saved <= h
  BY <1>1, SoundFacts
<1>3. PICK s \in Int, m \in Nat : Shift(s) /\ m <= Saved /\ Aligned(history, wal, s, m)
  BY DEF RecoveryInv, LogAligned, NoHeadBelow
<1>4. s + n \in {h, h - 1}
  BY <1>3 DEF Shift
<1>5. k <= h
  <2>1. CASE k = Saved
    BY <1>2, <2>1
  <2>2. CASE k # Saved
    <3>1. k \in 1 .. k /\ ~(k <= Saved)
      BY <1>1, <1>2, <2>2
    <3>2. PICK d \in {0, 1} : k + d \in 1 .. h
      BY <1>1, <3>1 DEF Rebuilds
    <3> QED BY <1>2, <3>2
  <2> QED BY <2>1, <2>2
<1>6. h - 2 <= k
  <2>1. CASE h <= Saved + 2
    BY <1>1, <1>2, <2>1
  <2>2. CASE ~(h <= Saved + 2)
    <3> DEFINE p == Saved + 2
    <3>1. p \in Saved + 1 .. h /\ p \in m + 1 .. h /\ p <= s + n
      BY <1>2, <1>3, <1>4, <2>2
    <3>2. history[p].seq \in Nat /\ history[p].seq > Saved /\ history[p].seq > m
      BY <1>1, <1>2, <1>3, <3>1
    <3>3. p > s /\ Same(wal[p - s], history[p])
      BY <1>3, <3>1, <3>2 DEF Aligned
    <3>4. p - s \in 1 .. n /\ wal[p - s].seq > Saved
      BY <1>2, <3>1, <3>2, <3>3 DEF Same
    <3>5. (k - n) + (p - s) \in Saved + 1 .. k
      BY <1>1, <3>4 DEF Aligned
    <3> QED BY <1>2, <1>4, <3>5
  <2> QED BY <2>1, <2>2
<1> QED BY <1>1, <1>5, <1>6 DEF RebuildStep

(* Under the same suppositions, a recovery rebuilds the lost history in    *)
(* order: up to HEAD's length as it was, from there on as it was or, all of*)
(* it, one place down.  Two entries at most are missing: the one whose     *)
(* number is HEAD's length and the one the eviction caught before its      *)
(* append to the log.                                                      *)
THEOREM RebuildsHistory ==
  ASSUME Careful
  PROVE  Spec => [][RebuildStep]_vars
<1>1. Sound /\ RecoveryInv /\ [Next]_vars => [RebuildStep]_vars
  <2> SUFFICES ASSUME Sound, RecoveryInv, [Next]_vars, ~up, up' PROVE RebuildStep
    BY DEF RebuildStep
  <2> QED BY OnlyLoadRevives, LoadRebuilds
<1> QED BY <1>1, RecoveryInvariant, PTL DEF Spec
=============================================================================
