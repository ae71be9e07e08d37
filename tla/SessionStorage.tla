--------------------------- MODULE SessionStorage ---------------------------
(***************************************************************************)
(* The write-ahead log a session appends to (WALStorage of                 *)
(* src/session/types.ts), as the storage of test/core/session/             *)
(* session.test.ts implements it.  A log is a sequence of entries          *)
(* [seq, cmd, checkpointed]; cmd stands for the logged history entry.      *)
(*                                                                         *)
(* A query is given as the set of its possible answers.  Each of these     *)
(* sets has one element; writing them so keeps the type of an answer       *)
(* evident, without an induction over the log.                             *)
(***************************************************************************)
EXTENDS Integers, Sequences, FiniteSets

(* The order-preserving enumerations of a finite set of numbers.           *)
Enumerations(S) ==
  {f \in [1 .. Cardinality(S) -> S] : \A i, j \in DOMAIN f : i < j => f[i] < f[j]}

(* Mutants of getEntriesSince: the whole log; only what no checkpoint has  *)
(* flagged.                                                                *)
EntriesSinceEver(log, s) == {log}
EntriesSinceUnflagged(log, s) ==
  {[k \in DOMAIN at |-> log[at[k]]] :
     at \in Enumerations({i \in DOMAIN log : log[i].seq > s /\ ~log[i].checkpointed})}

(* getEntriesSince: the entries whose seq is strictly larger, in the order *)
(* they were appended.                                                     *)
EntriesSince(log, s) ==
  {[k \in DOMAIN at |-> log[at[k]]] :
     at \in Enumerations({i \in DOMAIN log : log[i].seq > s})}

(* getLatestSeq: the largest seq logged, -1 when nothing is.               *)
LatestSeq(log) ==
  LET seqs == {log[i].seq : i \in DOMAIN log} \cup {-1}
  IN  {m \in seqs : \A s \in seqs : s <= m}

(* markCheckpointed: flag every entry up to throughSeq.                    *)
MarkThrough(log, through) ==
  [i \in DOMAIN log |->
     [log[i] EXCEPT !.checkpointed = @ \/ log[i].seq <= through]]

(* What loadSession keeps of the entries it read: all of them, or the      *)
(* newest max of them when there are more (slice(-0) keeps everything).    *)
ToReplay(entries, max) ==
  IF Len(entries) <= max \/ max = 0
    THEN entries
    ELSE SubSeq(entries, Len(entries) - max + 1, Len(entries))
=============================================================================
