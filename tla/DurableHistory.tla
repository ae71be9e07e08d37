--------------------------- MODULE DurableHistory ---------------------------
(***************************************************************************)
(* What a session promises about its command history, with no word about   *)
(* checkpoints or awaits: commands enter the history one after another,    *)
(* some prefix of it is saved, commands of it are logged one by one, and   *)
(* when the object comes back from an eviction the saved prefix is there   *)
(* in order, followed by logged commands only.                             *)
(***************************************************************************)
EXTENDS Naturals, Sequences

CONSTANT Command

VARIABLES
  hist,    \* the commands of the history; after an eviction, the history lost
  saved,   \* length of the prefix that survives an eviction
  logged,  \* the commands the log holds
  up       \* is the session in memory?

vars == <<hist, saved, logged, up>>

Elements(s) == {s[i] : i \in DOMAIN s}

Init == hist = <<>> /\ saved = 0 /\ logged = {} /\ up = TRUE

Run ==
  /\ up
  /\ \E m \in Command : hist' = Append(hist, m)
  /\ UNCHANGED <<saved, logged, up>>

(* Saves may land out of order: a shorter prefix can replace a longer one. *)
Save ==
  /\ up
  /\ saved' \in 0 .. Len(hist)
  /\ UNCHANGED <<hist, logged, up>>

(* Only what the history shows is logged, and it is logged while it does.  *)
Log ==
  /\ up
  /\ \E m \in Elements(hist) : logged' = logged \cup {m}
  /\ UNCHANGED <<hist, saved, up>>

Evict == up /\ up' = FALSE /\ UNCHANGED <<hist, saved, logged>>

Recover ==
  /\ ~up /\ up' = TRUE
  /\ saved <= Len(hist')
  /\ \A i \in DOMAIN hist' :
       IF i <= saved THEN hist'[i] = hist[i] ELSE hist'[i] \in logged
  /\ UNCHANGED <<saved, logged>>

Next == Run \/ Save \/ Log \/ Evict \/ Recover

Spec == Init /\ [][Next]_vars
=============================================================================
