----------------------------- MODULE RemoteCall ------------------------------
(***************************************************************************)
(* What a caller of the RPC client (RPCBashBackend of src/src/do/rpc.ts)   *)
(* may rely on, whatever the connection, the token and the timers do: a    *)
(* call is made once, its command runs at most once, its promise settles   *)
(* at most once, and a result it delivers is that of a command that ran.   *)
(* A rejection says nothing: the command may run before it or after it.    *)
(***************************************************************************)
EXTENDS Naturals

CONSTANT Calls

VARIABLES settled,  \* what the promise of each call has settled to
          ran       \* how often its command ran

Init == settled = [c \in Calls |-> "idle"] /\ ran = [c \in Calls |-> 0]

\* The application makes the call
Make(c) ==
    /\ settled[c] = "idle"
    /\ settled' = [settled EXCEPT ![c] = "no"]
    /\ UNCHANGED ran

\* The command of a call that was made runs, for the first and only time
Run(c) ==
    /\ settled[c] # "idle"
    /\ ran[c] = 0
    /\ ran' = [ran EXCEPT ![c] = 1]
    /\ UNCHANGED settled

\* The result of a command that ran is delivered
Resolve(c) ==
    /\ settled[c] = "no"
    /\ ran[c] = 1
    /\ settled' = [settled EXCEPT ![c] = "resolved"]
    /\ UNCHANGED ran

\* Calls fail, several at once when they share the connection
Reject(S) ==
    /\ \A c \in S : settled[c] = "no"
    /\ settled' = [c \in Calls |-> IF c \in S THEN "rejected" ELSE settled[c]]
    /\ UNCHANGED ran

Next ==
    \/ \E c \in Calls : Make(c) \/ Run(c) \/ Resolve(c)
    \/ \E S \in SUBSET Calls : Reject(S)

Spec == Init /\ [][Next]_<<settled, ran>>
==============================================================================
