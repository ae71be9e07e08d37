------------------------------- MODULE MCRpc -------------------------------
(* RpcClient with small sets of calls: the values are in the configurations. *)
EXTENDS RpcClient, TLC

(* Every client, and those that do not batch and reconnect at once: a batch  *)
(* does not look at the connection.                                          *)
AllOptions == [batching : BOOLEAN, reconnect : BOOLEAN]
OneOption  == {o \in AllOptions : ~(o.batching /\ o.reconnect)}

(* Calls differ in nothing but their names.                                  *)
Symmetry == Permutations(Calls)
=============================================================================
