----------------------------- MODULE MCSession -----------------------------
(* Session with small sets of clients, names and methods: the values are   *)
(* in the configurations.                                                  *)
EXTENDS Session, TLC

(* Clients differ in nothing but their names.                              *)
Clients == Permutations(Client)
=============================================================================
