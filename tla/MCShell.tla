------------------------------ MODULE MCShell ------------------------------
(* ShellStream with two callbacks that share the standard error, of which  *)
(* one also waits for the exit.  The standard output is written and kept   *)
(* in the result; its callbacks would be called by the same code.          *)
EXTENDS ShellStream

CONSTANTS a, b

Interests == [cb \in {a, b} |-> IF cb = a THEN {"stderr", "exit"} ELSE {"stderr"}]

(* A success and the code of a signal.                                     *)
ExitCodes == {0, -1}
=============================================================================
