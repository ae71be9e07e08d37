------------------------------- MODULE MCUndo ------------------------------
(* UndoHistory with two files, and a directory that holds a third.  The    *)
(* name of g is relative, the others are absolute: in d it names x.        *)
EXTENDS UndoHistory, TLC

InDirectory == [p \in {"x"} |-> "d"]

HomeOnly == [w \in {"home"} |-> [p \in Names |-> p]]

HomeAndD == [w \in {"home", "d"} |->
                [p \in Names |-> IF w = "d" /\ p = "g" THEN "x" ELSE p]]

\* echo writes "odd" otherwise (its backslashes, or a -n); "long" and "large" fit
\* in no argument
ByEcho == [text \in {"", "old", "new", "odd", "plain"} |->
              IF text = "odd" THEN "plain" ELSE text]

FileOf(text) == [p \in {"f", "g", "x", "d"} |->
                    IF p = "f" THEN File(<<text, 0>>) ELSE Absent]

OneFile == {FileOf("old")}

OddFiles == {FileOf(text) : text \in {"odd", "large"}}

AllCommands == {Cmd("touch", "x"), Echo(<<"new", 0>>, "g"),
                Move("cp", "f", "g"), Move("mv", "f", "g"), Cmd("rm", "g"),
                Cmd("mkdir", "d")}

Symmetry == Permutations(Callers)
=============================================================================
