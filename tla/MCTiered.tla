------------------------------ MODULE MCTiered -----------------------------
(* TieredExecutor with commands for every tier, two that share a key (git)  *)
(* and two that share only a name (npm).                                    *)
EXTENDS TieredExecutor

Text(name, text) ==
    [name |-> name, text |-> text, query |-> FALSE,
     shebang |-> Bash, ending |-> Bash, syntax |-> Bash]

Ls      == Text("ls", "")
View    == [Text("npm", "view x") EXCEPT !.query = TRUE]
Install == Text("npm", "install")
Cp      == Text("cp", "a b")
Script  == Text("python", "run.py")
Pip     == Text("pip", "list")
Status  == Text("git", "status")
Add     == [Text("git", "add a.js") EXCEPT !.ending = "node"]
Lint    == Text("eslint", "a")
Tool    == Text("tool", "a")

AllCommands == {Ls, Cp, View, Install, Script, Pip, Status, Add, Lint, Tool}

SomeCalls ==
    [pipe : {<<>>, <<Cp, Ls>>, <<View, Install>>, <<Add, Status>>, <<Tool>>, <<Lint>>},
     redirected : {FALSE}]
    \union [pipe : {<<Ls, Script>>}, redirected : {TRUE}]

Strangers == {Pip}

Configurations ==
    {[fs |-> TRUE, sandbox |-> TRUE, loaders |-> TRUE, workers |-> {"python", "node"}],
     [fs |-> TRUE, sandbox |-> TRUE, loaders |-> FALSE, workers |-> {}],
     [fs |-> FALSE, sandbox |-> FALSE, loaders |-> FALSE, workers |-> {"python"}]}

Interpreters == [n \in {"python", "node", "bash"} |-> IF n = "bash" THEN Bash ELSE n]

Managers == [n \in {"pip"} |-> "python"]
=============================================================================
