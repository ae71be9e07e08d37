----------------------------- MODULE UndoHistory -----------------------------
(***************************************************************************)
(* UndoManager of src/src/undo.ts and the commands that src/src/execute.ts *)
(* records in it.  runCommand prepares the undo command before it awaits   *)
(* the process and records it after, undo() chooses an entry before it     *)
(* awaits the undo command and removes it after; several callers share one *)
(* manager, and each of these steps may come between two of another.       *)
(*                                                                         *)
(* Commands have one source and one target, and only mkdir makes or names  *)
(* a directory.  A command runs in the directory its caller names; what    *)
(* undoes it is prepared, and run, in process.cwd().  A command names its  *)
(* files by what they are there, and At says what they are elsewhere.      *)
(*                                                                         *)
(* A file is its text and the line feeds at its end, since restoring a     *)
(* text by echo adds one.  echo may write another text than it is given,   *)
(* or not start, and a large file is not read at all.                      *)
(*                                                                         *)
(* External: the shell that runs the commands.                             *)
(***************************************************************************)
EXTENDS Naturals, Sequences

CONSTANTS Callers,      \* who calls execute() and undo()
          Files,        \* paths of files
          Dirs,         \* paths of directories
          Parent,       \* the directory of the files that have one of Dirs
          Cwds,         \* values of options.cwd
          At,           \* At[w][p]: what the name of p names in w; p, if it is absolute
          Texts,        \* what a file may hold
          Empty,        \* the text of a new file
          Unread,       \* the texts of files of 10 MB or more
          Echoed,       \* what a file holds that is read and written back by echo,
                        \* for the texts that fit in an argument
          Commands,     \* the commands the callers run
          Starts,       \* bound: the file systems to start with
          Limits,       \* values of historyLimit
          MaxCommands   \* bound: commands run

Names == Files \union Dirs

Absent == <<"absent">>
Dir    == <<"dir">>
File(text) == <<"file", text>>

\* A text with the number of line feeds at its end
Contents == Texts \X Nat

Objects == {Absent, Dir} \union ({"file"} \X Contents)

\* Files and directories keep to their names, and what is there is in a directory
FileSystems ==
    {s \in [Names -> Objects] :
        /\ \A f \in Files : s[f] # Dir
        /\ \A d \in Dirs : s[d] \in {Absent, Dir}
        /\ \A f \in DOMAIN Parent : s[f] # Absent => s[Parent[f]] = Dir}

NoText == <<Empty, 0>>
NoName == "none"

Ops == {"touch", "echo", "cp", "mv", "rm", "mkdir", "rmdir"}

CommandType ==
    {cmd \in [op : Ops, src : Files \union {NoName}, dst : Names, text : Contents] :
        /\ cmd.dst \in IF cmd.op \in {"mkdir", "rmdir"} THEN Dirs ELSE Files
        /\ cmd.op \in {"cp", "mv"} => cmd.src \in Files}

Cmd(op, dst)      == [op |-> op, src |-> NoName, dst |-> dst, text |-> NoText]
Move(op, src, dst) == [op |-> op, src |-> src, dst |-> dst, text |-> NoText]
Echo(text, dst)   == [op |-> "echo", src |-> NoName, dst |-> dst, text |-> text]

\* What is not undone: the null of generateUndoInfo
NoUndo == Cmd("none", NoName)

\* What a caller may have run, wherever it ran
Doable == {cmd \in CommandType : cmd.op # "rmdir"}

ASSUME UndoAssumption ==
    /\ Files \intersect Dirs = {}
    /\ NoName \notin Files
    /\ DOMAIN Parent \subseteq Files
    /\ \A f \in DOMAIN Parent : Parent[f] \in Dirs
    /\ At \in [Cwds -> [Names -> Names]]
    /\ \A w \in Cwds, p \in Names : At[w][p] \in Files <=> p \in Files
    /\ Empty \in Texts
    /\ Unread \subseteq Texts
    /\ DOMAIN Echoed \subseteq Texts
    /\ \A text \in DOMAIN Echoed : Echoed[text] \in Texts
    /\ Commands \subseteq Doable
    /\ Starts \subseteq FileSystems
    /\ Limits \subseteq Nat
    /\ MaxCommands \in Nat

VARIABLES
    fs,        \* the file system
    history,   \* history; before: the file system the command ran on
    limit,     \* options.historyLimit
    tracking,  \* options.trackDeletedContent
    idCounter, \* idCounter
    started,   \* how many commands were run
    job,       \* what each caller awaits
    clean      \* since the history was last empty all went one after the other

vars == <<fs, history, limit, tracking, idCounter, started, job, clean>>

------------------------------------------------------------------------------
(* The shell *)

IsFile(s, p) == s[p] \notin {Absent, Dir}

HasParent(s, p) == p \in DOMAIN Parent => s[Parent[p]] = Dir

\* The command exits with 0
Succeeds(cmd, s) ==
    /\ HasParent(s, cmd.dst)
    /\ cmd.op \in {"cp", "mv"} => cmd.src # cmd.dst /\ IsFile(s, cmd.src)
    /\ cmd.op = "echo" => cmd.text[1] \in DOMAIN Echoed
    /\ cmd.op = "rm" => IsFile(s, cmd.dst)
    /\ cmd.op = "mkdir" => s[cmd.dst] = Absent
    /\ cmd.op = "rmdir" =>
          /\ s[cmd.dst] = Dir
          /\ \A f \in DOMAIN Parent : Parent[f] = cmd.dst => s[f] = Absent

\* What the target of a command is after it
Target(cmd, s) ==
    CASE cmd.op = "touch" -> IF s[cmd.dst] = Absent THEN File(NoText) ELSE s[cmd.dst]
      [] cmd.op = "echo" -> File(<<Echoed[cmd.text[1]], cmd.text[2] + 1>>)
      [] cmd.op \in {"cp", "mv"} -> s[cmd.src]
      [] cmd.op = "mkdir" -> Dir
      [] OTHER -> Absent

Effect(cmd, s) ==
    [p \in Names |->
        IF p = cmd.dst THEN Target(cmd, s)
        ELSE IF cmd.op = "mv" /\ p = cmd.src THEN Absent
        ELSE s[p]]

\* What cmd is in the directory w
In(w, cmd) ==
    [cmd EXCEPT !.src = IF @ = NoName THEN NoName ELSE At[w][@], !.dst = At[w][@]]

\* A process can be started in w
HasCwd(w, s) == w \in Dirs => s[w] = Dir

\* The file systems up to the line feeds at the end of their files
Rough(s) == [p \in Names |-> IF IsFile(s, p) THEN <<"file", s[p][2][1]>> ELSE s[p]]

------------------------------------------------------------------------------
(* generateUndoInfo, on the file system before the command *)

\* What readFileSafely returns: the file is there and not too large
Readable(s, p) == IsFile(s, p) /\ s[p][2][1] \notin Unread

\* touch: remove what is new
TouchUndo(cmd, s) == IF s[cmd.dst] = Absent THEN Cmd("rm", cmd.dst) ELSE NoUndo

\* Mutant of WriteUndo: a file that was there is removed
WriteUndoAlwaysRemoves(cmd, s) == Cmd("rm", cmd.dst)

\* echo > file: restore what was read, or remove
WriteUndo(cmd, s) ==
    IF Readable(s, cmd.dst) THEN Echo(s[cmd.dst][2], cmd.dst) ELSE Cmd("rm", cmd.dst)

\* cp: remove the copy, whatever it replaces
CpUndo(cmd) == Cmd("rm", cmd.dst)

\* mv: move back, whatever the move replaced
MvUndo(cmd) == Move("mv", cmd.dst, cmd.src)

\* rm: restore what was read, if contents are tracked
RmUndo(cmd, s, tracked) ==
    IF tracked /\ Readable(s, cmd.dst) THEN Echo(s[cmd.dst][2], cmd.dst) ELSE NoUndo

MkdirUndo(cmd) == Cmd("rmdir", cmd.dst)

UndoOf(cmd, s, tracked) ==
    CASE cmd.op = "touch" -> TouchUndo(cmd, s)
      [] cmd.op = "echo"  -> WriteUndo(cmd, s)
      [] cmd.op = "cp"    -> CpUndo(cmd)
      [] cmd.op = "mv"    -> MvUndo(cmd)
      [] cmd.op = "rm"    -> RmUndo(cmd, s, tracked)
      [] cmd.op = "mkdir" -> MkdirUndo(cmd)
      [] OTHER            -> NoUndo

------------------------------------------------------------------------------
(* The callers *)

Idle == [at |-> "idle"]

Busy == {c \in Callers : job[c] # Idle}

\* Ghost: the order is kept while callers take turns and nothing happens that
\* no entry describes; an empty history starts anew.
Cleanly(ok) ==
    clean' = \/ clean /\ ok
             \/ history' = <<>> /\ \A c \in Callers : job'[c] = Idle

\* The command replaces a file its undo command does not hold
Overwrites(cmd, s) ==
    \/ cmd.op \in {"cp", "mv"} /\ s[cmd.dst] # Absent
    \/ cmd.op = "echo" /\ IsFile(s, cmd.dst) /\ ~Readable(s, cmd.dst)

\* The undo command would write a text that echo changes, or cannot be given
Garbles(undo) ==
    undo.op = "echo" /\ ~(undo.text[1] \in DOMAIN Echoed /\ Echoed[undo.text[1]] = undo.text[1])

\* The undo command of a command that runs now gives back what it takes
Undoable(j) ==
    Succeeds(j.cmd, fs) =>
        IF j.undo = NoUndo THEN Effect(j.cmd, fs) = fs
        ELSE ~Overwrites(j.cmd, fs) /\ ~Garbles(j.undo)

\* runCommand up to its await: the undo command is prepared in process.cwd() and
\* the command started in w; one that cannot be started has failed
Execute(c, cmd, w) ==
    /\ job[c] = Idle
    /\ started < MaxCommands
    /\ started' = started + 1
    /\ IF HasCwd(w, fs)
       THEN job' = [job EXCEPT ![c] =
                [at |-> "run", cmd |-> In(w, cmd), undo |-> UndoOf(cmd, fs, tracking)]]
       ELSE UNCHANGED job
    /\ UNCHANGED <<fs, history, limit, tracking, idCounter>>
    /\ Cleanly(Busy = {} /\ In(w, cmd) = cmd)

\* Mutant of RunEnds: a command that fails is recorded too
RunEndsAnyway(c) ==
    /\ job[c].at = "run"
    /\ fs' = IF Succeeds(job[c].cmd, fs) THEN Effect(job[c].cmd, fs) ELSE fs
    /\ job' = [job EXCEPT ![c] = [at |-> "ran", cmd |-> job[c].cmd, undo |-> job[c].undo, before |-> fs]]
    /\ UNCHANGED <<history, limit, tracking, idCounter, started>>
    /\ Cleanly(Undoable(job[c]))

\* The process ends; one that fails is not recorded
RunEnds(c) ==
    /\ job[c].at = "run"
    /\ IF Succeeds(job[c].cmd, fs)
       THEN /\ fs' = Effect(job[c].cmd, fs)
            /\ job' = [job EXCEPT ![c] =
                  [at |-> "ran", cmd |-> job[c].cmd, undo |-> job[c].undo, before |-> fs]]
       ELSE /\ job' = [job EXCEPT ![c] = Idle]
            /\ UNCHANGED fs
    /\ UNCHANGED <<history, limit, tracking, idCounter, started>>
    /\ Cleanly(Undoable(job[c]))

\* The command times out: it is killed, too late perhaps, and not recorded
TimeOut(c) ==
    /\ job[c].at = "run"
    /\ job' = [job EXCEPT ![c] = Idle]
    /\ fs' \in {fs} \union (IF Succeeds(job[c].cmd, fs) THEN {Effect(job[c].cmd, fs)} ELSE {})
    /\ UNCHANGED <<history, limit, tracking, idCounter, started>>
    /\ Cleanly(fs' = fs)

\* The n newest entries
Newest(h, n) == IF Len(h) <= n THEN h ELSE SubSeq(h, Len(h) - n + 1, Len(h))

\* Whether an undo that is under way still finds its entry where it was
KeepsPlace(j, h) ==
    IF j.at \in {"undoing", "undone"}
    THEN [j EXCEPT !.moved = @ \/ ~(j.index <= Len(h) /\ h[j.index] = j.entry)]
    ELSE j

\* Mutant of AddEntry: the limit is enforced before the entry is added
AddEntryLast(cmd, undo, before) ==
    IF limit = 0
    THEN UNCHANGED <<history, idCounter>>
    ELSE /\ history' = Append(Newest(history, limit),
                              [id |-> idCounter + 1, cmd |-> cmd, undo |-> undo, before |-> before])
         /\ idCounter' = idCounter + 1

\* addEntry
AddEntry(cmd, undo, before) ==
    IF limit = 0
    THEN UNCHANGED <<history, idCounter>>
    ELSE /\ history' = Newest(Append(history,
               [id |-> idCounter + 1, cmd |-> cmd, undo |-> undo, before |-> before]), limit)
         /\ idCounter' = idCounter + 1

\* Mutant of Record: a command that cannot be undone is recorded too
RecordAlways(c) ==
    /\ job[c].at = "ran"
    /\ AddEntry(job[c].cmd, job[c].undo, job[c].before)
    /\ job' = [d \in Callers |-> IF d = c THEN Idle ELSE KeepsPlace(job[d], history')]
    /\ UNCHANGED <<fs, limit, tracking, started>>
    /\ Cleanly(TRUE)

\* The rest of runCommand
Record(c) ==
    /\ job[c].at = "ran"
    /\ IF job[c].undo = NoUndo
       THEN UNCHANGED <<history, idCounter>>
       ELSE AddEntry(job[c].cmd, job[c].undo, job[c].before)
    /\ job' = [d \in Callers |-> IF d = c THEN Idle ELSE KeepsPlace(job[d], history')]
    /\ UNCHANGED <<fs, limit, tracking, started>>
    /\ Cleanly(TRUE)

\* undo() up to its await, of the newest entry or of one chosen by its id
Undo(c, i) ==
    /\ job[c] = Idle
    /\ i \in DOMAIN history
    /\ job' = [job EXCEPT ![c] =
          [at |-> "undoing", entry |-> history[i], index |-> i, moved |-> FALSE]]
    /\ UNCHANGED <<fs, history, limit, tracking, idCounter, started>>
    /\ Cleanly(Busy = {} /\ i = Len(history))

\* The undo command ends; if it fails, the entry stays
UndoRuns(c) ==
    /\ job[c].at = "undoing"
    /\ IF Succeeds(job[c].entry.undo, fs)
       THEN /\ fs' = Effect(job[c].entry.undo, fs)
            /\ job' = [job EXCEPT ![c] = [@ EXCEPT !.at = "undone"]]
       ELSE /\ job' = [job EXCEPT ![c] = Idle]
            /\ UNCHANGED fs
    /\ UNCHANGED <<history, limit, tracking, idCounter, started>>
    /\ Cleanly(TRUE)

\* Array.splice(i, 1)
Without(h, i) ==
    IF i <= Len(h) THEN SubSeq(h, 1, i - 1) \o SubSeq(h, i + 1, Len(h)) ELSE h

\* Mutant of UndoEnds: the entry that is the newest by now is removed
UndoEndsPop(c) ==
    /\ job[c].at = "undone"
    /\ history' = Without(history, Len(history))
    /\ job' = [d \in Callers |-> IF d = c THEN Idle ELSE KeepsPlace(job[d], history')]
    /\ UNCHANGED <<fs, limit, tracking, idCounter, started>>
    /\ Cleanly(TRUE)

\* The rest of undo(): remove what is at the index by now
UndoEnds(c) ==
    /\ job[c].at = "undone"
    /\ history' = Without(history, job[c].index)
    /\ job' = [d \in Callers |-> IF d = c THEN Idle ELSE KeepsPlace(job[d], history')]
    /\ UNCHANGED <<fs, limit, tracking, idCounter, started>>
    /\ Cleanly(TRUE)

\* clearHistory
ClearHistory ==
    /\ history' = <<>>
    /\ job' = [d \in Callers |-> KeepsPlace(job[d], history')]
    /\ UNCHANGED <<fs, limit, tracking, idCounter, started>>
    /\ Cleanly(Busy = {})

\* setOptions
SetLimit(n) ==
    /\ limit' = n
    /\ history' = Newest(history, n)
    /\ job' = [d \in Callers |-> KeepsPlace(job[d], history')]
    /\ UNCHANGED <<fs, tracking, idCounter, started>>
    /\ Cleanly(Busy = {})

SetTracking(b) ==
    /\ tracking' = b
    /\ UNCHANGED <<fs, history, limit, idCounter, started, job, clean>>

------------------------------------------------------------------------------

Init ==
    /\ fs \in Starts
    /\ history = <<>>
    /\ limit \in Limits
    /\ tracking = TRUE
    /\ idCounter = 0
    /\ started = 0
    /\ job = [c \in Callers |-> Idle]
    /\ clean = TRUE

Next ==
    \/ \E c \in Callers :
          \/ \E cmd \in Commands, w \in Cwds : Execute(c, cmd, w)
          \/ \E i \in 1 .. Len(history) : Undo(c, i)
          \/ RunEnds(c) \/ TimeOut(c) \/ Record(c)
          \/ UndoRuns(c) \/ UndoEnds(c)
    \/ ClearHistory
    \/ \E n \in Limits : SetLimit(n)
    \/ \E b \in BOOLEAN : SetTracking(b)

Spec == Init /\ [][Next]_vars

------------------------------------------------------------------------------
(* Properties *)

Entries == [id : Nat \ {0}, cmd : Doable, undo : CommandType, before : FileSystems]

Jobs ==
    {Idle}
    \union [at : {"run"}, cmd : Doable, undo : CommandType \union {NoUndo}]
    \union [at : {"ran"}, cmd : Doable, undo : CommandType \union {NoUndo}, before : FileSystems]
    \union [at : {"undoing", "undone"}, entry : Entries, index : Nat \ {0}, moved : BOOLEAN]

TypeOK ==
    /\ fs \in FileSystems
    /\ history \in Seq(Entries)
    /\ limit \in Limits
    /\ tracking \in BOOLEAN
    /\ idCounter \in Nat
    /\ started \in 0 .. MaxCommands
    /\ job \in [Callers -> Jobs]
    /\ clean \in BOOLEAN

\* Whatever was recorded, removed and cut, the entries are in the order of their
\* ids, and no more than the limit.
HistoryInOrder ==
    /\ Len(history) <= limit
    /\ \A i \in DOMAIN history : history[i].id <= idCounter
    /\ \A i, j \in DOMAIN history : i < j => history[i].id < history[j].id

\* The file system an entry's undo command is meant for
After(i) == IF i = Len(history) THEN fs ELSE history[i + 1].before

\* When callers take turns and undo the newest entry first, their commands name
\* the same paths in process.cwd() and nothing is lost that no undo command holds,
\* the history unwinds: every undo command succeeds and leads back to where its
\* command ran.
Unwinds ==
    clean /\ Busy = {} =>
        \A i \in DOMAIN history :
            /\ Succeeds(history[i].undo, After(i))
            /\ Rough(Effect(history[i].undo, After(i))) = Rough(history[i].before)

\* An undo removes its own entry and no other, if nothing that precedes it left
\* the history meanwhile, whatever was recorded meanwhile.
OwnEntryLeaves ==
    [][\A c \in Callers :
          job[c].at = "undone" /\ job'[c] = Idle /\ ~job[c].moved =>
              {history'[i] : i \in DOMAIN history'} =
              {history[i] : i \in DOMAIN history} \ {job[c].entry}]_vars

\* The undo command is the one for what the command met where it ran: nothing
\* came between the two, and its names are the same paths in process.cwd().
Prepared(e) == \E b \in BOOLEAN : e.undo = UndoOf(e.cmd, e.before, b)

\* The undo of c restores the file system its command ran on, if it meets the
\* one the command left.
Restored(c) ==
    LET e == job[c].entry IN
    fs = Effect(e.cmd, e.before) => job'[c].at = "undone" /\ Rough(fs') = Rough(e.before)

UndoesNow(c) == job[c].at = "undoing" /\ job'[c].at # "undoing"

\* Also among overlapping commands, in any directory, undoing a command succeeds
\* and restores what it met, unless it replaced what the undo command does not
\* hold, or the undo command is for other paths or an older file system, or would
\* write a text that echo does not write as it is.
UndoRestores ==
    [][\A c \in Callers :
          LET e == job[c].entry IN
          UndoesNow(c) /\ Prepared(e) /\ ~Overwrites(e.cmd, e.before) /\ ~Garbles(e.undo) =>
              Restored(c)]_vars

\* "When overwriting an existing file, undo should restore original content"
\* (undo-tracking.test.ts): so does undoing a copy.
UndoRestoresCopies ==
    [][\A c \in Callers :
          LET e == job[c].entry IN
          UndoesNow(c) /\ Prepared(e) /\ e.cmd.op = "cp" => Restored(c)]_vars

==============================================================================
