-------------------------- MODULE UndoHistory_proofs --------------------------
(***************************************************************************)
(* Proofs about UndoHistory: the undo command that is prepared for a       *)
(* command gives back what the command takes, and the history keeps, cuts  *)
(* and loses its entries as it should.                                     *)
(***************************************************************************)
EXTENDS UndoHistory, SequenceTheorems, TLAPS

------------------------------------------------------------------------------
(* Files and file systems *)

LEMMA Kinds ==
    /\ Absent # Dir
    /\ \A x : <<"file", x>> # Absent /\ <<"file", x>> # Dir
    /\ \A x, y : <<"file", x>> = <<"file", y>> => x = y
    /\ \A x \in {"file"} \X Contents :
          /\ x[2] \in Contents /\ x = <<"file", x[2]>>
          /\ x # Absent /\ x # Dir
    /\ Absent \in Objects /\ Dir \in Objects
    /\ \A x \in Contents : File(x) \in Objects /\ File(x) # Absent /\ File(x) # Dir /\ File(x)[2] = x
<1>1. Absent # Dir
  BY DEF Absent, Dir
<1>2. ASSUME NEW x PROVE <<"file", x>> # Absent /\ <<"file", x>> # Dir
  <2>1. Len(<<"file", x>>) = 2 /\ Len(<<"absent">>) = 1 /\ Len(<<"dir">>) = 1
    OBVIOUS
  <2> QED BY <2>1 DEF Absent, Dir
<1>3. \A x, y : <<"file", x>> = <<"file", y>> => x = y
  OBVIOUS
<1>4. \A x \in {"file"} \X Contents : x[2] \in Contents /\ x = <<"file", x[2]>>
  OBVIOUS
<1>5. \A x \in Contents : File(x) \in Objects /\ File(x)[2] = x
  BY DEF File, Objects
<1> QED BY <1>1, <1>2, <1>3, <1>4, <1>5 DEF Objects, File

LEMMA ObjectOf ==
    ASSUME NEW s \in FileSystems, NEW p \in Names
    PROVE  /\ s[p] \in Objects
           /\ IsFile(s, p) => s[p] = <<"file", s[p][2]>> /\ s[p][2] \in Contents
           /\ IsFile(s, p) <=> s[p] # Absent /\ s[p] # Dir
<1>1. s[p] \in Objects
  BY DEF FileSystems
<1>2. IsFile(s, p) => s[p] \in {"file"} \X Contents
  BY <1>1 DEF IsFile, Objects
<1> QED BY <1>1, <1>2, Kinds DEF IsFile

LEMMA FileSystemFacts ==
    ASSUME NEW s \in FileSystems
    PROVE  /\ s \in [Names -> Objects]
           /\ \A f \in Files : s[f] # Dir
           /\ \A d \in Dirs : s[d] \in {Absent, Dir}
           /\ \A f \in DOMAIN Parent : s[f] # Absent => s[Parent[f]] = Dir
BY DEF FileSystems

LEMMA NameFacts ==
    /\ \A f \in Files : f \in Names /\ f \notin Dirs
    /\ \A d \in Dirs : d \in Names /\ d \notin Files
    /\ \A f \in DOMAIN Parent : f \in Files /\ Parent[f] \in Dirs
BY UndoAssumption DEF Names

LEMMA CommandFacts ==
    ASSUME NEW cmd \in CommandType
    PROVE  /\ cmd \in [op : Ops, src : Files \union {NoName}, dst : Names, text : Contents]
           /\ cmd.op \in Ops /\ cmd.dst \in Names /\ cmd.text \in Contents
           /\ cmd.op \in {"mkdir", "rmdir"} => cmd.dst \in Dirs
           /\ cmd.op \notin {"mkdir", "rmdir"} => cmd.dst \in Files
           /\ cmd.op \in {"cp", "mv"} => cmd.src \in Files
BY DEF CommandType

\* What Effect leaves under each name
LEMMA EffectAt ==
    ASSUME NEW cmd, NEW s, NEW p \in Names
    PROVE  Effect(cmd, s)[p] = IF p = cmd.dst THEN Target(cmd, s)
                               ELSE IF cmd.op = "mv" /\ p = cmd.src THEN Absent
                               ELSE s[p]
BY DEF Effect

LEMMA TargetKinds ==
    ASSUME NEW cmd \in CommandType, NEW s \in FileSystems, Succeeds(cmd, s)
    PROVE  /\ Target(cmd, s) \in Objects
           /\ cmd.op \in {"touch", "echo", "cp", "mv"} => Target(cmd, s) # Absent /\ Target(cmd, s) # Dir
           /\ cmd.op = "mkdir" => Target(cmd, s) = Dir
           /\ cmd.op \in {"rm", "rmdir"} => Target(cmd, s) = Absent
<1>0. /\ cmd.op \in Ops /\ cmd.dst \in Names /\ cmd.text \in Contents
      /\ cmd.op \notin {"mkdir", "rmdir"} => cmd.dst \in Files
      /\ cmd.op \in {"cp", "mv"} => cmd.src \in Names
  BY CommandFacts, NameFacts
<1>1. CASE cmd.op = "touch"
  <2>1. Target(cmd, s) = IF s[cmd.dst] = Absent THEN File(NoText) ELSE s[cmd.dst]
    BY <1>1 DEF Target
  <2>2. NoText \in Contents
    BY UndoAssumption DEF NoText, Contents
  <2>3. s[cmd.dst] \in Objects /\ s[cmd.dst] # Dir
    BY <1>0, <1>1, ObjectOf, FileSystemFacts
  <2> QED BY <1>1, <2>1, <2>2, <2>3, Kinds
<1>2. CASE cmd.op = "echo"
  <2>1. Target(cmd, s) = File(<<Echoed[cmd.text[1]], cmd.text[2] + 1>>)
    BY <1>2 DEF Target
  <2>2. Echoed[cmd.text[1]] \in Texts
    BY <1>2, UndoAssumption DEF Succeeds
  <2>3. <<Echoed[cmd.text[1]], cmd.text[2] + 1>> \in Contents
    BY <1>0, <2>2 DEF Contents
  <2> QED BY <1>2, <2>1, <2>3, Kinds
<1>3. CASE cmd.op \in {"cp", "mv"}
  <2>1. Target(cmd, s) = s[cmd.src] /\ IsFile(s, cmd.src)
    BY <1>3 DEF Target, Succeeds
  <2> QED BY <1>0, <1>3, <2>1, ObjectOf
<1>4. CASE cmd.op = "mkdir"
  BY <1>4, Kinds DEF Target
<1>5. CASE cmd.op \in {"rm", "rmdir"}
  BY <1>5, Kinds DEF Target
<1> QED BY <1>0, <1>1, <1>2, <1>3, <1>4, <1>5 DEF Ops

\* A command that succeeds keeps the file system in order
LEMMA EffectType ==
    ASSUME NEW cmd \in CommandType, NEW s \in FileSystems, Succeeds(cmd, s)
    PROVE  Effect(cmd, s) \in FileSystems
<1> DEFINE e == Effect(cmd, s)
<1>0. /\ s \in [Names -> Objects]
      /\ \A f \in Files : s[f] # Dir
      /\ \A d \in Dirs : s[d] \in {Absent, Dir}
      /\ \A f \in DOMAIN Parent : s[f] # Absent => s[Parent[f]] = Dir
  BY FileSystemFacts
<1>1. \A p \in Names : e[p] = IF p = cmd.dst THEN Target(cmd, s)
                              ELSE IF cmd.op = "mv" /\ p = cmd.src THEN Absent
                              ELSE s[p]
  BY EffectAt
<1>2. e \in [Names -> Objects]
  <2>1. \A p \in Names : e[p] \in Objects
    BY <1>0, <1>1, TargetKinds, Kinds
  <2> QED BY <2>1 DEF Effect
<1> HIDE DEF e
<1>3. \A f \in Files : e[f] # Dir
  <2> SUFFICES ASSUME NEW f \in Files PROVE e[f] # Dir
    OBVIOUS
  <2>1. f \in Names /\ s[f] # Dir
    BY <1>0, NameFacts
  <2>2. CASE f = cmd.dst
    <3>1. cmd.op \in {"touch", "echo", "cp", "mv", "rm"}
      BY <2>2, CommandFacts, NameFacts DEF Ops
    <3> QED BY <1>1, <2>1, <2>2, <3>1, TargetKinds, Kinds
  <2>3. CASE f # cmd.dst
    BY <1>1, <2>1, <2>3, Kinds
  <2> QED BY <2>2, <2>3
<1>4. \A d \in Dirs : e[d] \in {Absent, Dir}
  <2> SUFFICES ASSUME NEW d \in Dirs PROVE e[d] \in {Absent, Dir}
    OBVIOUS
  <2>1. d \in Names /\ s[d] \in {Absent, Dir}
    BY <1>0, NameFacts
  <2>2. CASE d = cmd.dst
    <3>1. cmd.op \in {"mkdir", "rmdir"}
      BY <2>2, CommandFacts, NameFacts
    <3> QED BY <1>1, <2>1, <2>2, <3>1, TargetKinds
  <2>3. CASE d # cmd.dst
    BY <1>1, <2>1, <2>3
  <2> QED BY <2>2, <2>3
<1>5. ASSUME NEW f \in DOMAIN Parent, e[f] # Absent PROVE e[Parent[f]] = Dir
  <2>1. f \in Files /\ f \in Names /\ Parent[f] \in Dirs /\ Parent[f] \in Names /\ Parent[f] \notin Files
    BY NameFacts
  <2>2. s[Parent[f]] = Dir
    <3>1. CASE f = cmd.dst
      BY <3>1, <1>5 DEF Succeeds, HasParent
    <3>2. CASE f # cmd.dst
      <4>1. s[f] # Absent
        BY <1>1, <1>5, <2>1, <3>2
      <4> QED BY <1>0, <4>1
    <3> QED BY <3>1, <3>2
  <2>3. ~(cmd.op = "mv" /\ Parent[f] = cmd.src)
    BY <2>1, CommandFacts
  <2>4. CASE Parent[f] = cmd.dst
    <3>1. cmd.op \in {"mkdir", "rmdir"}
      BY <2>1, <2>4, CommandFacts
    <3>2. cmd.op # "mkdir"
      BY <2>2, <2>4, Kinds DEF Succeeds
    <3>3. f # cmd.dst
      BY <2>1, <2>4
    <3>4. s[f] = Absent
      BY <2>4, <3>1, <3>2 DEF Succeeds
    <3>5. e[f] = Absent
      BY <1>1, <2>1, <3>1, <3>3, <3>4
    <3> QED BY <1>5, <3>5
  <2>5. CASE Parent[f] # cmd.dst
    BY <1>1, <2>1, <2>2, <2>3, <2>5
  <2> QED BY <2>4, <2>5
<1> QED BY <1>2, <1>3, <1>4, <1>5 DEF FileSystems, e

------------------------------------------------------------------------------
(* File systems up to line feeds *)

LEMMA RoughAt ==
    ASSUME NEW s \in FileSystems, NEW t \in FileSystems, Rough(s) = Rough(t), NEW p \in Names
    PROVE  /\ s[p] = Absent <=> t[p] = Absent
           /\ s[p] = Dir <=> t[p] = Dir
           /\ IsFile(s, p) <=> IsFile(t, p)
           /\ IsFile(s, p) => s[p][2][1] = t[p][2][1]
<1>1. Rough(s)[p] = Rough(t)[p]
  OBVIOUS
<1>2. /\ Rough(s)[p] = IF IsFile(s, p) THEN <<"file", s[p][2][1]>> ELSE s[p]
      /\ Rough(t)[p] = IF IsFile(t, p) THEN <<"file", t[p][2][1]>> ELSE t[p]
  BY DEF Rough
<1>3. IsFile(s, p) <=> IsFile(t, p)
  BY <1>1, <1>2, Kinds DEF IsFile
<1>4. IsFile(s, p) => s[p][2][1] = t[p][2][1]
  BY <1>1, <1>2, <1>3, Kinds
<1>5. ~IsFile(s, p) => s[p] = t[p]
  BY <1>1, <1>2, <1>3
<1> QED BY <1>3, <1>4, <1>5 DEF IsFile

\* Equal up to line feeds, name by name
Alike(s, t, p) ==
    /\ IsFile(s, p) <=> IsFile(t, p)
    /\ IsFile(s, p) => s[p][2][1] = t[p][2][1]
    /\ ~IsFile(s, p) => s[p] = t[p]

LEMMA RoughAlike ==
    ASSUME NEW s, NEW t, \A p \in Names : Alike(s, t, p)
    PROVE  Rough(s) = Rough(t)
BY DEF Rough, Alike

\* Whether a command succeeds, and what it leaves, does not depend on line feeds
LEMMA Congruence ==
    ASSUME NEW cmd \in CommandType, NEW s \in FileSystems, NEW t \in FileSystems, Rough(s) = Rough(t)
    PROVE  /\ Succeeds(cmd, s) <=> Succeeds(cmd, t)
           /\ Succeeds(cmd, s) => Rough(Effect(cmd, s)) = Rough(Effect(cmd, t))
<1>0. /\ cmd.op \in Ops /\ cmd.dst \in Names
      /\ cmd.op \in {"cp", "mv"} => cmd.src \in Names
      /\ cmd.op \notin {"mkdir", "rmdir"} => cmd.dst \in Files
      /\ \A f \in DOMAIN Parent : f \in Names /\ Parent[f] \in Names
  BY CommandFacts, NameFacts
<1>1. \A p \in Names : /\ s[p] = Absent <=> t[p] = Absent
                       /\ s[p] = Dir <=> t[p] = Dir
                       /\ IsFile(s, p) <=> IsFile(t, p)
                       /\ IsFile(s, p) => s[p][2][1] = t[p][2][1]
  BY RoughAt
<1>2. Succeeds(cmd, s) <=> Succeeds(cmd, t)
  <2>1. HasParent(s, cmd.dst) <=> HasParent(t, cmd.dst)
    BY <1>0, <1>1 DEF HasParent
  <2>2. cmd.op \in {"cp", "mv"} => (IsFile(s, cmd.src) <=> IsFile(t, cmd.src))
    BY <1>0, <1>1
  <2>3. IsFile(s, cmd.dst) <=> IsFile(t, cmd.dst)
    BY <1>0, <1>1
  <2>4. (s[cmd.dst] = Absent <=> t[cmd.dst] = Absent) /\ (s[cmd.dst] = Dir <=> t[cmd.dst] = Dir)
    BY <1>0, <1>1
  <2>5. (\A f \in DOMAIN Parent : Parent[f] = cmd.dst => s[f] = Absent)
        <=> (\A f \in DOMAIN Parent : Parent[f] = cmd.dst => t[f] = Absent)
    BY <1>0, <1>1
  <2> QED BY <2>1, <2>2, <2>3, <2>4, <2>5 DEF Succeeds
<1>3. ASSUME Succeeds(cmd, s) PROVE Rough(Effect(cmd, s)) = Rough(Effect(cmd, t))
  <2> DEFINE e == Effect(cmd, s)
             f == Effect(cmd, t)
  <2>1. \A p \in Names : /\ e[p] = IF p = cmd.dst THEN Target(cmd, s)
                                   ELSE IF cmd.op = "mv" /\ p = cmd.src THEN Absent ELSE s[p]
                         /\ f[p] = IF p = cmd.dst THEN Target(cmd, t)
                                   ELSE IF cmd.op = "mv" /\ p = cmd.src THEN Absent ELSE t[p]
    BY EffectAt
  <2> HIDE DEF e, f
  <2> SUFFICES ASSUME NEW p \in Names PROVE Alike(e, f, p)
    BY RoughAlike DEF e, f
  <2>2. Alike(s, t, p)
    BY <1>1 DEF Alike, IsFile
  <2>3. CASE p = cmd.dst
    <3>1. e[p] = Target(cmd, s) /\ f[p] = Target(cmd, t)
      BY <2>1, <2>3
    <3>2. CASE cmd.op = "touch"
      <4>1. /\ e[p] = IF s[p] = Absent THEN File(NoText) ELSE s[p]
            /\ f[p] = IF t[p] = Absent THEN File(NoText) ELSE t[p]
        BY <2>3, <3>1, <3>2 DEF Target
      <4>2. s[p] = Absent <=> t[p] = Absent
        BY <1>1
      <4>3. CASE s[p] = Absent
        <5>1. e[p] = f[p]
          BY <4>1, <4>2, <4>3
        <5> QED BY <5>1 DEF Alike, IsFile
      <4>4. CASE s[p] # Absent
        <5>1. e[p] = s[p] /\ f[p] = t[p]
          BY <4>1, <4>2, <4>4
        <5> QED BY <2>2, <5>1 DEF Alike, IsFile
      <4> QED BY <4>3, <4>4
    <3>3. CASE cmd.op \in {"echo", "mkdir", "rm", "rmdir"}
      <4>1. e[p] = f[p]
        BY <3>1, <3>3 DEF Target
      <4> QED BY <4>1 DEF Alike, IsFile
    <3>4. CASE cmd.op \in {"cp", "mv"}
      <4>1. e[p] = s[cmd.src] /\ f[p] = t[cmd.src]
        BY <3>1, <3>4 DEF Target
      <4>2. Alike(s, t, cmd.src)
        BY <1>0, <1>1, <3>4 DEF Alike, IsFile
      <4> QED BY <4>1, <4>2 DEF Alike, IsFile
    <3> QED BY <1>0, <3>2, <3>3, <3>4 DEF Ops
  <2>4. CASE p # cmd.dst /\ cmd.op = "mv" /\ p = cmd.src
    <3>1. e[p] = Absent /\ f[p] = Absent
      BY <2>1, <2>4
    <3> QED BY <3>1 DEF Alike, IsFile
  <2>5. CASE p # cmd.dst /\ ~(cmd.op = "mv" /\ p = cmd.src)
    <3>1. e[p] = s[p] /\ f[p] = t[p]
      BY <2>1, <2>5
    <3> QED BY <2>2, <3>1 DEF Alike, IsFile
  <2> QED BY <2>3, <2>4, <2>5
<1> QED BY <1>2, <1>3

------------------------------------------------------------------------------
(* What is prepared to undo a command *)

LEMMA Fields ==
    /\ \A op, dst : /\ Cmd(op, dst).op = op /\ Cmd(op, dst).src = NoName
                    /\ Cmd(op, dst).dst = dst /\ Cmd(op, dst).text = NoText
    /\ \A text, dst : /\ Echo(text, dst).op = "echo" /\ Echo(text, dst).src = NoName
                      /\ Echo(text, dst).dst = dst /\ Echo(text, dst).text = text
    /\ \A op, src, dst : /\ Move(op, src, dst).op = op /\ Move(op, src, dst).src = src
                         /\ Move(op, src, dst).dst = dst /\ Move(op, src, dst).text = NoText
BY DEF Cmd, Echo, Move

LEMMA UndoCommands ==
    /\ \A f \in Files : Cmd("rm", f) \in CommandType
    /\ \A d \in Dirs : Cmd("rmdir", d) \in CommandType
    /\ \A f \in Files, text \in Contents : Echo(text, f) \in CommandType
    /\ \A f, g \in Files : Move("mv", f, g) \in CommandType
    /\ NoUndo \notin CommandType
<1>1. NoText \in Contents
  BY UndoAssumption DEF NoText, Contents
<1>2. \A f \in Files : f \in Names
  BY DEF Names
<1>3. \A d \in Dirs : d \in Names
  BY DEF Names
<1>4. \A f \in Files : Cmd("rm", f) \in CommandType
  BY <1>1, <1>2 DEF Cmd, CommandType, Ops
<1>5. \A d \in Dirs : Cmd("rmdir", d) \in CommandType
  BY <1>1, <1>3 DEF Cmd, CommandType, Ops
<1>6. \A f \in Files, text \in Contents : Echo(text, f) \in CommandType
  BY <1>2 DEF Echo, CommandType, Ops
<1>7. \A f, g \in Files : Move("mv", f, g) \in CommandType
  BY <1>1, <1>2 DEF Move, CommandType, Ops
<1>8. NoUndo.op = "none"
  BY Fields DEF NoUndo
<1>9. NoUndo \notin CommandType
  BY <1>8, CommandFacts DEF Ops
<1> QED BY <1>4, <1>5, <1>6, <1>7, <1>9

LEMMA CommandsTyped == \A cmd \in Doable : cmd \in CommandType /\ cmd.op # "rmdir"
BY DEF Doable

\* In another directory a command is a command still
LEMMA InType ==
    ASSUME NEW w \in Cwds, NEW cmd \in Commands
    PROVE  cmd \in Doable /\ In(w, cmd) \in Doable
<1> DEFINE there == In(w, cmd)
<1>1. cmd \in Doable /\ cmd \in CommandType /\ cmd.op # "rmdir"
  BY UndoAssumption, CommandsTyped
<1>2. cmd \in [op : Ops, src : Files \union {NoName}, dst : Names, text : Contents]
  BY <1>1, CommandFacts
<1>3. \A p \in Names : At[w][p] \in Names /\ (At[w][p] \in Files <=> p \in Files)
  BY UndoAssumption
<1>4. \A p \in Names : p \in Dirs <=> p \notin Files
  BY UndoAssumption DEF Names
<1>5. cmd.src # NoName => cmd.src \in Files /\ cmd.src \in Names
  BY <1>2 DEF Names
<1>6. /\ cmd.op \in {"mkdir", "rmdir"} => cmd.dst \in Dirs
      /\ cmd.op \notin {"mkdir", "rmdir"} => cmd.dst \in Files
      /\ cmd.op \in {"cp", "mv"} => cmd.src \in Files
  BY <1>1, CommandFacts
<1>7. /\ there.op = cmd.op /\ there.text = cmd.text /\ there.dst = At[w][cmd.dst]
      /\ there.src = IF cmd.src = NoName THEN NoName ELSE At[w][cmd.src]
  BY <1>2 DEF In
<1>8. there \in [op : Ops, src : Files \union {NoName}, dst : Names, text : Contents]
  BY <1>2, <1>3, <1>5 DEF In
<1> HIDE DEF there
<1>9. there.dst \in IF there.op \in {"mkdir", "rmdir"} THEN Dirs ELSE Files
  BY <1>2, <1>3, <1>4, <1>6, <1>7
<1>10. there.op \in {"cp", "mv"} => there.src \in Files
  BY <1>3, <1>5, <1>6, <1>7, NameFacts, UndoAssumption
<1> QED BY <1>1, <1>7, <1>8, <1>9, <1>10 DEF Doable, CommandType, there

LEMMA UndoType ==
    ASSUME NEW cmd \in Doable, NEW s \in FileSystems, NEW b \in BOOLEAN
    PROVE  UndoOf(cmd, s, b) \in CommandType \union {NoUndo}
<1>0. /\ cmd.op \in Ops \ {"rmdir"} /\ cmd.dst \in Names
      /\ cmd.op = "mkdir" => cmd.dst \in Dirs
      /\ cmd.op # "mkdir" => cmd.dst \in Files
      /\ cmd.op \in {"cp", "mv"} => cmd.src \in Files
  BY CommandsTyped, CommandFacts
<1>1. IsFile(s, cmd.dst) => s[cmd.dst][2] \in Contents
  BY <1>0, ObjectOf
<1>2. CASE cmd.op = "touch"
  BY <1>0, <1>2, UndoCommands DEF UndoOf, TouchUndo
<1>3. CASE cmd.op = "echo"
  BY <1>0, <1>1, <1>3, UndoCommands DEF UndoOf, WriteUndo, Readable
<1>4. CASE cmd.op = "cp"
  BY <1>0, <1>4, UndoCommands DEF UndoOf, CpUndo
<1>5. CASE cmd.op = "mv"
  BY <1>0, <1>5, UndoCommands DEF UndoOf, MvUndo
<1>6. CASE cmd.op = "rm"
  BY <1>0, <1>1, <1>6, UndoCommands DEF UndoOf, RmUndo, Readable
<1>7. CASE cmd.op = "mkdir"
  BY <1>0, <1>7, UndoCommands DEF UndoOf, MkdirUndo
<1> QED BY <1>0, <1>2, <1>3, <1>4, <1>5, <1>6, <1>7 DEF Ops

\* The undo command works on the file system that the command leaves
Works(undo, after, before) == Succeeds(undo, after) /\ Rough(Effect(undo, after)) = Rough(before)

\* The lemma generateUndoInfo is about: what it prepares for a command that puts
\* nothing over what it does not hold, and holds no text that echo changes, gives
\* back what the command takes
LEMMA UndoWorks ==
    ASSUME NEW cmd \in Doable, NEW s \in FileSystems, NEW b \in BOOLEAN,
           Succeeds(cmd, s), UndoOf(cmd, s, b) # NoUndo, ~Overwrites(cmd, s),
           ~Garbles(UndoOf(cmd, s, b))
    PROVE  Works(UndoOf(cmd, s, b), Effect(cmd, s), s)
<1> DEFINE e == Effect(cmd, s)
           u == UndoOf(cmd, s, b)
           r == Effect(u, e)
<1>0. /\ cmd \in CommandType /\ cmd.op \in Ops \ {"rmdir"} /\ cmd.dst \in Names
      /\ cmd.op = "mkdir" => cmd.dst \in Dirs
      /\ cmd.op # "mkdir" => cmd.dst \in Files
      /\ cmd.op \in {"cp", "mv"} => cmd.src \in Files /\ cmd.src \in Names
  BY CommandsTyped, CommandFacts, NameFacts
<1>1. \A p \in Names : e[p] = IF p = cmd.dst THEN Target(cmd, s)
                              ELSE IF cmd.op = "mv" /\ p = cmd.src THEN Absent ELSE s[p]
  BY EffectAt
<1>2. \A p \in Names : r[p] = IF p = u.dst THEN Target(u, e)
                              ELSE IF u.op = "mv" /\ p = u.src THEN Absent ELSE e[p]
  BY EffectAt
<1>3. e \in FileSystems
  BY <1>0, EffectType
<1>4. /\ \A f \in Files : s[f] # Dir
      /\ \A f \in DOMAIN Parent : s[f] # Absent => s[Parent[f]] = Dir
      /\ \A f \in DOMAIN Parent : e[f] # Absent => e[Parent[f]] = Dir
  BY <1>3, FileSystemFacts
<1>5. IsFile(s, cmd.dst) => s[cmd.dst] = <<"file", s[cmd.dst][2]>> /\ s[cmd.dst][2] \in Contents
  BY <1>0, ObjectOf
<1>6. cmd.op \in {"touch", "echo", "cp", "mv"} => e[cmd.dst] # Absent /\ e[cmd.dst] # Dir
  BY <1>0, <1>1, TargetKinds
<1>7. cmd.op \in {"touch", "echo", "cp", "mv"} => IsFile(e, cmd.dst)
  BY <1>6 DEF IsFile
<1>8. HasParent(e, cmd.dst) \/ cmd.op \in {"rm", "mkdir"}
  BY <1>0, <1>4, <1>6 DEF HasParent, Ops
<1> HIDE DEF e, r
\* Removing what a command has made
<1>9. ASSUME u = Cmd("rm", cmd.dst), s[cmd.dst] = Absent,
             cmd.op \in {"touch", "echo", "cp"}
      PROVE  Works(u, e, s)
  <2>1. u.op = "rm" /\ u.dst = cmd.dst
    BY <1>9, Fields
  <2>2. Succeeds(u, e)
    BY <1>7, <1>8, <1>9, <2>1 DEF Succeeds
  <2>3. Target(u, e) = Absent
    BY <2>1 DEF Target
  <2>4. \A p \in Names : r[p] = s[p]
    BY <1>1, <1>2, <1>9, <2>1, <2>3
  <2>5. \A p \in Names : Alike(r, s, p)
    BY <2>4 DEF Alike, IsFile
  <2> QED BY <2>2, <2>5, RoughAlike DEF Works, r
\* Writing the text a file had
<1>10. ASSUME u = Echo(s[cmd.dst][2], cmd.dst), IsFile(s, cmd.dst), cmd.op \in {"echo", "rm"}
       PROVE  Works(u, e, s)
  <2>1. u.op = "echo" /\ u.dst = cmd.dst /\ u.text = s[cmd.dst][2]
    BY <1>10, Fields
  <2>2. cmd.dst \in Files /\ cmd.dst \in DOMAIN Parent => Parent[cmd.dst] \in Names /\ Parent[cmd.dst] # cmd.dst
    BY <1>0, <1>10, NameFacts
  <2>3. HasParent(e, cmd.dst)
    <3>1. cmd.dst \in DOMAIN Parent => s[Parent[cmd.dst]] = Dir
      BY <1>4, <1>10 DEF IsFile
    <3>2. cmd.dst \in Files
      BY <1>0, <1>10
    <3>3. cmd.dst \in DOMAIN Parent => e[Parent[cmd.dst]] = s[Parent[cmd.dst]]
      BY <1>1, <1>10, <2>2, <3>2
    <3> QED BY <3>1, <3>3 DEF HasParent
  <2>11. u.text[1] \in DOMAIN Echoed /\ Echoed[u.text[1]] = s[cmd.dst][2][1]
    BY <2>1 DEF Garbles
  <2>4. Succeeds(u, e)
    BY <2>1, <2>3, <2>11 DEF Succeeds
  <2>5. Target(u, e) = <<"file", <<s[cmd.dst][2][1], s[cmd.dst][2][2] + 1>>>>
    BY <2>1, <2>11 DEF Target, File
  <2>6. r[cmd.dst] = <<"file", <<s[cmd.dst][2][1], s[cmd.dst][2][2] + 1>>>>
    BY <1>0, <1>2, <2>1, <2>5
  <2>7. IsFile(r, cmd.dst) /\ r[cmd.dst][2][1] = s[cmd.dst][2][1]
    BY <2>6, Kinds DEF IsFile
  <2>8. Alike(r, s, cmd.dst)
    BY <1>10, <2>7 DEF Alike
  <2>9. \A p \in Names : p # cmd.dst => r[p] = s[p]
    BY <1>1, <1>2, <1>10, <2>1
  <2>10. \A p \in Names : Alike(r, s, p)
    BY <2>8, <2>9 DEF Alike, IsFile
  <2> QED BY <2>4, <2>10, RoughAlike DEF Works, r
<1>11. CASE cmd.op = "touch"
  <2>1. u = IF s[cmd.dst] = Absent THEN Cmd("rm", cmd.dst) ELSE NoUndo
    BY <1>11 DEF UndoOf, TouchUndo
  <2>2. u = Cmd("rm", cmd.dst) /\ s[cmd.dst] = Absent
    BY <2>1
  <2> QED BY <1>9, <1>11, <2>2 DEF e
<1>12. CASE cmd.op = "echo"
  <2>1. u = IF IsFile(s, cmd.dst) THEN Echo(s[cmd.dst][2], cmd.dst) ELSE Cmd("rm", cmd.dst)
    BY <1>12 DEF UndoOf, WriteUndo, Readable, Overwrites
  <2>2. ~IsFile(s, cmd.dst) => s[cmd.dst] = Absent
    BY <1>0, <1>4, <1>12 DEF IsFile
  <2> QED BY <1>9, <1>10, <1>12, <2>1, <2>2 DEF e
<1>13. CASE cmd.op = "cp"
  <2>1. u = Cmd("rm", cmd.dst) /\ s[cmd.dst] = Absent
    BY <1>13 DEF UndoOf, CpUndo, Overwrites
  <2> QED BY <1>9, <1>13, <2>1 DEF e
<1>14. CASE cmd.op = "rm"
  <2>1. u = Echo(s[cmd.dst][2], cmd.dst)
    BY <1>14 DEF UndoOf, RmUndo
  <2>2. IsFile(s, cmd.dst)
    BY <1>14 DEF Succeeds
  <2> QED BY <1>10, <1>14, <2>1, <2>2 DEF e
<1>15. CASE cmd.op = "mv"
  <2>1. u = Move("mv", cmd.dst, cmd.src) /\ s[cmd.dst] = Absent
    BY <1>15 DEF UndoOf, MvUndo, Overwrites
  <2>2. u.op = "mv" /\ u.src = cmd.dst /\ u.dst = cmd.src
    BY <2>1, Fields
  <2>3. cmd.src # cmd.dst /\ IsFile(s, cmd.src) /\ cmd.src \in Files /\ cmd.src \in Names
    BY <1>0, <1>15 DEF Succeeds
  <2>4. HasParent(e, cmd.src)
    <3>1. cmd.src \in DOMAIN Parent => s[Parent[cmd.src]] = Dir /\ Parent[cmd.src] \in Names
                                       /\ Parent[cmd.src] \notin Files
      BY <1>4, <2>3, NameFacts DEF IsFile
    <3>2. cmd.dst \in Files
      BY <1>0, <1>15
    <3> QED BY <1>1, <2>3, <3>1, <3>2 DEF HasParent
  <2>5. IsFile(e, cmd.dst)
    BY <1>7, <1>15
  <2>6. Succeeds(u, e)
    BY <2>2, <2>3, <2>4, <2>5 DEF Succeeds
  <2>7. Target(u, e) = e[cmd.dst] /\ Target(cmd, s) = s[cmd.src]
    BY <1>15, <2>2 DEF Target
  <2>8. e[cmd.dst] = s[cmd.src]
    BY <1>0, <1>1, <2>7
  <2>9. \A p \in Names : r[p] = s[p]
    BY <1>1, <1>2, <2>1, <2>2, <2>3, <2>7, <2>8
  <2>10. \A p \in Names : Alike(r, s, p)
    BY <2>9 DEF Alike, IsFile
  <2> QED BY <2>6, <2>10, RoughAlike DEF Works, r, e
<1>16. CASE cmd.op = "mkdir"
  <2>1. u = Cmd("rmdir", cmd.dst) /\ s[cmd.dst] = Absent
    BY <1>16 DEF UndoOf, MkdirUndo, Succeeds
  <2>2. u.op = "rmdir" /\ u.dst = cmd.dst
    BY <2>1, Fields
  <2>3. cmd.dst \in Dirs /\ Target(cmd, s) = Dir
    BY <1>0, <1>16 DEF Target
  <2>4. e[cmd.dst] = Dir
    BY <1>0, <1>1, <2>3
  <2>5. \A f \in DOMAIN Parent : Parent[f] = cmd.dst => s[f] = Absent
    BY <1>4, <2>1, Kinds
  <2>6. \A f \in DOMAIN Parent : Parent[f] = cmd.dst => e[f] = Absent
    BY <1>1, <1>16, <2>3, <2>5, NameFacts
  <2>7. HasParent(e, cmd.dst)
    BY <2>3, NameFacts DEF HasParent
  <2>8. Succeeds(u, e)
    BY <2>2, <2>4, <2>6, <2>7 DEF Succeeds
  <2>9. Target(u, e) = Absent
    BY <2>2 DEF Target
  <2>10. \A p \in Names : r[p] = s[p]
    BY <1>1, <1>2, <1>16, <2>1, <2>2, <2>9
  <2>11. \A p \in Names : Alike(r, s, p)
    BY <2>10 DEF Alike, IsFile
  <2> QED BY <2>8, <2>11, RoughAlike DEF Works, r, e
<1> QED BY <1>0, <1>11, <1>12, <1>13, <1>14, <1>15, <1>16 DEF Ops

------------------------------------------------------------------------------
(* The history as a sequence *)

\* t is h without its first k entries
IsTail(h, t, k) ==
    /\ Len(t) + k = Len(h)
    /\ \A i \in 1 .. Len(t) : i + k \in 1 .. Len(h) /\ t[i] = h[i + k]

LEMMA NewestFacts ==
    ASSUME NEW S, NEW h \in Seq(S), NEW n \in Nat
    PROVE  /\ Newest(h, n) \in Seq(S)
           /\ Len(Newest(h, n)) <= n
           /\ Len(h) <= n => Newest(h, n) = h
           /\ \E k \in Nat : IsTail(h, Newest(h, n), k)
<1>0. Len(h) \in Nat
  OBVIOUS
<1>1. CASE Len(h) <= n
  <2>1. Newest(h, n) = h
    BY <1>1 DEF Newest
  <2>2. IsTail(h, h, 0)
    BY <1>0 DEF IsTail
  <2> QED BY <1>0, <1>1, <2>1, <2>2
<1>2. CASE ~(Len(h) <= n)
  <2> DEFINE m == Len(h) - n + 1
             t == SubSeq(h, m, Len(h))
  <2>1. Newest(h, n) = t
    BY <1>2 DEF Newest
  <2>2. m \in Int /\ Len(h) \in Int /\ \A i \in m .. Len(h) : h[i] \in S
    BY <1>0, <1>2
  <2>3. /\ t \in Seq(S)
        /\ Len(t) = IF m <= Len(h) THEN Len(h) - m + 1 ELSE 0
        /\ \A i \in 1 .. Len(h) - m + 1 : t[i] = h[m + i - 1]
    BY <2>2, SubSeqProperties
  <2>4. Len(h) - m + 1 = n /\ Len(t) = n
    BY <1>0, <1>2, <2>3
  <2> HIDE DEF t
  <2>5. ASSUME NEW i \in 1 .. Len(t)
        PROVE  i + (Len(h) - n) \in 1 .. Len(h) /\ t[i] = h[i + (Len(h) - n)]
    <3>1. m + i - 1 = i + (Len(h) - n) /\ i + (Len(h) - n) \in 1 .. Len(h)
      BY <1>0, <1>2, <2>4
    <3>2. t[i] = h[m + i - 1]
      BY <2>3, <2>4
    <3> QED BY <3>1, <3>2
  <2>6. Len(h) - n \in Nat /\ Len(t) + (Len(h) - n) = Len(h)
    BY <1>0, <1>2, <2>4
  <2>7. IsTail(h, t, Len(h) - n)
    BY <2>5, <2>6 DEF IsTail
  <2>8. t \in Seq(S) /\ Len(t) <= n
    BY <2>3, <2>4
  <2> HIDE DEF m
  <2> QED BY <1>2, <2>1, <2>6, <2>7, <2>8
<1> QED BY <1>1, <1>2

LEMMA WithoutFacts ==
    ASSUME NEW S, NEW h \in Seq(S), NEW i \in 1 .. Len(h)
    PROVE  /\ Without(h, i) \in Seq(S)
           /\ Len(Without(h, i)) = Len(h) - 1
           /\ \A p \in 1 .. Len(h) - 1 : Without(h, i)[p] = h[IF p < i THEN p ELSE p + 1]
<1> DEFINE front == SubSeq(h, 1, i - 1)
           back  == SubSeq(h, i + 1, Len(h))
<1>0. i \in Nat /\ 1 <= i /\ i <= Len(h) /\ Len(h) \in Nat
  OBVIOUS
<1>1. front \in Seq(S) /\ Len(front) = i - 1 /\ \A p \in 1 .. i - 1 : front[p] = h[p]
  <2>1. \A p \in 1 .. i - 1 : h[p] \in S
    BY <1>0
  <2>2. /\ front \in Seq(S) /\ Len(front) = IF 1 <= i - 1 THEN (i - 1) - 1 + 1 ELSE 0
        /\ \A p \in 1 .. (i - 1) - 1 + 1 : front[p] = h[1 + p - 1]
    BY <1>0, <2>1, SubSeqProperties
  <2> HIDE DEF front
  <2> QED BY <1>0, <2>2
<1>2. back \in Seq(S) /\ Len(back) = Len(h) - i /\ \A p \in 1 .. Len(h) - i : back[p] = h[p + i]
  <2>1. \A p \in i + 1 .. Len(h) : h[p] \in S
    BY <1>0
  <2>2. /\ back \in Seq(S)
        /\ Len(back) = IF i + 1 <= Len(h) THEN Len(h) - (i + 1) + 1 ELSE 0
        /\ \A p \in 1 .. Len(h) - (i + 1) + 1 : back[p] = h[(i + 1) + p - 1]
    BY <1>0, <2>1, SubSeqProperties
  <2> HIDE DEF back
  <2>3. Len(h) - (i + 1) + 1 = Len(h) - i /\ Len(back) = Len(h) - i
    BY <1>0, <2>2
  <2>4. \A p \in 1 .. Len(h) - i : (i + 1) + p - 1 = p + i
    BY <1>0
  <2> QED BY <2>2, <2>3, <2>4
<1>3. Without(h, i) = front \o back
  BY <1>0 DEF Without
<1> HIDE DEF front, back
<1>4. /\ front \o back \in Seq(S)
      /\ Len(front \o back) = Len(front) + Len(back)
      /\ \A p \in 1 .. Len(front) + Len(back) :
            (front \o back)[p] = IF p <= Len(front) THEN front[p] ELSE back[p - Len(front)]
  BY <1>1, <1>2, ConcatProperties
<1>5. Len(front) + Len(back) = Len(h) - 1
  BY <1>0, <1>1, <1>2
<1>6. ASSUME NEW p \in 1 .. Len(h) - 1, p < i PROVE (front \o back)[p] = h[p]
  <2>1. p <= Len(front) /\ p \in 1 .. i - 1
    BY <1>0, <1>1, <1>6
  <2> QED BY <1>1, <1>4, <1>5, <2>1
<1>7. ASSUME NEW p \in 1 .. Len(h) - 1, ~(p < i) PROVE (front \o back)[p] = h[p + 1]
  <2>1. ~(p <= Len(front)) /\ p - Len(front) \in 1 .. Len(h) - i
    BY <1>0, <1>1, <1>7
  <2>2. (p - Len(front)) + i = p + 1
    BY <1>0, <1>1
  <2>3. (front \o back)[p] = back[p - Len(front)]
    BY <1>4, <1>5, <2>1
  <2> QED BY <1>2, <2>1, <2>2, <2>3
<1> QED BY <1>3, <1>4, <1>5, <1>6, <1>7

LEMMA WithoutType ==
    ASSUME NEW S, NEW h \in Seq(S), NEW i \in Nat \ {0}
    PROVE  Without(h, i) \in Seq(S)
<1>1. CASE i <= Len(h)
  BY <1>1, WithoutFacts
<1>2. CASE ~(i <= Len(h))
  BY <1>2 DEF Without
<1> QED BY <1>1, <1>2

------------------------------------------------------------------------------
(* What the callers await *)

Running == [at : {"run"}, cmd : Doable, undo : CommandType \union {NoUndo}]
Ran     == [at : {"ran"}, cmd : Doable, undo : CommandType \union {NoUndo}, before : FileSystems]
Undoing == [at : {"undoing", "undone"}, entry : Entries, index : Nat \ {0}, moved : BOOLEAN]

LEMMA JobFacts ==
    ASSUME NEW j \in Jobs
    PROVE  /\ j.at = "idle" <=> j = Idle
           /\ j.at = "run" => j \in Running
           /\ j.at = "ran" => j \in Ran
           /\ j.at \in {"undoing", "undone"} => j \in Undoing
BY DEF Jobs, Idle, Running, Ran, Undoing

LEMMA JobKinds ==
    /\ Idle \in Jobs /\ Idle.at = "idle"
    /\ \A j : j \in Running \/ j \in Ran \/ j \in Undoing => j \in Jobs
BY DEF Jobs, Idle, Running, Ran, Undoing

\* An undo that is under way keeps all but the mark that its entry has moved
LEMMA KeepsPlaceFacts ==
    ASSUME NEW j \in Jobs, NEW h
    PROVE  /\ KeepsPlace(j, h) \in Jobs
           /\ KeepsPlace(j, h).at = j.at
           /\ j.at \notin {"undoing", "undone"} => KeepsPlace(j, h) = j
           /\ j.at \in {"undoing", "undone"} =>
                 /\ KeepsPlace(j, h).entry = j.entry /\ KeepsPlace(j, h).index = j.index
                 /\ ~KeepsPlace(j, h).moved => /\ ~j.moved
                                               /\ j.index <= Len(h) /\ h[j.index] = j.entry
<1>1. CASE j.at \in {"undoing", "undone"}
  <2> DEFINE m == j.moved \/ ~(j.index <= Len(h) /\ h[j.index] = j.entry)
  <2>1. j \in Undoing
    BY <1>1, JobFacts
  <2>2. KeepsPlace(j, h) = [j EXCEPT !.moved = m]
    BY <1>1 DEF KeepsPlace
  <2>3. m \in BOOLEAN
    OBVIOUS
  <2> HIDE DEF m
  <2>4. /\ [j EXCEPT !.moved = m] \in Undoing /\ [j EXCEPT !.moved = m].at = j.at
        /\ [j EXCEPT !.moved = m].entry = j.entry /\ [j EXCEPT !.moved = m].index = j.index
        /\ [j EXCEPT !.moved = m].moved = m
    BY <2>1, <2>3 DEF Undoing
  <2>5. ~m => ~j.moved /\ j.index <= Len(h) /\ h[j.index] = j.entry
    BY DEF m
  <2> QED BY <1>1, <2>2, <2>4, <2>5, JobKinds
<1>2. CASE j.at \notin {"undoing", "undone"}
  <2>1. KeepsPlace(j, h) = j
    BY <1>2 DEF KeepsPlace
  <2> QED BY <1>2, <2>1
<1> QED BY <1>1, <1>2


------------------------------------------------------------------------------
(* Types *)

LEMMA InitType == Init => TypeOK
BY UndoAssumption, JobKinds DEF Init, TypeOK

LEMMA LimitFacts == \A n \in Limits : n \in Nat
BY UndoAssumption

\* What is recorded: nothing, or a new entry before the history is cut
NewEntry(c) ==
    [id |-> idCounter + 1, cmd |-> job[c].cmd, undo |-> job[c].undo, before |-> job[c].before]

LEMMA RecordFacts ==
    ASSUME TypeOK, NEW c \in Callers, Record(c)
    PROVE  /\ job[c] \in Ran
           /\ \/ history' = history /\ idCounter' = idCounter /\ (job[c].undo = NoUndo \/ limit = 0)
              \/ /\ job[c].undo # NoUndo /\ limit # 0
                 /\ NewEntry(c) \in Entries
                 /\ Append(history, NewEntry(c)) \in Seq(Entries)
                 /\ history' = Newest(Append(history, NewEntry(c)), limit)
                 /\ idCounter' = idCounter + 1
<1>1. job[c] \in Ran
  <2>1. job[c] \in Jobs /\ job[c].at = "ran"
    BY DEF TypeOK, Record
  <2> QED BY <2>1, JobFacts
<1>2. CASE job[c].undo = NoUndo \/ limit = 0
  BY <1>1, <1>2 DEF Record, AddEntry
<1>3. CASE job[c].undo # NoUndo /\ limit # 0
  <2>1. history' = Newest(Append(history, NewEntry(c)), limit) /\ idCounter' = idCounter + 1
    BY <1>3 DEF Record, AddEntry, NewEntry
  <2>2. idCounter + 1 \in Nat \ {0}
    BY DEF TypeOK
  <2>3. job[c].cmd \in Doable /\ job[c].undo \in CommandType /\ job[c].before \in FileSystems
    BY <1>1, <1>3 DEF Ran
  <2>4. NewEntry(c) \in Entries
    BY <2>2, <2>3 DEF NewEntry, Entries
  <2>5. history \in Seq(Entries)
    BY DEF TypeOK
  <2>6. Append(history, NewEntry(c)) \in Seq(Entries)
    BY <2>4, <2>5, AppendProperties
  <2> QED BY <1>1, <1>3, <2>1, <2>4, <2>6
<1> QED BY <1>2, <1>3

\* The marks of the undos that are under way
LEMMA MarksType ==
    ASSUME TypeOK, NEW h
    PROVE  /\ [d \in Callers |-> KeepsPlace(job[d], h)] \in [Callers -> Jobs]
           /\ \A c \in Callers : [d \in Callers |-> IF d = c THEN Idle ELSE KeepsPlace(job[d], h)]
                                     \in [Callers -> Jobs]
<1>1. \A d \in Callers : KeepsPlace(job[d], h) \in Jobs
  BY KeepsPlaceFacts DEF TypeOK
<1> QED BY <1>1, JobKinds

LEMMA CleanType ==
    ASSUME NEW ok, Cleanly(ok)
    PROVE  clean' \in BOOLEAN
BY DEF Cleanly

LEMMA ExecuteType ==
    ASSUME TypeOK, NEW c \in Callers, NEW cmd \in Commands, NEW w \in Cwds, Execute(c, cmd, w)
    PROVE  TypeOK'
<1>1. started' \in 0 .. MaxCommands
  BY UndoAssumption DEF TypeOK, Execute
<1>2. UndoOf(cmd, fs, tracking) \in CommandType \union {NoUndo}
  BY InType, UndoType DEF TypeOK
<1>3. [at |-> "run", cmd |-> In(w, cmd), undo |-> UndoOf(cmd, fs, tracking)] \in Jobs
  BY <1>2, InType, JobKinds DEF Running
<1>4. job' \in [Callers -> Jobs]
  BY <1>3 DEF TypeOK, Execute
<1>5. clean' \in BOOLEAN
  BY CleanType DEF Execute
<1> QED BY <1>1, <1>4, <1>5 DEF TypeOK, Execute

LEMMA RunType ==
    ASSUME TypeOK, NEW c \in Callers, RunEnds(c) \/ TimeOut(c)
    PROVE  TypeOK' /\ job[c] \in Running
<1>1. job[c] \in Running
  <2>1. job[c] \in Jobs /\ job[c].at = "run"
    BY DEF TypeOK, RunEnds, TimeOut
  <2> QED BY <2>1, JobFacts
<1>2. job[c].cmd \in Doable /\ job[c].undo \in CommandType \union {NoUndo}
  BY <1>1 DEF Running
<1>3. fs \in FileSystems
  BY DEF TypeOK
<1>4. Succeeds(job[c].cmd, fs) => Effect(job[c].cmd, fs) \in FileSystems
  BY <1>2, <1>3, CommandsTyped, EffectType
<1>5. fs' \in FileSystems
  BY <1>3, <1>4 DEF RunEnds, TimeOut
<1>6. [at |-> "ran", cmd |-> job[c].cmd, undo |-> job[c].undo, before |-> fs] \in Jobs
  BY <1>2, <1>3, JobKinds DEF Ran
<1>7. job' \in [Callers -> Jobs]
  BY <1>6, JobKinds DEF TypeOK, RunEnds, TimeOut
<1>8. clean' \in BOOLEAN
  BY CleanType DEF RunEnds, TimeOut
<1>9. history' = history /\ limit' = limit /\ tracking' = tracking /\ idCounter' = idCounter /\ started' = started
  BY DEF RunEnds, TimeOut
<1> QED BY <1>1, <1>5, <1>7, <1>8, <1>9 DEF TypeOK

LEMMA RecordType ==
    ASSUME TypeOK, NEW c \in Callers, Record(c)
    PROVE  TypeOK'
<1>1. history' \in Seq(Entries)
  <2>1. CASE history' = history
    BY <2>1 DEF TypeOK
  <2>2. CASE /\ Append(history, NewEntry(c)) \in Seq(Entries)
             /\ history' = Newest(Append(history, NewEntry(c)), limit)
    BY <2>2, NewestFacts, LimitFacts DEF TypeOK
  <2> QED BY <2>1, <2>2, RecordFacts
<1>2. idCounter' \in Nat
  BY RecordFacts DEF TypeOK
<1>3. job' \in [Callers -> Jobs]
  BY MarksType DEF Record
<1>4. clean' \in BOOLEAN
  BY CleanType DEF Record
<1>5. fs' = fs /\ limit' = limit /\ tracking' = tracking /\ started' = started
  BY DEF Record
<1> QED BY <1>1, <1>2, <1>3, <1>4, <1>5 DEF TypeOK

LEMMA UndoStartType ==
    ASSUME TypeOK, NEW c \in Callers, NEW i \in 1 .. Len(history), Undo(c, i)
    PROVE  TypeOK'
<1>1. history \in Seq(Entries) /\ history[i] \in Entries /\ i \in Nat \ {0}
  BY DEF TypeOK
<1>2. [at |-> "undoing", entry |-> history[i], index |-> i, moved |-> FALSE] \in Undoing
  BY <1>1 DEF Undoing
<1>3. [at |-> "undoing", entry |-> history[i], index |-> i, moved |-> FALSE] \in Jobs
  BY <1>2, JobKinds
<1>4. job' \in [Callers -> Jobs]
  BY <1>3 DEF TypeOK, Undo
<1>5. clean' \in BOOLEAN
  BY CleanType DEF Undo
<1> QED BY <1>4, <1>5 DEF TypeOK, Undo

LEMMA UndoingFacts ==
    ASSUME TypeOK, NEW c \in Callers, job[c].at \in {"undoing", "undone"}
    PROVE  /\ job[c] \in Undoing
           /\ job[c].entry \in Entries /\ job[c].index \in Nat \ {0} /\ job[c].moved \in BOOLEAN
           /\ job[c].entry.undo \in CommandType /\ job[c].entry.before \in FileSystems
           /\ job[c].entry.cmd \in Doable
<1>1. job[c] \in Jobs
  BY DEF TypeOK
<1>2. job[c] \in Undoing
  BY <1>1, JobFacts
<1>3. job[c].entry \in Entries /\ job[c].index \in Nat \ {0} /\ job[c].moved \in BOOLEAN
  BY <1>2 DEF Undoing
<1> QED BY <1>2, <1>3 DEF Entries

LEMMA UndoRunsType ==
    ASSUME TypeOK, NEW c \in Callers, UndoRuns(c)
    PROVE  TypeOK'
<1>1. /\ job[c] \in Undoing
      /\ job[c].entry.undo \in CommandType
  BY UndoingFacts DEF UndoRuns
<1>2. fs' \in FileSystems
  BY <1>1, EffectType DEF TypeOK, UndoRuns
<1>3. [job[c] EXCEPT !.at = "undone"] \in Jobs
  <2>1. [job[c] EXCEPT !.at = "undone"] \in Undoing
    BY <1>1 DEF Undoing
  <2> QED BY <2>1, JobKinds
<1>4. job' \in [Callers -> Jobs]
  BY <1>3, JobKinds DEF TypeOK, UndoRuns
<1>5. clean' \in BOOLEAN
  BY CleanType DEF UndoRuns
<1>6. history' = history /\ limit' = limit /\ tracking' = tracking /\ idCounter' = idCounter /\ started' = started
  BY DEF UndoRuns
<1> QED BY <1>2, <1>4, <1>5, <1>6 DEF TypeOK

LEMMA UndoEndsType ==
    ASSUME TypeOK, NEW c \in Callers, UndoEnds(c)
    PROVE  TypeOK'
<1>1. history' \in Seq(Entries)
  BY UndoingFacts, WithoutType DEF TypeOK, UndoEnds
<1>2. job' \in [Callers -> Jobs]
  BY MarksType DEF UndoEnds
<1>3. clean' \in BOOLEAN
  BY CleanType DEF UndoEnds
<1> QED BY <1>1, <1>2, <1>3 DEF TypeOK, UndoEnds

LEMMA ClearType ==
    ASSUME TypeOK, ClearHistory
    PROVE  TypeOK'
<1>1. history' \in Seq(Entries)
  BY DEF ClearHistory
<1>2. job' \in [Callers -> Jobs]
  BY MarksType DEF ClearHistory
<1>3. clean' \in BOOLEAN
  BY CleanType DEF ClearHistory
<1> QED BY <1>1, <1>2, <1>3 DEF TypeOK, ClearHistory

LEMMA LimitType ==
    ASSUME TypeOK, NEW n \in Limits, SetLimit(n)
    PROVE  TypeOK'
<1>1. history' \in Seq(Entries)
  BY NewestFacts, LimitFacts DEF TypeOK, SetLimit
<1>2. job' \in [Callers -> Jobs]
  BY MarksType DEF SetLimit
<1>3. clean' \in BOOLEAN
  BY CleanType DEF SetLimit
<1> QED BY <1>1, <1>2, <1>3 DEF TypeOK, SetLimit

LEMMA TypeStep == TypeOK /\ [Next]_vars => TypeOK'
<1> SUFFICES ASSUME TypeOK, [Next]_vars PROVE TypeOK'
  OBVIOUS
<1>1. ASSUME NEW c \in Callers, NEW cmd \in Commands, NEW w \in Cwds, Execute(c, cmd, w) PROVE TypeOK'
  BY <1>1, ExecuteType
<1>2. ASSUME NEW c \in Callers, NEW i \in 1 .. Len(history), Undo(c, i) PROVE TypeOK'
  BY <1>2, UndoStartType
<1>3. ASSUME NEW c \in Callers, RunEnds(c) \/ TimeOut(c) PROVE TypeOK'
  BY <1>3, RunType
<1>4. ASSUME NEW c \in Callers, Record(c) PROVE TypeOK'
  BY <1>4, RecordType
<1>5. ASSUME NEW c \in Callers, UndoRuns(c) PROVE TypeOK'
  BY <1>5, UndoRunsType
<1>6. ASSUME NEW c \in Callers, UndoEnds(c) PROVE TypeOK'
  BY <1>6, UndoEndsType
<1>7. CASE ClearHistory
  BY <1>7, ClearType
<1>8. ASSUME NEW n \in Limits, SetLimit(n) PROVE TypeOK'
  BY <1>8, LimitType
<1>9. ASSUME NEW b \in BOOLEAN, SetTracking(b) PROVE TypeOK'
  BY <1>9 DEF SetTracking, TypeOK
<1>10. CASE UNCHANGED vars
  BY <1>10 DEF vars, TypeOK
<1> QED BY <1>1, <1>2, <1>3, <1>4, <1>5, <1>6, <1>7, <1>8, <1>9, <1>10 DEF Next

\* Every state is of its type: what is prepared, recorded and undone are
\* commands, and a command that succeeds keeps the file system in order.
THEOREM TypeCorrect == Spec => []TypeOK
BY InitType, TypeStep, PTL DEF Spec

------------------------------------------------------------------------------
(* The order of the history *)

\* The part of HistoryInOrder about the ids
InOrder(h, last) ==
    /\ \A i \in 1 .. Len(h) : h[i].id <= last
    /\ \A i, j \in 1 .. Len(h) : i < j => h[i].id < h[j].id

LEMMA Ids ==
    ASSUME NEW h \in Seq(Entries), NEW i \in 1 .. Len(h)
    PROVE  h[i] \in Entries /\ h[i].id \in Nat \ {0}
<1>1. h[i] \in Entries
  OBVIOUS
<1> QED BY <1>1 DEF Entries

LEMMA AppendInOrder ==
    ASSUME NEW h \in Seq(Entries), NEW e \in Entries, NEW k \in Nat, InOrder(h, k), e.id = k + 1
    PROVE  InOrder(Append(h, e), k + 1)
<1> DEFINE t == Append(h, e)
<1>1. t \in Seq(Entries) /\ Len(t) = Len(h) + 1 /\ t[Len(h) + 1] = e /\ \A i \in 1 .. Len(h) : t[i] = h[i]
  BY AppendProperties
<1> HIDE DEF t
<1>2. Len(h) \in Nat
  OBVIOUS
<1>3. ASSUME NEW i \in 1 .. Len(t) PROVE t[i].id <= k + 1 /\ (i # Len(t) => t[i].id <= k)
  <2>1. CASE i = Len(h) + 1
    BY <1>1, <1>2, <2>1
  <2>2. CASE i # Len(h) + 1
    <3>1. i \in 1 .. Len(h)
      BY <1>1, <1>2, <2>2
    <3>2. t[i] = h[i] /\ h[i].id <= k /\ h[i].id \in Nat
      BY <1>1, <3>1, Ids DEF InOrder
    <3> QED BY <3>2
  <2> QED BY <2>1, <2>2
<1>4. ASSUME NEW i \in 1 .. Len(t), NEW j \in 1 .. Len(t), i < j PROVE t[i].id < t[j].id
  <2>1. i \in 1 .. Len(h) /\ t[i] = h[i]
    BY <1>1, <1>2, <1>4
  <2>2. h[i].id \in Nat /\ h[i].id <= k
    BY <2>1, Ids DEF InOrder
  <2>3. CASE j = Len(h) + 1
    BY <1>1, <2>1, <2>2, <2>3
  <2>4. CASE j # Len(h) + 1
    <3>1. j \in 1 .. Len(h) /\ t[j] = h[j]
      BY <1>1, <1>2, <2>4
    <3> QED BY <1>4, <2>1, <3>1 DEF InOrder
  <2> QED BY <2>3, <2>4
<1> QED BY <1>3, <1>4 DEF InOrder, t

LEMMA NewestInOrder ==
    ASSUME NEW h \in Seq(Entries), NEW n \in Nat, NEW last, InOrder(h, last)
    PROVE  InOrder(Newest(h, n), last)
<1> DEFINE t == Newest(h, n)
<1>1. PICK k \in Nat : IsTail(h, Newest(h, n), k)
  BY NewestFacts
<1>0. /\ Len(t) + k = Len(h)
      /\ \A i \in 1 .. Len(t) : i + k \in 1 .. Len(h) /\ t[i] = h[i + k]
  BY <1>1 DEF IsTail
<1> HIDE DEF t
<1>2. \A i \in 1 .. Len(t) : t[i].id <= last
  BY <1>0 DEF InOrder
<1>3. \A i, j \in 1 .. Len(t) : i < j => t[i].id < t[j].id
  <2> SUFFICES ASSUME NEW i \in 1 .. Len(t), NEW j \in 1 .. Len(t), i < j PROVE t[i].id < t[j].id
    OBVIOUS
  <2>1. i + k < j + k /\ i + k \in 1 .. Len(h) /\ j + k \in 1 .. Len(h)
    BY <1>0
  <2>2. h[i + k].id < h[j + k].id
    BY <2>1 DEF InOrder
  <2> QED BY <1>0, <2>2
<1> QED BY <1>2, <1>3 DEF InOrder, t

LEMMA WithoutInOrder ==
    ASSUME NEW h \in Seq(Entries), NEW x \in Nat \ {0}, NEW last, InOrder(h, last)
    PROVE  InOrder(Without(h, x), last)
<1>1. CASE ~(x <= Len(h))
  BY <1>1 DEF Without
<1>2. CASE x <= Len(h)
  <2> DEFINE t == Without(h, x)
             at(p) == IF p < x THEN p ELSE p + 1
  <2>1. /\ Len(h) \in Nat /\ Len(t) = Len(h) - 1
        /\ \A p \in 1 .. Len(h) - 1 : t[p] = h[at(p)]
    BY <1>2, WithoutFacts
  <2>2. \A p \in 1 .. Len(h) - 1 : at(p) \in 1 .. Len(h)
    BY <2>1
  <2>3. \A p, q \in 1 .. Len(h) - 1 : p < q => at(p) < at(q)
    OBVIOUS
  <2> HIDE DEF t, at
  <2>4. \A p \in 1 .. Len(t) : t[p].id <= last
    BY <2>1, <2>2 DEF InOrder
  <2>5. \A p, q \in 1 .. Len(t) : p < q => t[p].id < t[q].id
    BY <2>1, <2>2, <2>3 DEF InOrder
  <2> QED BY <2>4, <2>5 DEF InOrder, t
<1> QED BY <1>1, <1>2

LEMMA OrderIs == HistoryInOrder <=> Len(history) <= limit /\ InOrder(history, idCounter)
BY DEF HistoryInOrder, InOrder

\* How a step may change the history
LEMMA HistorySteps ==
    ASSUME TypeOK, [Next]_vars
    PROVE  \/ history' = history /\ idCounter' = idCounter /\ limit' = limit
           \/ \E c \in Callers : Record(c)
           \/ \E c \in Callers : UndoEnds(c)
           \/ history' = <<>> /\ idCounter' = idCounter /\ limit' = limit
           \/ \E n \in Limits : history' = Newest(history, n) /\ idCounter' = idCounter /\ limit' = n
BY DEF Next, Execute, Undo, RunEnds, TimeOut, UndoRuns, ClearHistory, SetLimit, SetTracking, vars

LEMMA OrderStep == TypeOK /\ HistoryInOrder /\ [Next]_vars => HistoryInOrder'
<1> SUFFICES ASSUME TypeOK, HistoryInOrder, [Next]_vars
             PROVE  Len(history') <= limit' /\ InOrder(history', idCounter')
  BY DEF HistoryInOrder, InOrder
<1>0. /\ history \in Seq(Entries) /\ Len(history) \in Nat /\ limit \in Nat /\ idCounter \in Nat
      /\ Len(history) <= limit /\ InOrder(history, idCounter)
  BY LimitFacts, OrderIs DEF TypeOK
<1>1. CASE history' = history /\ idCounter' = idCounter /\ limit' = limit
  BY <1>0, <1>1
<1>2. ASSUME NEW c \in Callers, Record(c) PROVE Len(history') <= limit' /\ InOrder(history', idCounter')
  <2>1. limit' = limit
    BY <1>2 DEF Record
  <2>2. CASE history' = history /\ idCounter' = idCounter
    BY <1>0, <2>1, <2>2
  <2>3. CASE /\ NewEntry(c) \in Entries
             /\ history' = Newest(Append(history, NewEntry(c)), limit)
             /\ idCounter' = idCounter + 1
    <3>1. NewEntry(c).id = idCounter + 1
      BY DEF NewEntry
    <3>2. Append(history, NewEntry(c)) \in Seq(Entries)
      BY <1>0, <2>3, AppendProperties
    <3>3. InOrder(Append(history, NewEntry(c)), idCounter + 1)
      BY <1>0, <2>3, <3>1, AppendInOrder
    <3> QED BY <1>0, <2>1, <2>3, <3>2, <3>3, NewestInOrder, NewestFacts
  <2> QED BY <1>2, <2>2, <2>3, RecordFacts
<1>3. ASSUME NEW c \in Callers, UndoEnds(c) PROVE Len(history') <= limit' /\ InOrder(history', idCounter')
  <2>1. /\ history' = Without(history, job[c].index) /\ limit' = limit /\ idCounter' = idCounter
        /\ job[c].at = "undone"
    BY <1>3 DEF UndoEnds
  <2>2. job[c].index \in Nat \ {0}
    BY <2>1, UndoingFacts
  <2>3. InOrder(history', idCounter')
    BY <1>0, <2>1, <2>2, WithoutInOrder
  <2>4. CASE job[c].index <= Len(history)
    <3>1. job[c].index \in 1 .. Len(history)
      BY <1>0, <2>2, <2>4
    <3>2. Len(history') = Len(history) - 1
      BY <1>0, <2>1, <3>1, WithoutFacts
    <3> QED BY <1>0, <2>1, <2>3, <3>2
  <2>5. CASE ~(job[c].index <= Len(history))
    BY <1>0, <2>1, <2>3, <2>5 DEF Without
  <2> QED BY <2>4, <2>5
<1>4. CASE history' = <<>> /\ idCounter' = idCounter /\ limit' = limit
  BY <1>0, <1>4 DEF InOrder
<1>5. ASSUME NEW n \in Limits, history' = Newest(history, n), idCounter' = idCounter, limit' = n
      PROVE  Len(history') <= limit' /\ InOrder(history', idCounter')
  BY <1>0, <1>5, NewestInOrder, NewestFacts, LimitFacts
<1> QED BY <1>1, <1>2, <1>3, <1>4, <1>5, HistorySteps

LEMMA OrderInit == Init => HistoryInOrder
BY LimitFacts DEF Init, HistoryInOrder

\* Whatever is recorded, cut and removed, by how many callers ever, the history
\* is in the order of its ids and no longer than its limit.
THEOREM AlwaysInOrder == Spec => []HistoryInOrder
BY InitType, TypeStep, OrderInit, OrderStep, PTL DEF Spec

------------------------------------------------------------------------------
(* An undo removes its own entry *)

\* While nothing has moved its entry, an undo finds it where it was
InPlace ==
    \A c \in Callers :
        job[c].at \in {"undoing", "undone"} /\ ~job[c].moved =>
            job[c].index <= Len(history) /\ history[job[c].index] = job[c].entry

LEMMA PlaceInit == Init => InPlace
BY JobKinds DEF Init, InPlace

\* Whoever changes the history looks where the entries are
LEMMA MarkedInPlace ==
    ASSUME TypeOK, NEW D \in SUBSET Callers, NEW h,
           job' = [d \in Callers |-> IF d \in D THEN Idle ELSE KeepsPlace(job[d], h)], history' = h
    PROVE  InPlace'
<1> SUFFICES ASSUME NEW c \in Callers, job'[c].at \in {"undoing", "undone"}, ~job'[c].moved
             PROVE  job'[c].index <= Len(h) /\ h[job'[c].index] = job'[c].entry
  BY DEF InPlace
<1>1. c \notin D /\ job'[c] = KeepsPlace(job[c], h)
  BY JobKinds
<1>2. job[c] \in Jobs
  BY DEF TypeOK
<1> DEFINE k == KeepsPlace(job[c], h)
<1>3. /\ k.at = job[c].at
      /\ k.at \in {"undoing", "undone"} =>
            /\ k.entry = job[c].entry /\ k.index = job[c].index
            /\ ~k.moved => job[c].index <= Len(h) /\ h[job[c].index] = job[c].entry
  BY <1>2, KeepsPlaceFacts
<1> HIDE DEF k
<1>4. job'[c] = k
  BY <1>1 DEF k
<1> QED BY <1>3, <1>4

LEMMA PlaceStep == TypeOK /\ InPlace /\ [Next]_vars => InPlace'
<1> SUFFICES ASSUME TypeOK, InPlace, [Next]_vars PROVE InPlace'
  OBVIOUS
<1>0. job \in [Callers -> Jobs] /\ history \in Seq(Entries) /\ Len(history) \in Nat
  BY DEF TypeOK
<1>1. ASSUME NEW c \in Callers, NEW cmd \in Commands, NEW w \in Cwds, Execute(c, cmd, w) PROVE InPlace'
  <2>1. history' = history
    BY <1>1 DEF Execute
  <2>2. job'[c] = job[c] \/ job'[c].at = "run"
    BY <1>0, <1>1 DEF Execute
  <2>3. \A d \in Callers : d # c => job'[d] = job[d]
    BY <1>0, <1>1 DEF Execute
  <2> QED BY <2>1, <2>2, <2>3 DEF InPlace
<1>2. ASSUME NEW c \in Callers, NEW i \in 1 .. Len(history), Undo(c, i) PROVE InPlace'
  <2>1. job' = [job EXCEPT ![c] =
                   [at |-> "undoing", entry |-> history[i], index |-> i, moved |-> FALSE]]
        /\ history' = history
    BY <1>2 DEF Undo
  <2>2. job'[c].index = i /\ job'[c].entry = history[i]
    BY <1>0, <2>1
  <2>3. \A d \in Callers : d # c => job'[d] = job[d]
    BY <1>0, <2>1
  <2>4. i <= Len(history)
    BY <1>0
  <2> QED BY <2>1, <2>2, <2>3, <2>4 DEF InPlace
<1>3. ASSUME NEW c \in Callers, RunEnds(c) \/ TimeOut(c) PROVE InPlace'
  <2>1. job'[c].at \in {"idle", "ran"}
    BY <1>0, <1>3 DEF RunEnds, TimeOut, Idle
  <2>2. \A d \in Callers : d # c => job'[d] = job[d]
    BY <1>0, <1>3 DEF RunEnds, TimeOut
  <2>3. history' = history
    BY <1>3 DEF RunEnds, TimeOut
  <2> QED BY <2>1, <2>2, <2>3 DEF InPlace
<1>4. ASSUME NEW c \in Callers, Record(c) \/ UndoEnds(c) PROVE InPlace'
  <2>1. job' = [d \in Callers |-> IF d \in {c} THEN Idle ELSE KeepsPlace(job[d], history')]
    BY <1>4 DEF Record, UndoEnds
  <2> QED BY <2>1, MarkedInPlace
<1>5. ASSUME NEW c \in Callers, UndoRuns(c) PROVE InPlace'
  <2>1. job[c] \in Undoing
    BY <1>5, UndoingFacts DEF UndoRuns
  <2>2. \/ job'[c].at = "idle"
        \/ job'[c] = [job[c] EXCEPT !.at = "undone"]
    BY <1>0, <1>5 DEF UndoRuns, Idle
  <2>3. \A d \in Callers : d # c => job'[d] = job[d]
    BY <1>0, <1>5 DEF UndoRuns
  <2>4. history' = history /\ job[c].at = "undoing"
    BY <1>5 DEF UndoRuns
  <2>5. CASE job'[c].at = "idle"
    BY <2>3, <2>4, <2>5 DEF InPlace
  <2>6. CASE job'[c] = [job[c] EXCEPT !.at = "undone"]
    <3>1. /\ job'[c].index = job[c].index /\ job'[c].entry = job[c].entry
          /\ job'[c].moved = job[c].moved
      BY <2>1, <2>6 DEF Undoing
    <3> QED BY <2>3, <2>4, <3>1 DEF InPlace
  <2> QED BY <2>2, <2>5, <2>6
<1>6. ASSUME ClearHistory \/ \E n \in Limits : SetLimit(n) PROVE InPlace'
  <2>1. job' = [d \in Callers |-> KeepsPlace(job[d], history')]
    BY <1>6 DEF ClearHistory, SetLimit
  <2>2. job' = [d \in Callers |-> IF d \in {} THEN Idle ELSE KeepsPlace(job[d], history')]
    BY <2>1
  <2>3. {} \in SUBSET Callers
    OBVIOUS
  <2> QED BY <2>2, <2>3, MarkedInPlace
<1>7. ASSUME UNCHANGED vars \/ \E b \in BOOLEAN : SetTracking(b) PROVE InPlace'
  BY <1>7 DEF SetTracking, vars, InPlace
<1> QED BY <1>1, <1>2, <1>3, <1>4, <1>5, <1>6, <1>7 DEF Next

\* Only its own last step takes an undo to its end
LEMMA OnlyUndoEnds ==
    ASSUME TypeOK, [Next]_vars, NEW c \in Callers, job[c].at = "undone", job'[c] = Idle
    PROVE  UndoEnds(c)
<1>0. job \in [Callers -> Jobs]
  BY DEF TypeOK
<1>1. job[c] # Idle /\ job'[c].at = "idle"
  BY <1>0, JobKinds
<1>2. \A h : KeepsPlace(job[c], h).at = "undone"
  BY <1>0, KeepsPlaceFacts
<1>3. ASSUME NEW d \in Callers,
             \/ \E cmd \in Commands, w \in Cwds : Execute(d, cmd, w)
             \/ \E i \in 1 .. Len(history) : Undo(d, i)
             \/ RunEnds(d) \/ TimeOut(d) \/ UndoRuns(d)
      PROVE  FALSE
  <2>1. job[d].at \in {"run", "undoing"} \/ job[d] = Idle
    BY <1>3 DEF Execute, Undo, RunEnds, TimeOut, UndoRuns
  <2>2. d # c
    BY <1>1, <2>1
  <2>3. job'[c] = job[c]
    BY <1>0, <1>3, <2>2 DEF Execute, Undo, RunEnds, TimeOut, UndoRuns
  <2> QED BY <1>1, <2>3
<1>4. ASSUME NEW d \in Callers, Record(d) PROVE FALSE
  <2>1. d # c
    BY <1>4 DEF Record
  <2>2. job'[c] = KeepsPlace(job[c], history')
    BY <1>4, <2>1 DEF Record
  <2> QED BY <1>1, <1>2, <2>2
<1>5. ASSUME NEW d \in Callers, UndoEnds(d), d # c PROVE FALSE
  <2>1. job'[c] = KeepsPlace(job[c], history')
    BY <1>5 DEF UndoEnds
  <2> QED BY <1>1, <1>2, <2>1
<1>6. ASSUME ClearHistory \/ \E n \in Limits : SetLimit(n) PROVE FALSE
  <2>1. job'[c] = KeepsPlace(job[c], history')
    BY <1>6 DEF ClearHistory, SetLimit
  <2> QED BY <1>1, <1>2, <2>1
<1>7. ASSUME UNCHANGED vars \/ \E b \in BOOLEAN : SetTracking(b) PROVE FALSE
  BY <1>1, <1>7 DEF SetTracking, vars
<1> QED BY <1>3, <1>4, <1>5, <1>6, <1>7 DEF Next

\* Removing a place removes what is there, since no entry is there twice
LEMMA WithoutOne ==
    ASSUME NEW h \in Seq(Entries), NEW x \in 1 .. Len(h), NEW last, InOrder(h, last)
    PROVE  {Without(h, x)[i] : i \in DOMAIN Without(h, x)} = {h[i] : i \in DOMAIN h} \ {h[x]}
<1> DEFINE t == Without(h, x)
           at(p) == IF p < x THEN p ELSE p + 1
<1>1. /\ Len(h) \in Nat /\ t \in Seq(Entries) /\ Len(t) = Len(h) - 1
      /\ \A p \in 1 .. Len(h) - 1 : t[p] = h[at(p)]
  BY WithoutFacts
<1> HIDE DEF t
<1>2. DOMAIN t = 1 .. Len(h) - 1 /\ DOMAIN h = 1 .. Len(h)
  BY <1>1
<1>3. \A i, j \in 1 .. Len(h) : h[i] = h[j] => i = j
  <2> SUFFICES ASSUME NEW i \in 1 .. Len(h), NEW j \in 1 .. Len(h), h[i] = h[j] PROVE i = j
    OBVIOUS
  <2>1. h[i].id \in Nat /\ h[j].id = h[i].id
    BY Ids
  <2>2. ~(i < j) /\ ~(j < i)
    BY <2>1 DEF InOrder
  <2> QED BY <1>1, <2>2
<1>4. \A p \in 1 .. Len(h) - 1 : at(p) \in 1 .. Len(h) /\ at(p) # x
  BY <1>1
<1>5. \A i \in 1 .. Len(h) : i # x => \E p \in 1 .. Len(h) - 1 : at(p) = i
  <2> SUFFICES ASSUME NEW i \in 1 .. Len(h), i # x PROVE \E p \in 1 .. Len(h) - 1 : at(p) = i
    OBVIOUS
  <2>1. CASE i < x
    <3>1. i \in 1 .. Len(h) - 1 /\ at(i) = i
      BY <1>1, <2>1
    <3> QED BY <3>1
  <2>2. CASE ~(i < x)
    <3>1. i - 1 \in 1 .. Len(h) - 1 /\ at(i - 1) = i
      BY <1>1, <2>2
    <3> QED BY <3>1
  <2> QED BY <2>1, <2>2
<1> HIDE DEF at
<1>6. ASSUME NEW p \in 1 .. Len(h) - 1 PROVE t[p] \in {h[i] : i \in 1 .. Len(h)} \ {h[x]}
  BY <1>1, <1>3, <1>4
<1>7. ASSUME NEW i \in 1 .. Len(h), h[i] # h[x] PROVE h[i] \in {t[p] : p \in 1 .. Len(h) - 1}
  <2>1. PICK p \in 1 .. Len(h) - 1 : at(p) = i
    BY <1>5, <1>7
  <2> QED BY <1>1, <2>1
<1> QED BY <1>2, <1>6, <1>7 DEF t

LEMMA OwnEntryStep ==
    TypeOK /\ HistoryInOrder /\ InPlace /\ [Next]_vars =>
        \A c \in Callers :
          job[c].at = "undone" /\ job'[c] = Idle /\ ~job[c].moved =>
              {history'[i] : i \in DOMAIN history'} =
              {history[i] : i \in DOMAIN history} \ {job[c].entry}
<1> SUFFICES ASSUME TypeOK, HistoryInOrder, InPlace, [Next]_vars, NEW c \in Callers,
                    job[c].at = "undone", job'[c] = Idle, ~job[c].moved
             PROVE  {history'[i] : i \in DOMAIN history'} =
                    {history[i] : i \in DOMAIN history} \ {job[c].entry}
  OBVIOUS
<1>1. history' = Without(history, job[c].index)
  BY OnlyUndoEnds DEF UndoEnds
<1>2. job[c].index <= Len(history) /\ history[job[c].index] = job[c].entry
  BY DEF InPlace
<1>3. job[c].index \in Nat \ {0} /\ history \in Seq(Entries) /\ Len(history) \in Nat
  BY UndoingFacts DEF TypeOK
<1>4. job[c].index \in 1 .. Len(history)
  BY <1>2, <1>3
<1>5. InOrder(history, idCounter)
  BY OrderIs
<1>6. {Without(history, job[c].index)[i] : i \in DOMAIN Without(history, job[c].index)} =
      {history[i] : i \in DOMAIN history} \ {history[job[c].index]}
  BY <1>3, <1>4, <1>5, WithoutOne
<1> QED BY <1>1, <1>2, <1>6

\* An undo whose entry nothing moved removes that entry and no other, among any
\* number of callers.
THEOREM OwnEntryAlwaysLeaves == Spec => OwnEntryLeaves
<1>1. TypeOK /\ HistoryInOrder /\ InPlace /\ [Next]_vars => InPlace'
  BY PlaceStep
<1>2. Init => InPlace
  BY PlaceInit
<1>3. Spec => [](TypeOK /\ HistoryInOrder /\ InPlace)
  BY <1>1, <1>2, InitType, TypeStep, OrderInit, OrderStep, PTL DEF Spec
<1>4. TypeOK /\ HistoryInOrder /\ InPlace /\ [Next]_vars =>
        [\A c \in Callers :
          job[c].at = "undone" /\ job'[c] = Idle /\ ~job[c].moved =>
              {history'[i] : i \in DOMAIN history'} =
              {history[i] : i \in DOMAIN history} \ {job[c].entry}]_vars
  BY OwnEntryStep
<1> QED BY <1>3, <1>4, PTL DEF Spec, OwnEntryLeaves

------------------------------------------------------------------------------
(* An undo restores *)

\* No step brings an entry into the history but the record of a command
LEMMA EntriesStay ==
    ASSUME TypeOK, [Next]_vars, NEW i \in 1 .. Len(history')
    PROVE  \/ \E p \in 1 .. Len(history) : history'[i] = history[p]
           \/ \E c \in Callers : Record(c) /\ job[c] \in Ran /\ history'[i] = NewEntry(c)
<1>0. history \in Seq(Entries) /\ Len(history) \in Nat /\ limit \in Nat
  BY LimitFacts DEF TypeOK
<1>1. CASE history' = history
  BY <1>1
<1>2. ASSUME NEW c \in Callers, Record(c), history' # history
      PROVE  \/ \E p \in 1 .. Len(history) : history'[i] = history[p]
             \/ Record(c) /\ job[c] \in Ran /\ history'[i] = NewEntry(c)
  <2>1. /\ NewEntry(c) \in Entries /\ job[c] \in Ran
        /\ history' = Newest(Append(history, NewEntry(c)), limit)
    BY <1>2, RecordFacts
  <2> DEFINE h == Append(history, NewEntry(c))
  <2>2. /\ h \in Seq(Entries) /\ Len(h) = Len(history) + 1
        /\ h[Len(history) + 1] = NewEntry(c) /\ \A p \in 1 .. Len(history) : h[p] = history[p]
    BY <1>0, <2>1, AppendProperties
  <2> HIDE DEF h
  <2>3. PICK k \in Nat : IsTail(h, Newest(h, limit), k)
    BY <1>0, <2>2, NewestFacts
  <2>4. i + k \in 1 .. Len(h) /\ history'[i] = h[i + k]
    BY <2>1, <2>3 DEF IsTail, h
  <2>5. CASE i + k = Len(history) + 1
    BY <1>2, <2>1, <2>2, <2>4, <2>5
  <2>6. CASE i + k # Len(history) + 1
    <3>1. i + k \in 1 .. Len(history)
      BY <1>0, <2>2, <2>4, <2>6
    <3> QED BY <2>2, <2>4, <3>1
  <2> QED BY <2>5, <2>6
<1>3. ASSUME NEW c \in Callers, UndoEnds(c), history' # history
      PROVE  \E p \in 1 .. Len(history) : history'[i] = history[p]
  <2> DEFINE x == job[c].index
  <2>1. history' = Without(history, x) /\ x \in Nat \ {0}
    BY <1>3, UndoingFacts DEF UndoEnds
  <2>2. x <= Len(history)
    BY <1>3, <2>1 DEF Without
  <2> HIDE DEF x
  <2>3. x \in 1 .. Len(history)
    BY <1>0, <2>1, <2>2
  <2>4. /\ Len(history') = Len(history) - 1
        /\ \A p \in 1 .. Len(history) - 1 : history'[p] = history[IF p < x THEN p ELSE p + 1]
    BY <1>0, <2>1, <2>3, WithoutFacts
  <2>5. history'[i] = history[IF i < x THEN i ELSE i + 1] /\ i \in 1 .. Len(history) - 1
    BY <2>4
  <2>6. (IF i < x THEN i ELSE i + 1) \in 1 .. Len(history)
    BY <1>0, <2>5
  <2> QED BY <2>5, <2>6
<1>4. CASE history' = <<>>
  BY <1>4
<1>5. ASSUME NEW n \in Limits, history' = Newest(history, n)
      PROVE  \E p \in 1 .. Len(history) : history'[i] = history[p]
  <2>1. PICK k \in Nat : IsTail(history, Newest(history, n), k)
    BY <1>0, <1>5, NewestFacts, LimitFacts
  <2> QED BY <1>5, <2>1 DEF IsTail
<1> QED BY <1>1, <1>2, <1>3, <1>4, <1>5, HistorySteps

\* What is recorded is a command that succeeded where it ran
Took(e) == Succeeds(e.cmd, e.before)

OnlySuccesses ==
    /\ \A c \in Callers : job[c].at = "ran" => Took(job[c])
    /\ \A i \in 1 .. Len(history) : Took(history[i])
    /\ \A c \in Callers : job[c].at \in {"undoing", "undone"} => Took(job[c].entry)

LEMMA SuccessInit == Init => OnlySuccesses
BY JobKinds DEF Init, OnlySuccesses

\* A job keeps what it ran or undoes, or it starts
LEMMA JobSteps ==
    ASSUME TypeOK, [Next]_vars, NEW c \in Callers
    PROVE  \/ job'[c] = job[c]
           \/ job'[c].at \in {"idle", "run"}
           \/ RunEnds(c) /\ job[c] \in Running /\ Succeeds(job[c].cmd, fs)
              /\ job'[c] = [at |-> "ran", cmd |-> job[c].cmd, undo |-> job[c].undo, before |-> fs]
           \/ \E i \in 1 .. Len(history) :
                  Undo(c, i) /\ job'[c] = [at |-> "undoing", entry |-> history[i], index |-> i, moved |-> FALSE]
           \/ UndoRuns(c) /\ job'[c] = [job[c] EXCEPT !.at = "undone"]
           \/ job'[c] = KeepsPlace(job[c], history')
<1>0. job \in [Callers -> Jobs]
  BY DEF TypeOK
<1>1. ASSUME NEW d \in Callers, NEW cmd \in Commands, NEW w \in Cwds, Execute(d, cmd, w)
      PROVE  job'[c] = job[c] \/ job'[c].at = "run"
  BY <1>0, <1>1 DEF Execute
<1>2. ASSUME NEW d \in Callers, NEW i \in 1 .. Len(history), Undo(d, i)
      PROVE  \/ job'[c] = job[c]
             \/ Undo(c, i) /\ job'[c] = [at |-> "undoing", entry |-> history[i], index |-> i, moved |-> FALSE]
  <2>1. job' = [job EXCEPT ![d] =
                   [at |-> "undoing", entry |-> history[i], index |-> i, moved |-> FALSE]]
    BY <1>2 DEF Undo
  <2>2. CASE d = c
    BY <1>0, <1>2, <2>1, <2>2
  <2>3. CASE d # c
    BY <1>0, <2>1, <2>3
  <2> QED BY <2>2, <2>3
<1>3. ASSUME NEW d \in Callers, RunEnds(d), job'[c] # job[c], job'[c].at # "idle"
      PROVE  /\ RunEnds(c) /\ job[c] \in Running /\ Succeeds(job[c].cmd, fs)
             /\ job'[c] = [at |-> "ran", cmd |-> job[c].cmd, undo |-> job[c].undo, before |-> fs]
  <2>1. d = c
    BY <1>0, <1>3 DEF RunEnds
  <2>2. job[c] \in Running
    BY <1>3, <2>1, RunType
  <2>3. Succeeds(job[c].cmd, fs)
    BY <1>0, <1>3, <2>1, JobKinds DEF RunEnds
  <2>4. job'[c] = [at |-> "ran", cmd |-> job[c].cmd, undo |-> job[c].undo, before |-> fs]
    BY <1>0, <1>3, <2>1, <2>3 DEF RunEnds
  <2> QED BY <1>3, <2>1, <2>2, <2>3, <2>4
<1>4. ASSUME NEW d \in Callers, TimeOut(d) PROVE job'[c] = job[c] \/ job'[c].at = "idle"
  BY <1>0, <1>4, JobKinds DEF TimeOut
<1>5. ASSUME NEW d \in Callers, UndoRuns(d)
      PROVE  \/ job'[c] = job[c] \/ job'[c].at = "idle"
             \/ UndoRuns(c) /\ job'[c] = [job[c] EXCEPT !.at = "undone"]
  <2>1. CASE d = c
    BY <1>0, <1>5, <2>1, JobKinds DEF UndoRuns
  <2>2. CASE d # c
    BY <1>0, <1>5, <2>2 DEF UndoRuns
  <2> QED BY <2>1, <2>2
<1>6. ASSUME NEW d \in Callers, Record(d) \/ UndoEnds(d)
      PROVE  job'[c].at = "idle" \/ job'[c] = KeepsPlace(job[c], history')
  <2>1. job' = [e \in Callers |-> IF e = d THEN Idle ELSE KeepsPlace(job[e], history')]
    BY <1>6 DEF Record, UndoEnds
  <2> QED BY <2>1, JobKinds
<1>7. ASSUME ClearHistory \/ \E n \in Limits : SetLimit(n)
      PROVE  job'[c] = KeepsPlace(job[c], history')
  BY <1>7 DEF ClearHistory, SetLimit
<1>8. ASSUME UNCHANGED vars \/ \E b \in BOOLEAN : SetTracking(b) PROVE job'[c] = job[c]
  BY <1>8 DEF SetTracking, vars
<1> QED BY <1>1, <1>2, <1>3, <1>4, <1>5, <1>6, <1>7, <1>8 DEF Next

LEMMA SuccessStep == TypeOK /\ OnlySuccesses /\ [Next]_vars => OnlySuccesses'
<1> SUFFICES ASSUME TypeOK, OnlySuccesses, [Next]_vars PROVE OnlySuccesses'
  OBVIOUS
<1>1. ASSUME NEW i \in 1 .. Len(history') PROVE Took(history'[i])
  <2>1. CASE \E p \in 1 .. Len(history) : history'[i] = history[p]
    BY <2>1 DEF OnlySuccesses
  <2>2. ASSUME NEW c \in Callers, Record(c), job[c] \in Ran, history'[i] = NewEntry(c) PROVE Took(history'[i])
    <3>1. Took(job[c])
      BY <2>2 DEF OnlySuccesses, Record
    <3>2. NewEntry(c).cmd = job[c].cmd /\ NewEntry(c).before = job[c].before
      BY DEF NewEntry
    <3> QED BY <2>2, <3>1, <3>2 DEF Took
  <2> QED BY <2>1, <2>2, EntriesStay
<1>2. ASSUME NEW c \in Callers
      PROVE  /\ job'[c].at = "ran" => Took(job'[c])
             /\ job'[c].at \in {"undoing", "undone"} => Took(job'[c].entry)
  <2>0. job[c] \in Jobs
    BY DEF TypeOK
  <2>1. CASE job'[c] = job[c]
    BY <2>1 DEF OnlySuccesses
  <2>2. CASE job'[c].at \in {"idle", "run"}
    BY <2>2
  <2>3. CASE /\ Succeeds(job[c].cmd, fs)
             /\ job'[c] = [at |-> "ran", cmd |-> job[c].cmd, undo |-> job[c].undo, before |-> fs]
    <3>1. job'[c].cmd = job[c].cmd /\ job'[c].before = fs /\ job'[c].at = "ran"
      BY <2>3
    <3> QED BY <2>3, <3>1 DEF Took
  <2>4. ASSUME NEW i \in 1 .. Len(history),
               job'[c] = [at |-> "undoing", entry |-> history[i], index |-> i, moved |-> FALSE]
        PROVE  /\ job'[c].at = "ran" => Took(job'[c])
               /\ job'[c].at \in {"undoing", "undone"} => Took(job'[c].entry)
    <3>1. job'[c].at = "undoing" /\ job'[c].entry = history[i]
      BY <2>4
    <3> QED BY <3>1 DEF OnlySuccesses
  <2>5. CASE UndoRuns(c) /\ job'[c] = [job[c] EXCEPT !.at = "undone"]
    <3>1. job[c] \in Undoing /\ job[c].at = "undoing"
      BY <2>5, UndoingFacts DEF UndoRuns
    <3>2. job'[c].at = "undone" /\ job'[c].entry = job[c].entry
      BY <2>5, <3>1 DEF Undoing
    <3> QED BY <3>1, <3>2 DEF OnlySuccesses
  <2>6. CASE job'[c] = KeepsPlace(job[c], history')
    <3>1. CASE job[c].at \in {"undoing", "undone"}
      <4>1. job'[c].at = job[c].at /\ job'[c].entry = job[c].entry
        BY <2>0, <2>6, <3>1, KeepsPlaceFacts
      <4> QED BY <3>1, <4>1 DEF OnlySuccesses
    <3>2. CASE job[c].at \notin {"undoing", "undone"}
      <4>1. job'[c] = job[c]
        BY <2>0, <2>6, <3>2, KeepsPlaceFacts
      <4> QED BY <4>1 DEF OnlySuccesses
    <3> QED BY <3>1, <3>2
  <2> QED BY <2>1, <2>2, <2>3, <2>4, <2>5, <2>6, JobSteps
<1> QED BY <1>1, <1>2 DEF OnlySuccesses

\* Nothing but the end of the undo command takes an undo further
LEMMA OnlyUndoRuns ==
    ASSUME TypeOK, [Next]_vars, NEW c \in Callers, UndoesNow(c)
    PROVE  UndoRuns(c)
<1>0. job \in [Callers -> Jobs] /\ job[c] \in Jobs /\ job[c].at = "undoing" /\ job'[c].at # "undoing"
  BY DEF TypeOK, UndoesNow
<1>1. \A h : KeepsPlace(job[c], h).at = "undoing"
  BY <1>0, KeepsPlaceFacts
<1>2. job[c] # Idle
  BY <1>0, JobKinds
<1>3. ASSUME NEW d \in Callers,
             \/ \E cmd \in Commands, w \in Cwds : Execute(d, cmd, w)
             \/ \E i \in 1 .. Len(history) : Undo(d, i)
             \/ RunEnds(d) \/ TimeOut(d)
      PROVE  FALSE
  <2>1. d # c
    BY <1>0, <1>2, <1>3 DEF Execute, Undo, RunEnds, TimeOut
  <2>2. job'[c] = job[c]
    BY <1>0, <1>3, <2>1 DEF Execute, Undo, RunEnds, TimeOut
  <2> QED BY <1>0, <2>2
<1>4. ASSUME NEW d \in Callers, Record(d) \/ UndoEnds(d) PROVE FALSE
  <2>1. d # c
    BY <1>0, <1>4 DEF Record, UndoEnds
  <2>2. job'[c] = KeepsPlace(job[c], history')
    BY <1>4, <2>1 DEF Record, UndoEnds
  <2> QED BY <1>0, <1>1, <2>2
<1>5. ASSUME NEW d \in Callers, UndoRuns(d), d # c PROVE FALSE
  <2>1. job'[c] = job[c]
    BY <1>0, <1>5 DEF UndoRuns
  <2> QED BY <1>0, <2>1
<1>6. ASSUME ClearHistory \/ \E n \in Limits : SetLimit(n) PROVE FALSE
  <2>1. job'[c] = KeepsPlace(job[c], history')
    BY <1>6 DEF ClearHistory, SetLimit
  <2> QED BY <1>0, <1>1, <2>1
<1>7. ASSUME UNCHANGED vars \/ \E b \in BOOLEAN : SetTracking(b) PROVE FALSE
  BY <1>0, <1>7 DEF SetTracking, vars
<1> QED BY <1>3, <1>4, <1>5, <1>6, <1>7 DEF Next

LEMMA RestoresStep ==
    ASSUME TypeOK, OnlySuccesses, [Next]_vars, NEW c \in Callers, UndoesNow(c),
           Prepared(job[c].entry), ~Overwrites(job[c].entry.cmd, job[c].entry.before),
           ~Garbles(job[c].entry.undo)
    PROVE  Restored(c)
<1> DEFINE e == job[c].entry
<1>1. UndoRuns(c) /\ job[c].at = "undoing"
  BY OnlyUndoRuns DEF UndoesNow
<1>2. /\ job[c] \in Undoing /\ e \in Entries
      /\ e.cmd \in Doable /\ e.before \in FileSystems /\ e.undo \in CommandType
  BY <1>1, UndoingFacts
<1>3. Succeeds(e.cmd, e.before)
  BY <1>1 DEF OnlySuccesses, Took
<1>4. e.undo # NoUndo
  BY <1>2, UndoCommands
<1>5. /\ ~Overwrites(e.cmd, e.before)
      /\ fs' = fs \/ Succeeds(e.undo, fs)
      /\ Succeeds(e.undo, fs) => /\ fs' = Effect(e.undo, fs)
                                 /\ job' = [job EXCEPT ![c] = [@ EXCEPT !.at = "undone"]]
  BY <1>1 DEF UndoRuns
<1>6. [job[c] EXCEPT !.at = "undone"].at = "undone"
  BY <1>2 DEF Undoing
<1>7. Succeeds(e.undo, fs) => job'[c].at = "undone"
  BY <1>5, <1>6 DEF TypeOK
<1> SUFFICES ASSUME fs = Effect(e.cmd, e.before)
             PROVE  job'[c].at = "undone" /\ Rough(fs') = Rough(e.before)
  BY DEF Restored
<1>8. Works(e.undo, fs, e.before)
  <2>0. PICK b \in BOOLEAN : e.undo = UndoOf(e.cmd, e.before, b)
    BY DEF Prepared
  <2>1. ~Garbles(e.undo)
    OBVIOUS
  <2> HIDE DEF e
  <2>2. Works(UndoOf(e.cmd, e.before, b), Effect(e.cmd, e.before), e.before)
    BY <1>2, <1>3, <1>4, <1>5, <2>0, <2>1, UndoWorks
  <2> QED BY <2>0, <2>2
<1> HIDE DEF e
<1> QED BY <1>5, <1>7, <1>8 DEF Works

\* Whatever overlaps, an undo command that meets what its command left succeeds
\* and gives back what the command met: an undo command that was prepared for what
\* the command met, at the paths where it ran, that holds what the command replaced,
\* and writes no text that echo changes.
THEOREM UndoAlwaysRestores == Spec => UndoRestores
<1>1. Spec => [](TypeOK /\ OnlySuccesses)
  BY InitType, TypeStep, SuccessInit, SuccessStep, PTL DEF Spec
<1>2. TypeOK /\ OnlySuccesses /\ [Next]_vars =>
        [\A c \in Callers :
          LET e == job[c].entry IN
          UndoesNow(c) /\ Prepared(e) /\ ~Overwrites(e.cmd, e.before) /\ ~Garbles(e.undo) =>
              Restored(c)]_vars
  BY RestoresStep
<1> QED BY <1>1, <1>2, PTL DEF Spec, UndoRestores

------------------------------------------------------------------------------
(* The history unwinds *)

\* Each undo command leads from where the next command ran to where its own did,
\* and the newest from top
Chain(h, top) ==
    /\ \A i \in 1 .. Len(h) - 1 : Works(h[i].undo, h[i + 1].before, h[i].before)
    /\ Len(h) # 0 => Works(h[Len(h)].undo, top, h[Len(h)].before)

Alone(c) == \A d \in Callers : d # c => job[d] = Idle

\* What a caller that is alone with its command or its undo has prepared
Turn(c) ==
    \/ /\ job[c].at = "run"
       /\ Chain(history, fs)
       /\ \E b \in BOOLEAN : job[c].undo = UndoOf(job[c].cmd, fs, b)
    \/ /\ job[c].at = "ran"
       /\ Chain(history, job[c].before)
       /\ job[c].undo = NoUndo => fs = job[c].before
       /\ job[c].undo # NoUndo => Works(job[c].undo, fs, job[c].before)
    \/ /\ job[c].at = "undoing"
       /\ Len(history) # 0 /\ job[c].index = Len(history) /\ job[c].entry = history[Len(history)]
       /\ Chain(history, fs)
    \/ /\ job[c].at = "undone"
       /\ Len(history) # 0 /\ job[c].index = Len(history)
       /\ \A i \in 1 .. Len(history) - 1 : Works(history[i].undo, history[i + 1].before, history[i].before)
       /\ Rough(fs) = Rough(history[Len(history)].before)

Resting == Chain(history, fs) /\ \A c \in Callers : job[c] = Idle

InTurn == clean => Resting \/ \E c \in Callers : Alone(c) /\ Turn(c)

LEMMA EmptyChain == \A top : Chain(<<>>, top)
BY DEF Chain

LEMMA WorksAlike ==
    ASSUME NEW u \in CommandType, NEW s \in FileSystems, NEW t \in FileSystems, NEW b,
           Rough(s) = Rough(t), Works(u, s, b)
    PROVE  Works(u, t, b)
BY Congruence DEF Works

LEMMA AppendChain ==
    ASSUME NEW h \in Seq(Entries), NEW e \in Entries, NEW top,
           Chain(h, e.before), Works(e.undo, top, e.before)
    PROVE  Chain(Append(h, e), top)
<1> DEFINE t == Append(h, e)
<1>1. t \in Seq(Entries) /\ Len(t) = Len(h) + 1 /\ t[Len(h) + 1] = e /\ \A i \in 1 .. Len(h) : t[i] = h[i]
  BY AppendProperties
<1> HIDE DEF t
<1>2. Len(h) \in Nat
  OBVIOUS
<1>3. ASSUME NEW i \in 1 .. Len(t) - 1 PROVE Works(t[i].undo, t[i + 1].before, t[i].before)
  <2>1. i \in 1 .. Len(h) /\ t[i] = h[i]
    BY <1>1, <1>2
  <2>2. CASE i = Len(h)
    <3>1. t[i + 1] = e /\ Len(h) # 0
      BY <1>1, <1>2, <2>1, <2>2
    <3> QED BY <2>1, <2>2, <3>1 DEF Chain
  <2>3. CASE i # Len(h)
    <3>1. i \in 1 .. Len(h) - 1 /\ i + 1 \in 1 .. Len(h)
      BY <1>2, <2>1, <2>3
    <3>2. t[i + 1] = h[i + 1]
      BY <1>1, <3>1
    <3> QED BY <2>1, <3>1, <3>2 DEF Chain
  <2> QED BY <2>2, <2>3
<1>4. t[Len(t)] = e
  BY <1>1
<1> QED BY <1>3, <1>4 DEF Chain, t

LEMMA NewestChain ==
    ASSUME NEW h \in Seq(Entries), NEW n \in Nat, NEW top, Chain(h, top)
    PROVE  Chain(Newest(h, n), top)
<1> DEFINE t == Newest(h, n)
<1>1. PICK k \in Nat : IsTail(h, Newest(h, n), k)
  BY NewestFacts
<1>2. t \in Seq(Entries)
  BY NewestFacts
<1>3. /\ Len(t) + k = Len(h)
      /\ \A i \in 1 .. Len(t) : i + k \in 1 .. Len(h) /\ t[i] = h[i + k]
  BY <1>1 DEF IsTail
<1> HIDE DEF t
<1>4. Len(t) \in Nat /\ Len(h) \in Nat
  BY <1>2
<1>5. ASSUME NEW i \in 1 .. Len(t) - 1 PROVE Works(t[i].undo, t[i + 1].before, t[i].before)
  <2>1. i \in 1 .. Len(t) /\ i + 1 \in 1 .. Len(t) /\ i + k \in 1 .. Len(h) - 1
    BY <1>3, <1>4
  <2>2. t[i] = h[i + k] /\ t[i + 1] = h[(i + 1) + k] /\ (i + 1) + k = (i + k) + 1
    BY <1>3, <2>1
  <2>3. Works(h[i + k].undo, h[(i + k) + 1].before, h[i + k].before)
    BY <2>1 DEF Chain
  <2> QED BY <2>2, <2>3
<1>6. ASSUME Len(t) # 0 PROVE Works(t[Len(t)].undo, top, t[Len(t)].before)
  <2>1. Len(t) \in 1 .. Len(t) /\ Len(h) # 0
    BY <1>3, <1>4, <1>6
  <2>2. t[Len(t)] = h[Len(h)]
    BY <1>3, <2>1
  <2> QED BY <2>1, <2>2 DEF Chain
<1> QED BY <1>5, <1>6 DEF Chain, t

LEMMA RestingInit == Init => InTurn
BY EmptyChain DEF Init, InTurn, Resting

\* Who acts while callers take turns has the turn
LEMMA HasTurn ==
    ASSUME InTurn, clean, NEW c \in Callers, job[c] # Idle
    PROVE  Alone(c) /\ Turn(c)
BY DEF InTurn, Resting, Alone

LEMMA NobodyBusy ==
    ASSUME TypeOK, InTurn, clean, Busy = {}
    PROVE  Resting
<1>1. \A c \in Callers : job[c] = Idle /\ job[c].at = "idle"
  BY JobKinds DEF Busy
<1>2. \A c \in Callers : ~Turn(c)
  BY <1>1 DEF Turn
<1> QED BY <1>2 DEF InTurn

\* A history that is empty while nobody is busy rests
LEMMA Anew ==
    ASSUME NEW ok, Cleanly(ok), clean', ~(clean /\ ok)
    PROVE  Resting'
BY EmptyChain DEF Cleanly, Resting

LEMMA ExecuteTurn ==
    ASSUME TypeOK, InTurn, NEW c \in Callers, NEW cmd \in Commands, NEW w \in Cwds,
           Execute(c, cmd, w), clean, Busy = {}, In(w, cmd) = cmd
    PROVE  InTurn'
<1>1. Resting /\ fs' = fs /\ history' = history
  BY NobodyBusy DEF Execute
<1>2. CASE job' = job
  BY <1>1, <1>2 DEF Resting, InTurn
<1>3. CASE job' = [job EXCEPT ![c] = [at |-> "run", cmd |-> cmd, undo |-> UndoOf(cmd, fs, tracking)]]
  <2>1. job'[c] = [at |-> "run", cmd |-> cmd, undo |-> UndoOf(cmd, fs, tracking)]
        /\ \A d \in Callers : d # c => job'[d] = Idle
    BY <1>1, <1>3 DEF TypeOK, Resting
  <2>2. job'[c].at = "run" /\ job'[c].cmd = cmd /\ job'[c].undo = UndoOf(cmd, fs, tracking)
    BY <2>1
  <2>3. Alone(c)'
    BY <2>1 DEF Alone
  <2>4. Chain(history', fs') /\ tracking \in BOOLEAN
    BY <1>1 DEF Resting, TypeOK
  <2>5. \E b \in BOOLEAN : job'[c].undo = UndoOf(job'[c].cmd, fs', b)
    BY <1>1, <2>2, <2>4
  <2>6. Turn(c)'
    BY <2>2, <2>4, <2>5 DEF Turn
  <2> QED BY <2>3, <2>6 DEF InTurn
<1> QED BY <1>2, <1>3 DEF Execute

LEMMA RunTurn ==
    ASSUME TypeOK, InTurn, NEW c \in Callers, clean,
           \/ RunEnds(c) /\ Undoable(job[c])
           \/ TimeOut(c) /\ fs' = fs
    PROVE  InTurn'
<1>0. job \in [Callers -> Jobs] /\ fs \in FileSystems
  BY DEF TypeOK
<1>1. job[c] \in Running /\ job[c].at = "run" /\ job[c] # Idle /\ history' = history
  BY RunType, JobKinds DEF RunEnds, TimeOut
<1>2. Alone(c) /\ Turn(c)
  BY <1>1, HasTurn
<1>3. Chain(history, fs) /\ \E b \in BOOLEAN : job[c].undo = UndoOf(job[c].cmd, fs, b)
  BY <1>1, <1>2 DEF Turn
<1>4. \A d \in Callers : d # c => job'[d] = Idle
  BY <1>0, <1>2 DEF Alone, RunEnds, TimeOut
<1>5. CASE job'[c] = Idle /\ fs' = fs
  BY <1>1, <1>3, <1>4, <1>5 DEF InTurn, Resting
<1>6. CASE RunEnds(c) /\ Undoable(job[c]) /\ Succeeds(job[c].cmd, fs)
  <2>1. /\ fs' = Effect(job[c].cmd, fs)
        /\ job'[c] = [at |-> "ran", cmd |-> job[c].cmd, undo |-> job[c].undo, before |-> fs]
    BY <1>0, <1>6 DEF RunEnds
  <2>2. job'[c].at = "ran" /\ job'[c].undo = job[c].undo /\ job'[c].before = fs
    BY <2>1
  <2>3. job[c].undo = NoUndo => fs' = fs
    BY <1>6, <2>1 DEF Undoable
  <2>4. job[c].undo # NoUndo => Works(job[c].undo, fs', fs)
    <3> SUFFICES ASSUME job[c].undo # NoUndo PROVE Works(job[c].undo, fs', fs)
      OBVIOUS
    <3>1. ~Overwrites(job[c].cmd, fs) /\ ~Garbles(job[c].undo)
      BY <1>6 DEF Undoable
    <3>2. PICK b \in BOOLEAN : job[c].undo = UndoOf(job[c].cmd, fs, b)
      BY <1>3
    <3>3. job[c].cmd \in Doable
      BY <1>1 DEF Running
    <3>4. Works(UndoOf(job[c].cmd, fs, b), Effect(job[c].cmd, fs), fs)
      BY <1>0, <1>6, <3>1, <3>2, <3>3, UndoWorks
    <3> QED BY <2>1, <3>2, <3>4
  <2>5. Turn(c)'
    BY <1>1, <1>3, <2>2, <2>3, <2>4 DEF Turn
  <2>6. Alone(c)'
    BY <1>4 DEF Alone
  <2> QED BY <2>5, <2>6 DEF InTurn
<1>7. \/ job'[c] = Idle /\ fs' = fs
      \/ RunEnds(c) /\ Undoable(job[c]) /\ Succeeds(job[c].cmd, fs)
  BY <1>0 DEF RunEnds, TimeOut
<1> QED BY <1>5, <1>6, <1>7

\* A caller that ends while it is alone leaves nobody busy
LEMMA MarkedAlone ==
    ASSUME NEW c \in Callers, NEW h, Alone(c),
           job' = [d \in Callers |-> IF d = c THEN Idle ELSE KeepsPlace(job[d], h)]
    PROVE  \A d \in Callers : job'[d] = Idle
<1>1. KeepsPlace(Idle, h) = Idle
  BY JobKinds, KeepsPlaceFacts
<1> QED BY <1>1 DEF Alone

LEMMA RecordTurn ==
    ASSUME TypeOK, HistoryInOrder, InTurn, NEW c \in Callers, clean, Record(c)
    PROVE  InTurn'
<1>0. history \in Seq(Entries) /\ Len(history) \in Nat /\ limit \in Nat /\ Len(history) <= limit
  BY LimitFacts DEF TypeOK, HistoryInOrder
<1>1. job[c].at = "ran" /\ job[c] # Idle /\ fs' = fs
  BY JobKinds DEF Record
<1>2. Alone(c) /\ Turn(c)
  BY <1>1, HasTurn
<1>3. /\ Chain(history, job[c].before)
      /\ job[c].undo = NoUndo => fs = job[c].before
      /\ job[c].undo # NoUndo => Works(job[c].undo, fs, job[c].before)
  BY <1>1, <1>2 DEF Turn
<1>4. \A d \in Callers : job'[d] = Idle
  BY <1>2, MarkedAlone DEF Record
<1>5. CASE history' = history /\ job[c].undo = NoUndo
  BY <1>1, <1>3, <1>4, <1>5 DEF InTurn, Resting
<1>6. CASE history' = history /\ limit = 0
  <2>1. Len(history) = 0
    BY <1>0, <1>6
  <2>2. history = <<>>
    BY <1>0, <2>1, EmptySeq
  <2> QED BY <1>4, <1>6, <2>2, EmptyChain DEF InTurn, Resting
<1>7. CASE /\ job[c].undo # NoUndo /\ NewEntry(c) \in Entries
           /\ Append(history, NewEntry(c)) \in Seq(Entries)
           /\ history' = Newest(Append(history, NewEntry(c)), limit)
  <2>1. NewEntry(c).undo = job[c].undo /\ NewEntry(c).before = job[c].before
    BY DEF NewEntry
  <2>2. Chain(Append(history, NewEntry(c)), fs)
    BY <1>0, <1>3, <1>7, <2>1, AppendChain
  <2>3. Chain(history', fs')
    BY <1>0, <1>1, <1>7, <2>2, NewestChain
  <2> QED BY <1>4, <2>3 DEF InTurn, Resting
<1> QED BY <1>5, <1>6, <1>7, RecordFacts

LEMMA UndoStartTurn ==
    ASSUME TypeOK, InTurn, NEW c \in Callers, NEW i \in 1 .. Len(history), Undo(c, i),
           clean, Busy = {}, i = Len(history)
    PROVE  InTurn'
<1>1. Resting
  BY NobodyBusy
<1>2. /\ job' = [job EXCEPT ![c] =
                   [at |-> "undoing", entry |-> history[i], index |-> i, moved |-> FALSE]]
      /\ fs' = fs /\ history' = history
  BY DEF Undo
<1>3. job'[c] = [at |-> "undoing", entry |-> history[i], index |-> i, moved |-> FALSE]
      /\ \A d \in Callers : d # c => job'[d] = Idle
  BY <1>1, <1>2 DEF TypeOK, Resting
<1>4. job'[c].at = "undoing" /\ job'[c].entry = history[i] /\ job'[c].index = i
  BY <1>3
<1>5. Alone(c)'
  BY <1>3 DEF Alone
<1>6. Chain(history', fs') /\ Len(history') # 0
  <2>1. Len(history) # 0
    BY DEF TypeOK
  <2> QED BY <1>1, <1>2, <2>1 DEF Resting
<1>7. Turn(c)'
  BY <1>2, <1>4, <1>6 DEF Turn
<1> QED BY <1>5, <1>7 DEF InTurn

LEMMA UndoRunsTurn ==
    ASSUME TypeOK, InTurn, NEW c \in Callers, clean, UndoRuns(c)
    PROVE  InTurn'
<1>0. job \in [Callers -> Jobs] /\ job[c] \in Undoing
  BY UndoingFacts DEF TypeOK, UndoRuns
<1>1. job[c].at = "undoing" /\ job[c] # Idle /\ history' = history
  BY JobKinds DEF UndoRuns
<1>2. Alone(c) /\ Turn(c)
  BY <1>1, HasTurn
<1>3. /\ Len(history) # 0 /\ job[c].index = Len(history) /\ job[c].entry = history[Len(history)]
      /\ Chain(history, fs)
  BY <1>1, <1>2 DEF Turn
<1>4. Works(job[c].entry.undo, fs, job[c].entry.before)
  BY <1>3 DEF Chain
<1>5. /\ fs' = Effect(job[c].entry.undo, fs)
      /\ job' = [job EXCEPT ![c] = [@ EXCEPT !.at = "undone"]]
  BY <1>4 DEF UndoRuns, Works
<1>6. job'[c] = [job[c] EXCEPT !.at = "undone"] /\ \A d \in Callers : d # c => job'[d] = Idle
  BY <1>0, <1>2, <1>5 DEF Alone
<1>7. job'[c].at = "undone" /\ job'[c].index = job[c].index
  BY <1>0, <1>6 DEF Undoing
<1>8. Rough(fs') = Rough(history[Len(history)].before)
  BY <1>3, <1>4, <1>5 DEF Works
<1>9. \A i \in 1 .. Len(history) - 1 : Works(history[i].undo, history[i + 1].before, history[i].before)
  BY <1>3 DEF Chain
<1>10. Turn(c)'
  BY <1>1, <1>3, <1>7, <1>8, <1>9 DEF Turn
<1>11. Alone(c)'
  BY <1>6 DEF Alone
<1> QED BY <1>10, <1>11 DEF InTurn

LEMMA UndoEndsTurn ==
    ASSUME TypeOK, InTurn, NEW c \in Callers, clean, UndoEnds(c)
    PROVE  InTurn'
<1>0. history \in Seq(Entries) /\ Len(history) \in Nat /\ fs \in FileSystems
  BY DEF TypeOK
<1>1. job[c].at = "undone" /\ job[c] # Idle /\ fs' = fs
  BY JobKinds DEF UndoEnds
<1>2. Alone(c) /\ Turn(c)
  BY <1>1, HasTurn
<1>3. /\ Len(history) # 0 /\ job[c].index = Len(history)
      /\ \A i \in 1 .. Len(history) - 1 : Works(history[i].undo, history[i + 1].before, history[i].before)
      /\ Rough(fs) = Rough(history[Len(history)].before)
  BY <1>1, <1>2 DEF Turn
<1>4. \A d \in Callers : job'[d] = Idle
  BY <1>2, MarkedAlone DEF UndoEnds
<1> DEFINE t == Without(history, Len(history))
<1>5. Len(history) \in 1 .. Len(history)
  BY <1>0, <1>3
<1>6. /\ t \in Seq(Entries) /\ Len(t) = Len(history) - 1
      /\ \A p \in 1 .. Len(history) - 1 : t[p] = history[IF p < Len(history) THEN p ELSE p + 1]
  BY <1>0, <1>5, WithoutFacts
<1>7. history' = t
  BY <1>3 DEF UndoEnds
<1> HIDE DEF t
<1>8. \A p \in 1 .. Len(t) : t[p] = history[p]
  BY <1>0, <1>6
<1>9. ASSUME NEW i \in 1 .. Len(t) - 1 PROVE Works(t[i].undo, t[i + 1].before, t[i].before)
  <2>1. i \in 1 .. Len(history) - 1 /\ i \in 1 .. Len(t) /\ i + 1 \in 1 .. Len(t)
    BY <1>0, <1>6
  <2>2. t[i] = history[i] /\ t[i + 1] = history[i + 1]
    BY <1>8, <2>1
  <2> QED BY <1>3, <2>1, <2>2
<1>10. ASSUME Len(t) # 0 PROVE Works(t[Len(t)].undo, fs, t[Len(t)].before)
  <2> DEFINE n == Len(t)
  <2>1. n \in 1 .. Len(history) - 1 /\ n \in 1 .. Len(t) /\ n + 1 = Len(history)
    BY <1>0, <1>6, <1>10
  <2> HIDE DEF n
  <2>2. t[n] = history[n] /\ Works(history[n].undo, history[n + 1].before, history[n].before)
    BY <1>3, <1>8, <2>1
  <2>3. history[n] \in Entries /\ history[n + 1] \in Entries
    <3>1. n \in 1 .. Len(history) /\ n + 1 \in 1 .. Len(history)
      BY <1>0, <2>1
    <3> QED BY <1>0, <3>1
  <2>4. history[n].undo \in CommandType /\ history[n + 1].before \in FileSystems
    BY <2>3 DEF Entries
  <2>5. Rough(history[n + 1].before) = Rough(fs)
    BY <1>3, <2>1
  <2>6. Works(history[n].undo, fs, history[n].before)
    BY <1>0, <2>2, <2>4, <2>5, WorksAlike
  <2> QED BY <2>2, <2>6 DEF n
<1>11. Chain(history', fs')
  BY <1>1, <1>7, <1>9, <1>10 DEF Chain
<1> QED BY <1>4, <1>11 DEF InTurn, Resting

LEMMA CutTurn ==
    ASSUME TypeOK, InTurn, clean, Busy = {}, ClearHistory \/ \E n \in Limits : SetLimit(n)
    PROVE  InTurn'
<1>0. history \in Seq(Entries)
  BY DEF TypeOK
<1>1. Resting
  BY NobodyBusy
<1>2. \A d \in Callers : job'[d] = KeepsPlace(job[d], history')
  BY DEF ClearHistory, SetLimit
<1>3. \A d \in Callers : job'[d] = Idle
  BY <1>1, <1>2, JobKinds, KeepsPlaceFacts DEF Resting
<1>4. fs' = fs
  BY DEF ClearHistory, SetLimit
<1>5. Chain(history', fs)
  <2>1. CASE history' = <<>>
    BY <2>1, EmptyChain
  <2>2. ASSUME NEW n \in Limits, history' = Newest(history, n) PROVE Chain(history', fs)
    BY <1>0, <1>1, <2>2, NewestChain, LimitFacts DEF Resting
  <2> QED BY <2>1, <2>2 DEF ClearHistory, SetLimit
<1> QED BY <1>3, <1>4, <1>5 DEF InTurn, Resting

LEMMA TurnStep == TypeOK /\ HistoryInOrder /\ InTurn /\ [Next]_vars => InTurn'
<1> SUFFICES ASSUME TypeOK, HistoryInOrder, InTurn, [Next]_vars, clean' PROVE InTurn'
  BY DEF InTurn
<1>0. Resting' => InTurn'
  BY DEF InTurn
<1>1. ASSUME NEW c \in Callers, NEW cmd \in Commands, NEW w \in Cwds, Execute(c, cmd, w) PROVE InTurn'
  <2>1. Cleanly(Busy = {} /\ In(w, cmd) = cmd)
    BY <1>1 DEF Execute
  <2> QED BY <1>0, <1>1, <2>1, Anew, ExecuteTurn
<1>2. ASSUME NEW c \in Callers, NEW i \in 1 .. Len(history), Undo(c, i) PROVE InTurn'
  <2>1. Cleanly(Busy = {} /\ i = Len(history))
    BY <1>2 DEF Undo
  <2> QED BY <1>0, <1>2, <2>1, Anew, UndoStartTurn
<1>3. ASSUME NEW c \in Callers, RunEnds(c) PROVE InTurn'
  <2>1. Cleanly(Undoable(job[c]))
    BY <1>3 DEF RunEnds
  <2> QED BY <1>0, <1>3, <2>1, Anew, RunTurn
<1>4. ASSUME NEW c \in Callers, TimeOut(c) PROVE InTurn'
  <2>1. Cleanly(fs' = fs)
    BY <1>4 DEF TimeOut
  <2> QED BY <1>0, <1>4, <2>1, Anew, RunTurn
<1>5. ASSUME NEW c \in Callers, Record(c) PROVE InTurn'
  <2>1. Cleanly(TRUE)
    BY <1>5 DEF Record
  <2> QED BY <1>0, <1>5, <2>1, Anew, RecordTurn
<1>6. ASSUME NEW c \in Callers, UndoRuns(c) PROVE InTurn'
  <2>1. Cleanly(TRUE)
    BY <1>6 DEF UndoRuns
  <2> QED BY <1>0, <1>6, <2>1, Anew, UndoRunsTurn
<1>7. ASSUME NEW c \in Callers, UndoEnds(c) PROVE InTurn'
  <2>1. Cleanly(TRUE)
    BY <1>7 DEF UndoEnds
  <2> QED BY <1>0, <1>7, <2>1, Anew, UndoEndsTurn
<1>8. ASSUME ClearHistory \/ \E n \in Limits : SetLimit(n) PROVE InTurn'
  <2>1. Cleanly(Busy = {})
    BY <1>8 DEF ClearHistory, SetLimit
  <2> QED BY <1>0, <1>8, <2>1, Anew, CutTurn
<1>9. ASSUME UNCHANGED vars \/ \E b \in BOOLEAN : SetTracking(b) PROVE InTurn'
  <2>1. fs' = fs /\ history' = history /\ job' = job /\ clean' = clean
    BY <1>9 DEF SetTracking, vars
  <2> QED BY <2>1 DEF InTurn, Resting, Alone, Turn
<1> QED BY <1>1, <1>2, <1>3, <1>4, <1>5, <1>6, <1>7, <1>8, <1>9 DEF Next

LEMMA TurnUnwinds == TypeOK /\ InTurn => Unwinds
<1> SUFFICES ASSUME TypeOK, InTurn, clean, Busy = {}, NEW i \in DOMAIN history
             PROVE  Works(history[i].undo, After(i), history[i].before)
  BY DEF Unwinds, Works
<1>1. Chain(history, fs)
  BY NobodyBusy DEF Resting
<1>2. i \in 1 .. Len(history) /\ Len(history) \in Nat
  BY DEF TypeOK
<1>3. CASE i = Len(history)
  BY <1>1, <1>2, <1>3 DEF Chain, After
<1>4. CASE i # Len(history)
  <2>1. i \in 1 .. Len(history) - 1
    BY <1>2, <1>4
  <2> QED BY <1>1, <1>4, <2>1 DEF Chain, After
<1> QED BY <1>3, <1>4

\* As long as callers take turns the history unwinds, however long it is and
\* whatever was run, undone and cut before.
THEOREM AlwaysUnwinds == Spec => []Unwinds
BY InitType, TypeStep, OrderInit, OrderStep, RestingInit, TurnStep, TurnUnwinds, PTL DEF Spec
==============================================================================
