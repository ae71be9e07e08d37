------------------------ MODULE TieredExecutor_proofs ------------------------
(***************************************************************************)
(* Proofs about TieredExecutor: the cache keeps what was classified under  *)
(* the keys it was classified under, and the runs of a call follow its     *)
(* pipeline, whatever throws or times out.                                 *)
(***************************************************************************)
EXTENDS TieredExecutor, SequenceTheorems, TLAPS

------------------------------------------------------------------------------
(* Classification *)

LEMMA CommandFacts ==
    ASSUME NEW c \in Commands
    PROVE  /\ Detected(c) \in Language \union {Bash}
           /\ Routed(c) \in Language \union {Bash}
<1>1. c \in CommandType
  BY TieredAssumption
<1>2. Detected(c) \in Language \union {Bash}
  BY <1>1, TieredAssumption DEF Detected, CommandType
<1> QED BY <1>2, TieredAssumption DEF Routed

LEMMA ToType ==
    ASSUME NEW h \in Handlers PROVE To(h) \in Classes
BY DEF To, Classes

LEMMA ClassType ==
    ASSUME has \in Configs, NEW c \in Commands
    PROVE  Class(c) \in Classes
<1>1. has.workers \subseteq Language
  BY TieredAssumption DEF ConfigType
<1>2. \A h \in {"native", "npm", "rpc", "loader", "sandbox"} : To(h) \in Classes
  BY ToType DEF Handlers
<1>3. Routed(c) \in has.workers =>
        [handler |-> "polyglot", language |-> Routed(c), analysed |-> FALSE] \in Classes
  BY <1>1 DEF Classes, Handlers
<1>4. [handler |-> "sandbox", language |-> Bash, analysed |-> TRUE] \in Classes
  BY DEF Classes, Handlers
<1> QED BY <1>2, <1>3, <1>4 DEF Class

\* The configuration is all of the state a classification depends on
LEMMA ClassStays ==
    ASSUME has' = has, NEW c PROVE Class(c)' = Class(c)
BY DEF Class, IsLoaded

\* A key stands for a name, or for a whole command
LEMMA KeyFacts ==
    ASSUME NEW c \in Commands, NEW d \in Commands, Key(c) = Key(d)
    PROVE  /\ c.name = d.name
           /\ c.name \in FullTextNames => c = d
<1>1. ASSUME NEW a, NEW b, NEW x PROVE <<a, b>> # <<x>>
  <2>1. Len(<<a, b>>) = 2 /\ Len(<<x>>) = 1
    OBVIOUS
  <2> QED BY <2>1
<1>2. CASE c.name \in FullTextNames /\ d.name \in FullTextNames
  <2>1. <<c.name, c.text>> = <<d.name, d.text>>
    BY <1>2 DEF Key
  <2>2. c.name = d.name /\ c.text = d.text
    BY <2>1
  <2> QED BY <2>2, TieredAssumption
<1>3. CASE c.name \notin FullTextNames /\ d.name \notin FullTextNames
  <2>1. <<c.name>> = <<d.name>>
    BY <1>3 DEF Key
  <2>2. c.name = d.name
    BY <2>1
  <2> QED BY <2>2, <1>3
<1>4. CASE c.name \in FullTextNames /\ d.name \notin FullTextNames
  BY <1>1, <1>4 DEF Key
<1>5. CASE c.name \notin FullTextNames /\ d.name \in FullTextNames
  BY <1>1, <1>5 DEF Key
<1> QED BY <1>2, <1>3, <1>4, <1>5

\* Where names decide languages, commands that share a key are classified alike
LEMMA AlikeByKey ==
    ASSUME NEW c \in Commands, NEW d \in Commands, Key(c) = Key(d), LanguageByName(c)
    PROVE  Class(d) = Class(c)
<1>1. c.name = d.name /\ (c.name \in FullTextNames => c = d)
  BY KeyFacts
<1>2. Detected(d) = Detected(c)
  BY <1>1 DEF LanguageByName
<1>3. Routed(d) = Routed(c)
  BY <1>1, <1>2 DEF Routed
<1>4. c.name = "npm" => c = d
  BY <1>1 DEF FullTextNames
<1>5. CASE c.name = "npm"
  BY <1>4, <1>5
<1>6. CASE c.name # "npm"
  BY <1>1, <1>3, <1>6 DEF Class, IsLoaded
<1> QED BY <1>5, <1>6

------------------------------------------------------------------------------
(* The cache *)

Keyed(s) == \A i, j \in DOMAIN s : s[i].key = s[j].key => i = j

LEMMA WithoutAt ==
    ASSUME cache \in Seq(Entries), NEW i \in DOMAIN cache
    PROVE  /\ Without(i) \in Seq(Entries)
           /\ Len(Without(i)) = Len(cache) - 1
           /\ \A j \in 1 .. (Len(cache) - 1) :
                Without(i)[j] = IF j < i THEN cache[j] ELSE cache[j + 1]
<1> DEFINE front == SubSeq(cache, 1, i - 1)
           back  == SubSeq(cache, i + 1, Len(cache))
<1>0. i \in Nat /\ 1 <= i /\ i <= Len(cache) /\ Len(cache) \in Nat
  OBVIOUS
<1>1. front \in Seq(Entries) /\ Len(front) = i - 1 /\ \A j \in 1 .. (i - 1) : front[j] = cache[j]
  <2>1. CASE i = 1
    BY <1>0, <2>1
  <2>2. CASE i > 1
    BY <1>0, <2>2, SubSeqProperties
  <2> QED BY <1>0, <2>1, <2>2
<1>2. /\ back \in Seq(Entries) /\ Len(back) = Len(cache) - i
      /\ \A j \in 1 .. (Len(cache) - i) : back[j] = cache[i + j]
  <2>1. CASE i = Len(cache)
    BY <1>0, <2>1
  <2>2. CASE i < Len(cache)
    BY <1>0, <2>2, SubSeqProperties
  <2> QED BY <1>0, <2>1, <2>2
<1>3. Without(i) = front \o back
  BY DEF Without
<1> HIDE DEF front, back
<1>4. /\ front \o back \in Seq(Entries)
      /\ Len(front \o back) = Len(front) + Len(back)
      /\ \A j \in 1 .. Len(front) + Len(back) :
            (front \o back)[j] = IF j <= Len(front) THEN front[j] ELSE back[j - Len(front)]
  BY <1>1, <1>2, ConcatProperties
<1>5. Len(front) + Len(back) = Len(cache) - 1
  BY <1>0, <1>1, <1>2
<1>6. ASSUME NEW j \in 1 .. (Len(cache) - 1), j < i PROVE (front \o back)[j] = cache[j]
  <2>1. j <= Len(front) /\ j \in 1 .. (i - 1)
    BY <1>0, <1>1, <1>6
  <2> QED BY <1>1, <1>4, <1>5, <2>1
<1>7. ASSUME NEW j \in 1 .. (Len(cache) - 1), ~(j < i)
      PROVE (front \o back)[j] = cache[j + 1]
  <2>1. ~(j <= Len(front)) /\ j - Len(front) \in 1 .. (Len(cache) - i)
    BY <1>0, <1>1, <1>7
  <2>2. i + (j - Len(front)) = j + 1
    BY <1>0, <1>1
  <2>3. (front \o back)[j] = back[j - Len(front)]
    BY <1>4, <1>5, <2>1
  <2> QED BY <1>2, <2>1, <2>2, <2>3
<1> QED BY <1>3, <1>4, <1>5, <1>6, <1>7

\* A found entry is put last, and nothing else is in the cache than before
LEMMA Found ==
    ASSUME cache \in Seq(Entries), Keyed(cache), NEW i \in DOMAIN cache
    PROVE  LET s == Append(Without(i), cache[i]) IN
           /\ s \in Seq(Entries) /\ Len(s) = Len(cache) /\ Keyed(s)
           /\ \A j \in DOMAIN s : \E m \in DOMAIN cache : s[j] = cache[m]
<1> DEFINE w == Without(i)
           s == Append(w, cache[i])
           from(j) == IF j = Len(cache) THEN i ELSE IF j < i THEN j ELSE j + 1
<1>1. /\ w \in Seq(Entries) /\ Len(w) = Len(cache) - 1
      /\ \A j \in 1 .. (Len(cache) - 1) : w[j] = IF j < i THEN cache[j] ELSE cache[j + 1]
  BY WithoutAt
<1>2. cache[i] \in Entries /\ Len(cache) \in Nat /\ i \in 1 .. Len(cache)
  OBVIOUS
<1> HIDE DEF w
<1>3. /\ s \in Seq(Entries) /\ Len(s) = Len(cache)
      /\ \A j \in 1 .. Len(cache) : s[j] = IF j = Len(cache) THEN cache[i] ELSE w[j]
  BY <1>1, <1>2
<1>4. ASSUME NEW j \in 1 .. Len(cache)
      PROVE from(j) \in DOMAIN cache /\ s[j] = cache[from(j)]
  BY <1>1, <1>2, <1>3
<1> HIDE DEF s
<1>5. ASSUME NEW j \in DOMAIN s, NEW m \in DOMAIN s, s[j].key = s[m].key
      PROVE j = m
  <2>1. j \in 1 .. Len(cache) /\ m \in 1 .. Len(cache)
    BY <1>3
  <2>2. from(j) = from(m)
    BY <1>4, <1>5, <2>1 DEF Keyed
  <2> QED BY <1>2, <2>1, <2>2
<1>6. ASSUME NEW j \in DOMAIN s PROVE \E m \in DOMAIN cache : s[j] = cache[m]
  <2>1. j \in 1 .. Len(cache)
    BY <1>3
  <2>2. from(j) \in DOMAIN cache /\ s[j] = cache[from(j)]
    BY <1>4, <2>1
  <2> QED BY <2>2
<1>7. Keyed(s)
  BY <1>5 DEF Keyed
<1>8. s \in Seq(Entries) /\ Len(s) = Len(cache)
  BY <1>3
<1> QED BY <1>6, <1>7, <1>8 DEF w, s

\* A new entry has a key that is not there
LEMMA Inserted ==
    ASSUME cache \in Seq(Entries), Len(cache) <= CacheSize, Keyed(cache),
           NEW e \in Entries, \A i \in DOMAIN cache : cache[i].key # e.key
    PROVE  /\ Insert(e) \in Seq(Entries) /\ Len(Insert(e)) <= CacheSize /\ Keyed(Insert(e))
           /\ \A j \in DOMAIN Insert(e) :
                Insert(e)[j] = e \/ \E m \in DOMAIN cache : Insert(e)[j] = cache[m]
<1> DEFINE t == IF Len(cache) >= CacheSize THEN Tail(cache) ELSE cache
           d == IF Len(cache) >= CacheSize THEN 1 ELSE 0
<1>0. CacheSize \in Nat \ {0}
  BY TieredAssumption
<1>1. /\ t \in Seq(Entries) /\ Len(t) = Len(cache) - d /\ Len(t) + 1 <= CacheSize
      /\ d \in {0, 1} /\ \A j \in 1 .. Len(t) : t[j] = cache[j + d] /\ j + d \in DOMAIN cache
  <2>1. CASE Len(cache) >= CacheSize
    <3>1. cache # <<>>
      BY <1>0, <2>1
    <3> QED BY <1>0, <2>1, <3>1
  <2>2. CASE ~(Len(cache) >= CacheSize)
    BY <1>0, <2>2
  <2> QED BY <2>1, <2>2
<1>2. Insert(e) = Append(t, e)
  BY DEF Insert
<1> HIDE DEF t, d
<1>3. /\ Append(t, e) \in Seq(Entries) /\ Len(Append(t, e)) = Len(t) + 1
      /\ \A j \in 1 .. Len(t) : Append(t, e)[j] = t[j]
      /\ Append(t, e)[Len(t) + 1] = e
  BY <1>1
<1>4. ASSUME NEW j \in DOMAIN Append(t, e), NEW m \in DOMAIN Append(t, e),
             Append(t, e)[j].key = Append(t, e)[m].key
      PROVE  j = m
  <2>0. Len(t) \in Nat /\ j \in 1 .. Len(t) + 1 /\ m \in 1 .. Len(t) + 1
    BY <1>1, <1>3
  <2>1. CASE j = Len(t) + 1 /\ m = Len(t) + 1
    BY <2>1
  <2>2. CASE j \in 1 .. Len(t) /\ m \in 1 .. Len(t)
    <3>1. cache[j + d].key = cache[m + d].key /\ j + d \in DOMAIN cache /\ m + d \in DOMAIN cache
      BY <1>1, <1>3, <1>4, <2>2
    <3>2. j + d = m + d
      BY <3>1 DEF Keyed
    <3> QED BY <1>1, <2>0, <3>2
  <2>3. CASE j = Len(t) + 1 /\ m \in 1 .. Len(t)
    BY <1>1, <1>3, <1>4, <2>3
  <2>4. CASE j \in 1 .. Len(t) /\ m = Len(t) + 1
    BY <1>1, <1>3, <1>4, <2>4
  <2> QED BY <2>0, <2>1, <2>2, <2>3, <2>4
<1>5. ASSUME NEW j \in DOMAIN Append(t, e)
      PROVE  Append(t, e)[j] = e \/ \E m \in DOMAIN cache : Append(t, e)[j] = cache[m]
  <2>0. Len(t) \in Nat /\ j \in 1 .. Len(t) + 1
    BY <1>1, <1>3
  <2>1. CASE j = Len(t) + 1
    BY <1>3, <2>1
  <2>2. CASE j \in 1 .. Len(t)
    BY <1>1, <1>3, <2>2
  <2> QED BY <2>0, <2>1, <2>2
<1> QED BY <1>1, <1>2, <1>3, <1>4, <1>5 DEF Keyed

\* Each entry is some command's classification, under its key
Sound(s) ==
    \A i \in DOMAIN s : \E c \in Commands : s[i].key = Key(c) /\ s[i].class = Class(c)

CacheOK == cache \in Seq(Entries) /\ Len(cache) <= CacheSize /\ Keyed(cache) /\ Sound(cache)

\* What classifyCommand returns is the classification of a command with this key
LEMMA Classified ==
    ASSUME has \in Configs, CacheOK, NEW c \in Commands
    PROVE  /\ Classification(c) \in Classes
           /\ \E d \in Commands : Key(d) = Key(c) /\ Classification(c) = Class(d)
<1>1. CASE Hits(Key(c)) # {}
  <2> DEFINE i == CHOOSE j \in Hits(Key(c)) : TRUE
  <2>1. i \in Hits(Key(c))
    BY <1>1
  <2>2. Classification(c) = cache[i].class
    BY <1>1 DEF Classification
  <2> HIDE DEF i
  <2>3. i \in DOMAIN cache /\ cache[i].key = Key(c) /\ cache[i] \in Entries
    BY <2>1 DEF Hits, CacheOK
  <2>4. PICK d \in Commands : cache[i].key = Key(d) /\ cache[i].class = Class(d)
    BY <2>3 DEF CacheOK, Sound
  <2>5. Class(d) \in Classes
    BY ClassType
  <2> QED BY <2>2, <2>3, <2>4, <2>5
<1>2. CASE Hits(Key(c)) = {}
  BY <1>2, ClassType DEF Classification
<1> QED BY <1>1, <1>2

LEMMA CacheStep ==
    ASSUME has \in Configs, CacheOK, NEW c \in Commands
    PROVE  /\ CacheAfter(c) \in Seq(Entries) /\ Len(CacheAfter(c)) <= CacheSize
           /\ Keyed(CacheAfter(c)) /\ Sound(CacheAfter(c))
<1>0. /\ cache \in Seq(Entries) /\ Len(cache) <= CacheSize /\ Keyed(cache)
      /\ \A i \in DOMAIN cache :
            \E d \in Commands : cache[i].key = Key(d) /\ cache[i].class = Class(d)
  BY DEF CacheOK, Sound
<1>1. CASE Hits(Key(c)) # {}
  <2> DEFINE i == CHOOSE j \in Hits(Key(c)) : TRUE
             s == Append(Without(i), cache[i])
  <2>1. i \in Hits(Key(c))
    BY <1>1
  <2>2. CacheAfter(c) = s
    BY <1>1 DEF CacheAfter
  <2> HIDE DEF i
  <2>3. i \in DOMAIN cache
    BY <2>1 DEF Hits
  <2>4. /\ s \in Seq(Entries) /\ Len(s) = Len(cache) /\ Keyed(s)
        /\ \A j \in DOMAIN s : \E m \in DOMAIN cache : s[j] = cache[m]
    BY <1>0, <2>3, Found
  <2> HIDE DEF s
  <2>5. Sound(s)
    BY <1>0, <2>4 DEF Sound
  <2> QED BY <1>0, <2>2, <2>4, <2>5
<1>2. CASE Hits(Key(c)) = {} /\ Class(c).analysed
  <2>1. CacheAfter(c) = cache
    BY <1>2 DEF CacheAfter
  <2> QED BY <2>1 DEF CacheOK
<1>3. CASE Hits(Key(c)) = {} /\ ~Class(c).analysed
  <2> DEFINE e == [key |-> Key(c), class |-> Class(c)]
  <2>1. CacheAfter(c) = Insert(e)
    BY <1>3 DEF CacheAfter
  <2>2. e \in Entries /\ e.key = Key(c) /\ e.class = Class(c)
    BY ClassType DEF Entries
  <2>3. \A i \in DOMAIN cache : cache[i].key # e.key
    BY <1>3, <2>2 DEF Hits
  <2> HIDE DEF e
  <2>4. /\ Insert(e) \in Seq(Entries) /\ Len(Insert(e)) <= CacheSize /\ Keyed(Insert(e))
        /\ \A j \in DOMAIN Insert(e) :
              Insert(e)[j] = e \/ \E m \in DOMAIN cache : Insert(e)[j] = cache[m]
    BY <1>0, <2>2, <2>3, Inserted
  <2>5. Sound(Insert(e))
    <3> SUFFICES ASSUME NEW j \in DOMAIN Insert(e)
                 PROVE \E d \in Commands :
                         Insert(e)[j].key = Key(d) /\ Insert(e)[j].class = Class(d)
      BY DEF Sound
    <3>1. CASE Insert(e)[j] = e
      BY <2>2, <3>1
    <3>2. CASE \E m \in DOMAIN cache : Insert(e)[j] = cache[m]
      BY <1>0, <3>2
    <3> QED BY <2>4, <3>1, <3>2
  <2> QED BY <2>1, <2>4, <2>5
<1> QED BY <1>1, <1>2, <1>3

LEMMA SoundStays ==
    ASSUME has' = has, Sound(cache') PROVE Sound(cache)'
BY ClassStays DEF Sound

------------------------------------------------------------------------------
(* The runs of one call *)

Endings == {"ok", "fail", "threw", "late"}

End(q, outcome) == [q EXCEPT ![Len(q)].outcome = outcome]

NewRun(st, where, stdin) ==
    [stage |-> st, where |-> where, stdin |-> Handed(where, stdin), outcome |-> "running"]

\* The stdin of a segment: the caller's or file's for the first, later the output
\* of the run that ended the segment before
InputOf(st, in, q) ==
    IF st = 1 THEN in \in {FromCaller, FromFile}
    ELSE in \in DOMAIN q /\ q[in].outcome = "ok" /\ q[in].stage = st - 1

\* PipelineInOrder of one call
Ordered(q) ==
    \A i \in DOMAIN q :
        /\ i = 1 => q[i].stage = 1
        /\ i > 1 =>
              \/ q[i].stage = q[i - 1].stage /\ q[i - 1].outcome \in {"threw", "late"}
              \/ q[i].stage = q[i - 1].stage + 1 /\ q[i - 1].outcome = "ok"
        /\ q[i].stdin # Nothing =>
              IF q[i].stage = 1 THEN q[i].stdin \in {FromCaller, FromFile}
              ELSE /\ q[i].stdin \in 1 .. (i - 1)
                   /\ q[q[i].stdin].outcome = "ok"
                   /\ q[q[i].stdin].stage = q[i].stage - 1

\* RunsBounded of one call
Bounded(q) ==
    \A i, j \in DOMAIN q :
        i < j /\ q[i].stage = q[j].stage =>
            /\ q[j].where = "sandbox"
            /\ q[i].where = "sandbox" =>
                  /\ j = i + 1
                  /\ i > 1
                  /\ q[i - 1].where = "polyglot"
                  /\ q[i - 1].stage = q[i].stage

\* The catch blocks that are left tell which run of its segment the last run is
Tries(ct, q) ==
    LET n == Len(q) IN
    /\ ct = 0 => q[n].where = "sandbox"
    /\ ct = 2 => q[n].where = "polyglot"
    /\ ct = 1 /\ q[n].where = "sandbox" =>
          n > 1 /\ q[n - 1].where = "polyglot" /\ q[n - 1].stage = q[n].stage

\* A call before its next segment, and while a run is awaited
AtNext(st, in, q) ==
    /\ InputOf(st, in, q)
    /\ \A i \in DOMAIN q : q[i].stage < st
    /\ IF st = 1 THEN q = <<>>
       ELSE q # <<>> /\ q[Len(q)].stage = st - 1 /\ q[Len(q)].outcome = "ok"

AtRun(st, in, ct, q) ==
    /\ q # <<>>
    /\ q[Len(q)].stage = st /\ q[Len(q)].outcome = "running"
    /\ \A i \in DOMAIN q : q[i].stage <= st
    /\ InputOf(st, in, q)
    /\ Tries(ct, q)

\* The invariant of a call's runs
Call(p, st, in, ct, q) ==
    /\ Ordered(q)
    /\ Bounded(q)
    /\ p \in {"idle", "reading"} => q = <<>> /\ st = 1 /\ in = FromCaller
    /\ p = "next" => AtNext(st, in, q)
    /\ p \in Awaits => AtRun(st, in, ct, q)

LEMMA RunFacts ==
    ASSUME NEW r \in Runs
    PROVE  /\ r.stage \in Nat \ {0} /\ r.where \in Handlers /\ r.stdin \in Int
           /\ r.outcome \in {"running"} \union Endings
BY DEF Runs, Endings

LEMMA NewRunFacts ==
    ASSUME NEW st \in Nat \ {0}, NEW where \in Handlers, NEW in \in Int
    PROVE  /\ NewRun(st, where, in) \in Runs
           /\ NewRun(st, where, in).stage = st
           /\ NewRun(st, where, in).where = where
           /\ NewRun(st, where, in).stdin \in {in, Nothing}
           /\ NewRun(st, where, in).outcome = "running"
<1>1. Handed(where, in) \in {in, Nothing} /\ Handed(where, in) \in Int
  BY DEF Handed, Nothing
<1> QED BY <1>1 DEF NewRun, Runs

LEMMA EndFacts ==
    ASSUME NEW q \in Seq(Runs), q # <<>>, NEW o \in Endings
    PROVE  LET n == Len(q) IN
           /\ n \in Nat \ {0} /\ n \in DOMAIN q
           /\ End(q, o) \in Seq(Runs) /\ Len(End(q, o)) = n /\ End(q, o) # <<>>
           /\ DOMAIN End(q, o) = DOMAIN q
           /\ \A i \in DOMAIN q : i # n => End(q, o)[i] = q[i]
           /\ \A i \in DOMAIN q : /\ End(q, o)[i].stage = q[i].stage
                                  /\ End(q, o)[i].where = q[i].where
                                  /\ End(q, o)[i].stdin = q[i].stdin
           /\ End(q, o)[n].outcome = o
<1> DEFINE n == Len(q)
           r == [q[n] EXCEPT !.outcome = o]
<1>1. n \in Nat \ {0} /\ n \in DOMAIN q /\ DOMAIN q = 1 .. n
  OBVIOUS
<1>2. q[n] \in Runs
  BY <1>1
<1>3. /\ r \in Runs /\ r.outcome = o
      /\ r.stage = q[n].stage /\ r.where = q[n].where /\ r.stdin = q[n].stdin
  BY <1>2 DEF Runs, Endings
<1>4. End(q, o) = [q EXCEPT ![n] = r]
  BY DEF End
<1> HIDE DEF r
<1>5. /\ [q EXCEPT ![n] = r] \in Seq(Runs) /\ Len([q EXCEPT ![n] = r]) = n
      /\ DOMAIN [q EXCEPT ![n] = r] = DOMAIN q
      /\ \A i \in DOMAIN q : [q EXCEPT ![n] = r][i] = IF i = n THEN r ELSE q[i]
  BY <1>1, <1>3
<1>6. End(q, o) # <<>>
  BY <1>1, <1>4, <1>5
<1> QED BY <1>1, <1>3, <1>4, <1>5, <1>6

LEMMA AddFacts ==
    ASSUME NEW q \in Seq(Runs), NEW r \in Runs
    PROVE  LET s == Append(q, r) IN
           /\ Len(q) \in Nat
           /\ s \in Seq(Runs) /\ Len(s) = Len(q) + 1 /\ s # <<>>
           /\ DOMAIN s = 1 .. (Len(q) + 1) /\ DOMAIN q = 1 .. Len(q)
           /\ \A i \in DOMAIN q : s[i] = q[i]
           /\ s[Len(q) + 1] = r
OBVIOUS

\* The outcome of the last run is all that its end changes
LEMMA EndKeeps ==
    ASSUME NEW q \in Seq(Runs), q # <<>>, NEW o \in Endings, Ordered(q), Bounded(q)
    PROVE  Ordered(End(q, o)) /\ Bounded(End(q, o))
<1> DEFINE n == Len(q)
           e == End(q, o)
<1>1. /\ n \in Nat \ {0} /\ DOMAIN q = 1 .. n
      /\ e \in Seq(Runs) /\ Len(e) = n /\ DOMAIN e = DOMAIN q
      /\ \A i \in DOMAIN q : i # n => e[i] = q[i]
      /\ \A i \in DOMAIN q : /\ e[i].stage = q[i].stage
                             /\ e[i].where = q[i].where
                             /\ e[i].stdin = q[i].stdin
  BY EndFacts
<1>2. \A i \in DOMAIN q : q[i] \in Runs
  OBVIOUS
<1> HIDE DEF e, n
<1>3. ASSUME NEW i \in DOMAIN e
      PROVE  /\ i = 1 => e[i].stage = 1
             /\ i > 1 =>
                  \/ e[i].stage = e[i - 1].stage /\ e[i - 1].outcome \in {"threw", "late"}
                  \/ e[i].stage = e[i - 1].stage + 1 /\ e[i - 1].outcome = "ok"
             /\ e[i].stdin # Nothing =>
                  IF e[i].stage = 1 THEN e[i].stdin \in {FromCaller, FromFile}
                  ELSE /\ e[i].stdin \in 1 .. (i - 1)
                       /\ e[e[i].stdin].outcome = "ok"
                       /\ e[e[i].stdin].stage = e[i].stage - 1
  <2>0. i \in 1 .. n /\ i \in DOMAIN q
    BY <1>1
  <2>1. i = 1 => e[i].stage = 1
    BY <1>1, <2>0 DEF Ordered
  <2>2. ASSUME i > 1
        PROVE \/ e[i].stage = e[i - 1].stage /\ e[i - 1].outcome \in {"threw", "late"}
              \/ e[i].stage = e[i - 1].stage + 1 /\ e[i - 1].outcome = "ok"
    <3>1. i - 1 \in DOMAIN q /\ i - 1 # n
      BY <1>1, <2>0, <2>2
    <3>2. e[i - 1] = q[i - 1] /\ e[i].stage = q[i].stage
      BY <1>1, <2>0, <3>1
    <3> QED BY <2>0, <2>2, <3>2 DEF Ordered
  <2>3. ASSUME e[i].stdin # Nothing, e[i].stage = 1
        PROVE  e[i].stdin \in {FromCaller, FromFile}
    BY <1>1, <2>0, <2>3 DEF Ordered
  <2>4. ASSUME e[i].stdin # Nothing, e[i].stage # 1
        PROVE  /\ e[i].stdin \in 1 .. (i - 1)
               /\ e[e[i].stdin].outcome = "ok"
               /\ e[e[i].stdin].stage = e[i].stage - 1
    <3>1. e[i].stdin = q[i].stdin /\ e[i].stage = q[i].stage
      BY <1>1, <2>0
    <3>2. /\ q[i].stdin \in 1 .. (i - 1)
          /\ q[q[i].stdin].outcome = "ok"
          /\ q[q[i].stdin].stage = q[i].stage - 1
      BY <2>0, <2>4, <3>1 DEF Ordered
    <3>3. q[i].stdin \in DOMAIN q /\ q[i].stdin # n
      BY <1>1, <2>0, <3>2
    <3> QED BY <1>1, <3>1, <3>2, <3>3
  <2> QED BY <2>1, <2>2, <2>3, <2>4
<1>4. Ordered(e)
  BY <1>3 DEF Ordered
<1>5. ASSUME NEW i \in DOMAIN e, NEW j \in DOMAIN e, i < j, e[i].stage = e[j].stage
      PROVE  /\ e[j].where = "sandbox"
             /\ e[i].where = "sandbox" =>
                   /\ j = i + 1
                   /\ i > 1
                   /\ e[i - 1].where = "polyglot"
                   /\ e[i - 1].stage = e[i].stage
  <2>1. i \in DOMAIN q /\ j \in DOMAIN q /\ q[i].stage = q[j].stage
    BY <1>1, <1>5
  <2>2. /\ q[j].where = "sandbox"
        /\ q[i].where = "sandbox" =>
              /\ j = i + 1
              /\ i > 1
              /\ q[i - 1].where = "polyglot"
              /\ q[i - 1].stage = q[i].stage
    BY <1>5, <2>1 DEF Bounded
  <2>3. i > 1 => i - 1 \in DOMAIN q
    BY <1>1, <2>1
  <2> QED BY <1>1, <2>1, <2>2, <2>3
<1>6. Bounded(e)
  BY <1>5 DEF Bounded
<1> QED BY <1>4, <1>6 DEF e

\* A run that follows the runs of its pipeline keeps them in order
LEMMA AddOrdered ==
    ASSUME NEW q \in Seq(Runs), Ordered(q),
           NEW st \in Nat \ {0}, NEW where \in Handlers, NEW in \in Int,
           InputOf(st, in, q),
           IF q = <<>> THEN st = 1
           ELSE \/ st = q[Len(q)].stage /\ q[Len(q)].outcome \in {"threw", "late"}
                \/ st = q[Len(q)].stage + 1 /\ q[Len(q)].outcome = "ok"
    PROVE  Ordered(Append(q, NewRun(st, where, in)))
<1> DEFINE r == NewRun(st, where, in)
           s == Append(q, r)
           n == Len(q)
<1>1. r \in Runs /\ r.stage = st /\ r.stdin \in {in, Nothing}
  BY NewRunFacts
<1> HIDE DEF r
<1>2. /\ n \in Nat /\ s \in Seq(Runs) /\ Len(s) = n + 1
      /\ DOMAIN s = 1 .. (n + 1) /\ DOMAIN q = 1 .. n
      /\ \A i \in DOMAIN q : s[i] = q[i]
      /\ s[n + 1] = r
  BY <1>1, AddFacts
<1> HIDE DEF s
<1> SUFFICES ASSUME NEW i \in DOMAIN s
             PROVE  /\ i = 1 => s[i].stage = 1
                    /\ i > 1 =>
                         \/ s[i].stage = s[i - 1].stage /\ s[i - 1].outcome \in {"threw", "late"}
                         \/ s[i].stage = s[i - 1].stage + 1 /\ s[i - 1].outcome = "ok"
                    /\ s[i].stdin # Nothing =>
                         IF s[i].stage = 1 THEN s[i].stdin \in {FromCaller, FromFile}
                         ELSE /\ s[i].stdin \in 1 .. (i - 1)
                              /\ s[s[i].stdin].outcome = "ok"
                              /\ s[s[i].stdin].stage = s[i].stage - 1
  BY DEF Ordered, s, r
<1>3. CASE i \in DOMAIN q
  <2>1. i > 1 => i - 1 \in DOMAIN q
    BY <1>2, <1>3
  <2>2. q[i].stdin \in 1 .. (i - 1) => q[i].stdin \in DOMAIN q
    BY <1>2, <1>3
  <2>3. /\ i = 1 => q[i].stage = 1
        /\ i > 1 =>
             \/ q[i].stage = q[i - 1].stage /\ q[i - 1].outcome \in {"threw", "late"}
             \/ q[i].stage = q[i - 1].stage + 1 /\ q[i - 1].outcome = "ok"
        /\ q[i].stdin # Nothing =>
             IF q[i].stage = 1 THEN q[i].stdin \in {FromCaller, FromFile}
             ELSE /\ q[i].stdin \in 1 .. (i - 1)
                  /\ q[q[i].stdin].outcome = "ok"
                  /\ q[q[i].stdin].stage = q[i].stage - 1
    BY <1>3 DEF Ordered
  <2> QED BY <1>2, <1>3, <2>1, <2>2, <2>3
<1>4. CASE i = n + 1
  <2>1. s[i] = r
    BY <1>2, <1>4
  <2>2. i = 1 => s[i].stage = 1
    BY <1>1, <1>2, <1>4, <2>1
  <2>3. ASSUME i > 1
        PROVE \/ s[i].stage = s[i - 1].stage /\ s[i - 1].outcome \in {"threw", "late"}
              \/ s[i].stage = s[i - 1].stage + 1 /\ s[i - 1].outcome = "ok"
    <3>1. q # <<>> /\ i - 1 = n /\ n \in DOMAIN q
      BY <1>2, <1>4, <2>3
    <3>2. s[i - 1] = q[n]
      BY <1>2, <3>1
    <3> QED BY <1>1, <2>1, <3>1, <3>2
  <2>4. ASSUME s[i].stdin # Nothing, s[i].stage = 1
        PROVE  s[i].stdin \in {FromCaller, FromFile}
    BY <1>1, <2>1, <2>4 DEF InputOf
  <2>5. ASSUME s[i].stdin # Nothing, s[i].stage # 1
        PROVE  /\ s[i].stdin \in 1 .. (i - 1)
               /\ s[s[i].stdin].outcome = "ok"
               /\ s[s[i].stdin].stage = s[i].stage - 1
    <3>1. s[i].stdin = in /\ s[i].stage = st
      BY <1>1, <2>1, <2>5
    <3>2. in \in DOMAIN q /\ q[in].outcome = "ok" /\ q[in].stage = st - 1
      BY <2>5, <3>1 DEF InputOf
    <3> QED BY <1>2, <1>4, <3>1, <3>2
  <2> QED BY <2>2, <2>3, <2>4, <2>5
<1> QED BY <1>2, <1>3, <1>4

\* The first run of a segment
LEMMA AddFirst ==
    ASSUME NEW q \in Seq(Runs), Ordered(q), Bounded(q),
           NEW st \in Nat \ {0}, NEW where \in Handlers, NEW in \in Int,
           AtNext(st, in, q)
    PROVE  LET s == Append(q, NewRun(st, where, in)) IN
           /\ Ordered(s) /\ Bounded(s)
           /\ AtRun(st, in, Guards(where), s)
<1> DEFINE r == NewRun(st, where, in)
           s == Append(q, r)
           n == Len(q)
<1>1. /\ r \in Runs /\ r.stage = st /\ r.where = where /\ r.outcome = "running"
  BY NewRunFacts
<1>2. Ordered(s)
  <2>1. InputOf(st, in, q)
    BY DEF AtNext
  <2>2. IF q = <<>> THEN st = 1
        ELSE \/ st = q[Len(q)].stage /\ q[Len(q)].outcome \in {"threw", "late"}
             \/ st = q[Len(q)].stage + 1 /\ q[Len(q)].outcome = "ok"
    <3>1. CASE st = 1
      BY <3>1 DEF AtNext
    <3>2. CASE st # 1
      <4>1. q # <<>> /\ q[n].stage = st - 1 /\ q[n].outcome = "ok"
        BY <3>2 DEF AtNext
      <4> QED BY <4>1
    <3> QED BY <3>1, <3>2
  <2> QED BY <2>1, <2>2, AddOrdered
<1> HIDE DEF r
<1>3. /\ n \in Nat /\ s \in Seq(Runs) /\ Len(s) = n + 1 /\ s # <<>>
      /\ DOMAIN s = 1 .. (n + 1) /\ DOMAIN q = 1 .. n
      /\ \A i \in DOMAIN q : s[i] = q[i]
      /\ s[n + 1] = r
  BY <1>1, AddFacts
<1> HIDE DEF s, n
<1>4. \A i \in DOMAIN q : q[i].stage < st /\ q[i].stage \in Nat
  BY RunFacts DEF AtNext
<1>5. ASSUME NEW i \in DOMAIN s, NEW j \in DOMAIN s, i < j, s[i].stage = s[j].stage
      PROVE  /\ s[j].where = "sandbox"
             /\ s[i].where = "sandbox" =>
                   /\ j = i + 1
                   /\ i > 1
                   /\ s[i - 1].where = "polyglot"
                   /\ s[i - 1].stage = s[i].stage
  <2>1. i \in DOMAIN q
    BY <1>3, <1>5
  <2>2. j \in DOMAIN q
    BY <1>1, <1>3, <1>4, <1>5, <2>1
  <2>3. q[i].stage = q[j].stage
    BY <1>3, <1>5, <2>1, <2>2
  <2>4. /\ q[j].where = "sandbox"
        /\ q[i].where = "sandbox" =>
              /\ j = i + 1
              /\ i > 1
              /\ q[i - 1].where = "polyglot"
              /\ q[i - 1].stage = q[i].stage
    BY <1>5, <2>1, <2>2, <2>3 DEF Bounded
  <2>5. i > 1 => i - 1 \in DOMAIN q
    BY <1>3, <2>1
  <2> QED BY <1>3, <2>1, <2>2, <2>4, <2>5
<1>6. Bounded(s)
  BY <1>5 DEF Bounded
<1>7. InputOf(st, in, s)
  <2>1. CASE st = 1
    BY <2>1 DEF AtNext, InputOf
  <2>2. CASE st # 1
    <3>1. in \in DOMAIN q /\ q[in].outcome = "ok" /\ q[in].stage = st - 1
      BY <2>2 DEF AtNext, InputOf
    <3> QED BY <1>3, <2>2, <3>1 DEF InputOf
  <2> QED BY <2>1, <2>2
<1>8. \A i \in DOMAIN s : s[i].stage <= st
  BY <1>1, <1>3, <1>4
<1>9. Tries(Guards(where), s)
  BY <1>1, <1>3 DEF Tries, Guards
<1>10. AtRun(st, in, Guards(where), s)
  BY <1>1, <1>3, <1>7, <1>8, <1>9 DEF AtRun
<1> QED BY <1>2, <1>6, <1>10 DEF s, r

\* A run of the sandbox after one that threw
LEMMA AddSandbox ==
    ASSUME NEW q \in Seq(Runs), Ordered(q), Bounded(q),
           NEW st \in Nat \ {0}, NEW in \in Int, NEW ct \in 1 .. 2, NEW o \in {"threw", "late"},
           AtRun(st, in, ct, q)
    PROVE  LET s == Append(End(q, o), NewRun(st, "sandbox", in)) IN
           /\ Ordered(s) /\ Bounded(s)
           /\ AtRun(st, in, ct - 1, s)
<1> DEFINE e == End(q, o)
           r == NewRun(st, "sandbox", in)
           s == Append(e, r)
           n == Len(q)
<1>0. o \in Endings /\ q # <<>>
  BY DEF Endings, AtRun
<1>1. r \in Runs /\ r.stage = st /\ r.where = "sandbox" /\ r.outcome = "running"
  BY NewRunFacts DEF Handlers
<1>2. /\ n \in Nat \ {0} /\ DOMAIN q = 1 .. n
      /\ e \in Seq(Runs) /\ Len(e) = n /\ e # <<>> /\ DOMAIN e = 1 .. n
      /\ \A i \in DOMAIN q : i # n => e[i] = q[i]
      /\ \A i \in DOMAIN q : e[i].stage = q[i].stage /\ e[i].where = q[i].where
      /\ e[n].outcome = o
  BY <1>0, EndFacts
<1>3. Ordered(e) /\ Bounded(e)
  BY <1>0, EndKeeps
<1> HIDE DEF e, n
<1>4. /\ q[n].stage = st /\ q[n].outcome = "running"
      /\ \A i \in DOMAIN q : q[i].stage <= st
      /\ InputOf(st, in, q) /\ Tries(ct, q)
  BY DEF AtRun, n
<1>5. InputOf(st, in, e)
  <2>1. CASE st = 1
    BY <1>4, <2>1 DEF InputOf
  <2>2. CASE st # 1
    <3>1. in \in DOMAIN q /\ q[in].outcome = "ok" /\ q[in].stage = st - 1
      BY <1>4, <2>2 DEF InputOf
    <3>2. in # n
      BY <1>4, <3>1
    <3> QED BY <1>2, <2>2, <3>1, <3>2 DEF InputOf
  <2> QED BY <2>1, <2>2
<1>6. Ordered(s)
  <2>1. st = e[Len(e)].stage /\ e[Len(e)].outcome \in {"threw", "late"}
    BY <1>2, <1>4
  <2> QED BY <1>2, <1>3, <1>5, <2>1, AddOrdered DEF Handlers
<1> HIDE DEF r
<1>7. /\ s \in Seq(Runs) /\ Len(s) = n + 1 /\ s # <<>> /\ DOMAIN s = 1 .. (n + 1)
      /\ \A i \in 1 .. n : s[i] = e[i]
      /\ s[n + 1] = r
  BY <1>1, <1>2, AddFacts
<1> HIDE DEF s
<1>8. /\ ct = 2 => e[n].where = "polyglot"
      /\ ct = 1 /\ e[n].where = "sandbox" =>
            n > 1 /\ e[n - 1].where = "polyglot" /\ e[n - 1].stage = e[n].stage
  <2>1. n \in DOMAIN q /\ (n > 1 => n - 1 \in DOMAIN q)
    BY <1>2
  <2> QED BY <1>2, <1>4, <2>1 DEF Tries, n
<1>9. ASSUME NEW i \in DOMAIN s, NEW j \in DOMAIN s, i < j, s[i].stage = s[j].stage
      PROVE  /\ s[j].where = "sandbox"
             /\ s[i].where = "sandbox" =>
                   /\ j = i + 1
                   /\ i > 1
                   /\ s[i - 1].where = "polyglot"
                   /\ s[i - 1].stage = s[i].stage
  <2>0. i \in 1 .. n /\ i \in DOMAIN e /\ (i > 1 => i - 1 \in 1 .. n)
    BY <1>2, <1>7, <1>9
  <2>1. CASE j \in 1 .. n
    <3>1. e[i].stage = e[j].stage
      BY <1>7, <1>9, <2>0, <2>1
    <3>2. j \in DOMAIN e
      BY <1>2, <2>1
    <3>3. /\ e[j].where = "sandbox"
          /\ e[i].where = "sandbox" =>
                /\ j = i + 1
                /\ i > 1
                /\ e[i - 1].where = "polyglot"
                /\ e[i - 1].stage = e[i].stage
      BY <1>3, <1>9, <2>0, <3>1, <3>2 DEF Bounded
    <3> QED BY <1>7, <2>0, <2>1, <3>3
  <2>2. CASE j = n + 1
    <3>1. s[j] = r /\ e[i].stage = st /\ s[i] = e[i]
      BY <1>1, <1>7, <1>9, <2>0, <2>2
    <3>2. CASE i = n
      BY <1>1, <1>2, <1>7, <1>8, <2>0, <2>2, <3>1, <3>2
    <3>3. CASE i # n
      <4>1. i < n /\ n \in DOMAIN e /\ e[n].stage = st
        BY <1>2, <1>4, <2>0, <3>3
      <4>2. /\ e[n].where = "sandbox"
            /\ e[i].where = "sandbox" => /\ n = i + 1
                                        /\ i > 1
                                        /\ e[i - 1].where = "polyglot"
                                        /\ e[i - 1].stage = e[i].stage
        BY <1>3, <2>0, <3>1, <4>1 DEF Bounded
      <4>3. ct = 1 /\ n > 1 /\ e[n - 1].where = "polyglot" /\ e[n - 1].stage = st
        BY <1>8, <4>1, <4>2
      <4>4. i = n - 1
        <5>1. SUFFICES ASSUME i # n - 1 PROVE FALSE
          OBVIOUS
        <5>2. i < n - 1 /\ n - 1 \in DOMAIN e
          BY <1>2, <2>0, <4>1, <4>3, <5>1
        <5>3. e[n - 1].where = "sandbox"
          BY <1>3, <2>0, <3>1, <4>3, <5>2 DEF Bounded
        <5> QED BY <4>3, <5>3
      <4> QED BY <1>1, <3>1, <4>3, <4>4
    <3> QED BY <3>2, <3>3
  <2> QED BY <1>2, <1>7, <2>1, <2>2
<1>10. Bounded(s)
  BY <1>9 DEF Bounded
<1>11. InputOf(st, in, s)
  <2>1. CASE st = 1
    BY <1>4, <2>1 DEF InputOf
  <2>2. CASE st # 1
    <3>1. in \in DOMAIN e /\ e[in].outcome = "ok" /\ e[in].stage = st - 1
      BY <1>5, <2>2 DEF InputOf
    <3> QED BY <1>2, <1>7, <2>2, <3>1 DEF InputOf
  <2> QED BY <2>1, <2>2
<1>12. \A i \in DOMAIN s : s[i].stage <= st
  <2>1. \A i \in 1 .. n : s[i].stage <= st
    BY <1>2, <1>4, <1>7
  <2> QED BY <1>1, <1>2, <1>7, <2>1
<1>13. Tries(ct - 1, s)
  <2>1. s[Len(s)].where = "sandbox" /\ s[Len(s)].stage = st
    BY <1>1, <1>7
  <2>2. ct = 2 => n > 0 /\ s[n].where = "polyglot" /\ s[n].stage = st
    BY <1>2, <1>4, <1>7, <1>8
  <2>3. Len(s) > 1 /\ Len(s) - 1 = n
    BY <1>2, <1>7
  <2> QED BY <2>1, <2>2, <2>3 DEF Tries
<1>14. AtRun(st, in, ct - 1, s)
  BY <1>1, <1>7, <1>11, <1>12, <1>13 DEF AtRun
<1> QED BY <1>6, <1>10, <1>14 DEF s, e, r

\* A success of a segment is where the next one starts
LEMMA EndOk ==
    ASSUME NEW q \in Seq(Runs), NEW st \in Nat \ {0}, NEW in, NEW ct, AtRun(st, in, ct, q)
    PROVE  AtNext(st + 1, Len(q), End(q, "ok"))
<1> DEFINE e == End(q, "ok")
           n == Len(q)
<1>1. q # <<>> /\ q[n].stage = st /\ \A i \in DOMAIN q : q[i].stage <= st
  BY DEF AtRun
<1>2. /\ n \in Nat \ {0} /\ n \in DOMAIN q
      /\ Len(e) = n /\ e # <<>> /\ DOMAIN e = DOMAIN q
      /\ \A i \in DOMAIN q : e[i].stage = q[i].stage
      /\ e[n].outcome = "ok"
  BY <1>1, EndFacts DEF Endings
<1> HIDE DEF e, n
<1>3. \A i \in DOMAIN q : q[i].stage \in Nat
  BY RunFacts
<1>4. InputOf(st + 1, n, e)
  BY <1>1, <1>2 DEF InputOf
<1>5. \A i \in DOMAIN e : e[i].stage < st + 1
  BY <1>1, <1>2, <1>3
<1>6. e[Len(e)].stage = (st + 1) - 1 /\ e[Len(e)].outcome = "ok" /\ st + 1 # 1
  BY <1>1, <1>2
<1>7. AtNext(st + 1, n, e)
  BY <1>2, <1>4, <1>5, <1>6 DEF AtNext
<1> QED BY <1>7 DEF e, n

------------------------------------------------------------------------------
(* The invariant *)

PCs == {"idle", "reading", "next", "running", "body", "done", "rejected"}

\* SettlesRight of one call
Settled(p, pp, q) ==
    /\ p = "done" =>
          \/ q = <<>>
          \/ q[Len(q)].outcome = "ok" /\ q[Len(q)].stage = Len(pp)
          \/ q[Len(q)].outcome = "fail"
          \/ q[Len(q)].outcome = "late" /\ q[Len(q)].where = "polyglot"
    /\ p = "rejected" /\ has.sandbox =>
          /\ q # <<>>
          /\ q[Len(q)].where = "sandbox"
          /\ q[Len(q)].outcome \in {"threw", "late"}

\* A running call was dispatched by the classification of a command with its key
Dispatched(p, pp, st, cls) ==
    p \in Awaits => \E d \in Commands : Key(d) = Key(pp[st]) /\ cls = Class(d)

Typed(p, pp, st, in, cls, ct, q) ==
    /\ p \in PCs /\ pp \in Seq(Commands) /\ st \in Nat \ {0} /\ in \in Int
    /\ cls \in Classes \union {None} /\ ct \in 0 .. 2 /\ q \in Seq(Runs)
    /\ p \in Awaits \union {"next"} => st \in DOMAIN pp
    /\ p \in Awaits => q # <<>>

\* What holds of each call
CallOK(p, pp, st, in, cls, ct, q) ==
    /\ Typed(p, pp, st, in, cls, ct, q)
    /\ Call(p, st, in, ct, q)
    /\ Settled(p, pp, q)
    /\ Dispatched(p, pp, st, cls)

OK(k) == CallOK(pc[k], pipe[k], stage[k], input[k], class[k], catches[k], runs[k])

Functions ==
    /\ pc \in [Callers -> PCs]
    /\ pipe \in [Callers -> Seq(Commands)]
    /\ stage \in [Callers -> Nat \ {0}]
    /\ input \in [Callers -> Int]
    /\ class \in [Callers -> Classes \union {None}]
    /\ catches \in [Callers -> 0 .. 2]
    /\ runs \in [Callers -> Seq(Runs)]

Inv ==
    /\ has \in Configs
    /\ CacheOK
    /\ Functions
    /\ \A k \in Callers : OK(k)

LEMMA InvImplies == Inv => TypeOK /\ PipelineInOrder /\ RunsBounded /\ SettlesRight
<1> SUFFICES ASSUME Inv PROVE TypeOK /\ PipelineInOrder /\ RunsBounded /\ SettlesRight
  OBVIOUS
<1>1. \A k \in Callers : OK(k)
  BY DEF Inv
<1>2. TypeOK
  BY <1>1 DEF TypeOK, Inv, CacheOK, Keyed, Functions, PCs, OK, CallOK, Typed
<1>3. PipelineInOrder
  BY <1>1 DEF PipelineInOrder, OK, CallOK, Call, Ordered
<1>4. RunsBounded
  BY <1>1 DEF RunsBounded, OK, CallOK, Call, Bounded
<1>5. SettlesRight
  BY <1>1 DEF SettlesRight, OK, CallOK, Settled, Last
<1> QED BY <1>2, <1>3, <1>4, <1>5

LEMMA InvRoutes == Inv => RoutedRight
<1> SUFFICES ASSUME Inv, NEW k \in Callers, pc[k] \in Awaits, LanguageByName(Segment(k))
             PROVE  class[k] = Class(Segment(k))
  BY DEF RoutedRight
<1>1. OK(k)
  BY DEF Inv
<1>2. Segment(k) \in Commands
  BY <1>1 DEF OK, CallOK, Typed, Segment
<1>3. PICK d \in Commands : Key(d) = Key(Segment(k)) /\ class[k] = Class(d)
  BY <1>1 DEF OK, CallOK, Dispatched, Segment
<1> QED BY <1>2, <1>3, AlikeByKey

\* A step of one caller that leaves the others as they were
LEMMA OneCaller ==
    ASSUME Inv, has' = has, CacheOK', NEW k \in Callers,
           NEW p, NEW pp, NEW st, NEW in, NEW cls, NEW ct, NEW q,
           pc' = [pc EXCEPT ![k] = p], pipe' = [pipe EXCEPT ![k] = pp],
           stage' = [stage EXCEPT ![k] = st], input' = [input EXCEPT ![k] = in],
           class' = [class EXCEPT ![k] = cls], catches' = [catches EXCEPT ![k] = ct],
           runs' = [runs EXCEPT ![k] = q],
           CallOK(p, pp, st, in, cls, ct, q)
    PROVE  Inv'
<1>0. Functions /\ has \in Configs /\ \A j \in Callers : OK(j)
  BY DEF Inv
<1>1. Typed(p, pp, st, in, cls, ct, q)
  BY DEF CallOK
<1>2. Functions'
  BY <1>0, <1>1 DEF Functions, Typed
<1>3. ASSUME NEW j \in Callers, NEW a1, NEW a2, NEW a3, NEW a4, NEW a5, NEW a6, NEW a7,
             CallOK(a1, a2, a3, a4, a5, a6, a7)
      PROVE  CallOK(a1, a2, a3, a4, a5, a6, a7)'
  <2>1. Settled(a1, a2, a7)' = Settled(a1, a2, a7)
    BY DEF Settled
  <2>2. Dispatched(a1, a2, a3, a5)' = Dispatched(a1, a2, a3, a5)
    BY ClassStays DEF Dispatched
  <2> QED BY <1>3, <2>1, <2>2 DEF CallOK
<1>4. ASSUME NEW j \in Callers PROVE OK(j)'
  <2>1. CASE j = k
    <3>1. /\ pc'[j] = p /\ pipe'[j] = pp /\ stage'[j] = st /\ input'[j] = in
          /\ class'[j] = cls /\ catches'[j] = ct /\ runs'[j] = q
      BY <1>0, <2>1 DEF Functions
    <3>2. Settled(p, pp, q)' = Settled(p, pp, q)
      BY DEF Settled
    <3>3. Dispatched(p, pp, st, cls)' = Dispatched(p, pp, st, cls)
      BY ClassStays DEF Dispatched
    <3> QED BY <3>1, <3>2, <3>3 DEF OK, CallOK, Settled, Dispatched
  <2>2. CASE j # k
    <3>1. /\ pc'[j] = pc[j] /\ pipe'[j] = pipe[j] /\ stage'[j] = stage[j]
          /\ input'[j] = input[j] /\ class'[j] = class[j] /\ catches'[j] = catches[j]
          /\ runs'[j] = runs[j]
      BY <1>0, <2>2 DEF Functions
    <3> QED BY <1>0, <3>1, ClassStays DEF OK, CallOK, Settled, Dispatched
  <2> QED BY <2>1, <2>2
<1> QED BY <1>0, <1>2, <1>4 DEF Inv

------------------------------------------------------------------------------
(* The steps *)

LEMMA InitInv == Init => Inv
<1> SUFFICES ASSUME Init PROVE Inv
  OBVIOUS
<1>1. CacheOK
  BY TieredAssumption DEF Init, CacheOK, Keyed, Sound
<1>2. Functions
  BY DEF Init, Functions, PCs, FromCaller
<1>3. Ordered(<<>>) /\ Bounded(<<>>)
  BY DEF Ordered, Bounded
<1>4. ASSUME NEW k \in Callers PROVE OK(k)
  <2>1. /\ pc[k] = "idle" /\ pipe[k] = <<>> /\ stage[k] = 1 /\ input[k] = FromCaller
        /\ class[k] = None /\ catches[k] = 0 /\ runs[k] = <<>>
    BY DEF Init
  <2>2. Typed("idle", <<>>, 1, FromCaller, None, 0, <<>>)
    BY DEF Typed, PCs, FromCaller, Awaits
  <2>3. Call("idle", 1, FromCaller, 0, <<>>)
    BY <1>3 DEF Call, Awaits
  <2>4. Settled("idle", <<>>, <<>>) /\ Dispatched("idle", <<>>, 1, None)
    BY DEF Settled, Dispatched, Awaits
  <2> QED BY <2>1, <2>2, <2>3, <2>4 DEF OK, CallOK
<1> QED BY <1>1, <1>2, <1>4 DEF Inv, Init

\* What is known of a caller before its step
LEMMA Before ==
    ASSUME Inv, NEW k \in Callers
    PROVE  /\ Typed(pc[k], pipe[k], stage[k], input[k], class[k], catches[k], runs[k])
           /\ Call(pc[k], stage[k], input[k], catches[k], runs[k])
           /\ Dispatched(pc[k], pipe[k], stage[k], class[k])
           /\ pipe = [pipe EXCEPT ![k] = pipe[k]]
           /\ stage = [stage EXCEPT ![k] = stage[k]]
           /\ input = [input EXCEPT ![k] = input[k]]
           /\ class = [class EXCEPT ![k] = class[k]]
           /\ catches = [catches EXCEPT ![k] = catches[k]]
           /\ runs = [runs EXCEPT ![k] = runs[k]]
           /\ pc = [pc EXCEPT ![k] = pc[k]]
BY DEF Inv, OK, CallOK, Functions

\* The cache is as good after a step that leaves it alone
LEMMA CacheStays ==
    ASSUME Inv, has' = has, cache' = cache PROVE CacheOK'
<1>1. cache \in Seq(Entries) /\ Len(cache) <= CacheSize /\ Keyed(cache) /\ Sound(cache)
  BY DEF Inv, CacheOK
<1>2. Sound(cache)'
  BY <1>1, SoundStays
<1> QED BY <1>1, <1>2 DEF CacheOK, Keyed

LEMMA CacheMoves ==
    ASSUME Inv, has' = has, NEW c \in Commands, cache' = CacheAfter(c) PROVE CacheOK'
<1>1. /\ CacheAfter(c) \in Seq(Entries) /\ Len(CacheAfter(c)) <= CacheSize
      /\ Keyed(CacheAfter(c)) /\ Sound(CacheAfter(c))
  BY CacheStep DEF Inv
<1>2. Sound(cache)'
  BY <1>1, SoundStays
<1> QED BY <1>1, <1>2 DEF CacheOK, Keyed

LEMMA EmptyCall ==
    ASSUME NEW st, NEW in, NEW ct, NEW p \in {"next", "done"},
           st = 1, in \in {FromCaller, FromFile}
    PROVE  Call(p, st, in, ct, <<>>)
<1>1. Ordered(<<>>) /\ Bounded(<<>>)
  BY DEF Ordered, Bounded
<1>2. AtNext(st, in, <<>>)
  BY DEF AtNext, InputOf
<1> QED BY <1>1, <1>2 DEF Call, Awaits

LEMMA ExecuteStep ==
    ASSUME Inv, NEW k \in Callers, NEW call \in Calls, Execute(k, call) PROVE Inv'
<1> DEFINE p == IF call.redirected /\ has.fs THEN "reading" ELSE Begun(call.pipe)
<1>1. /\ pc' = [pc EXCEPT ![k] = p] /\ pipe' = [pipe EXCEPT ![k] = call.pipe]
      /\ pc[k] = "idle" /\ p \in {"reading", "next", "done"}
      /\ UNCHANGED <<has, cache, stage, input, class, catches, runs>>
  BY DEF Execute, Begun
<1>2. call.pipe \in Seq(Commands) /\ (p = "next" => call.pipe # <<>>)
  BY TieredAssumption DEF Begun
<1> HIDE DEF p
<1>3. /\ runs[k] = <<>> /\ stage[k] = 1 /\ input[k] = FromCaller
      /\ Typed(pc[k], pipe[k], stage[k], input[k], class[k], catches[k], runs[k])
      /\ Ordered(runs[k]) /\ Bounded(runs[k])
  BY <1>1, Before DEF Call
<1>4. Typed(p, call.pipe, stage[k], input[k], class[k], catches[k], runs[k])
  BY <1>1, <1>2, <1>3 DEF Typed, PCs, Awaits
<1>5. Call(p, stage[k], input[k], catches[k], runs[k])
  <2>1. CASE p = "reading"
    BY <1>3, <2>1 DEF Call, Awaits
  <2>2. CASE p # "reading"
    BY <1>1, <1>3, <2>2, EmptyCall
  <2> QED BY <2>1, <2>2
<1>6. Settled(p, call.pipe, runs[k]) /\ Dispatched(p, call.pipe, stage[k], class[k])
  BY <1>1, <1>3 DEF Settled, Dispatched, Awaits
<1>7. CallOK(p, call.pipe, stage[k], input[k], class[k], catches[k], runs[k])
  BY <1>4, <1>5, <1>6 DEF CallOK
<1>8. CacheOK'
  BY <1>1, CacheStays
<1>9. /\ stage' = [stage EXCEPT ![k] = stage[k]]
      /\ input' = [input EXCEPT ![k] = input[k]]
      /\ class' = [class EXCEPT ![k] = class[k]]
      /\ catches' = [catches EXCEPT ![k] = catches[k]]
      /\ runs' = [runs EXCEPT ![k] = runs[k]]
  BY <1>1, Before
<1>10. has' = has /\ pc' = [pc EXCEPT ![k] = p] /\ pipe' = [pipe EXCEPT ![k] = call.pipe]
  BY <1>1
<1> QED BY <1>7, <1>8, <1>9, <1>10, OneCaller

LEMMA ReadStep ==
    ASSUME Inv, NEW k \in Callers, NEW found \in BOOLEAN, ReadInput(k, found) PROVE Inv'
<1> DEFINE p == IF found THEN Begun(pipe[k]) ELSE "done"
           in == IF found THEN FromFile ELSE input[k]
<1>1. /\ pc' = [pc EXCEPT ![k] = p] /\ pc[k] = "reading" /\ p \in {"next", "done"}
      /\ p = "next" => pipe[k] # <<>>
      /\ input' = IF found THEN [input EXCEPT ![k] = FromFile] ELSE input
      /\ UNCHANGED <<has, cache, pipe, stage, class, catches, runs>>
  BY DEF ReadInput, Begun
<1>2. input' = [input EXCEPT ![k] = in]
  BY <1>1, Before
<1>3. /\ runs[k] = <<>> /\ stage[k] = 1 /\ input[k] = FromCaller
      /\ Typed(pc[k], pipe[k], stage[k], input[k], class[k], catches[k], runs[k])
  BY <1>1, Before DEF Call
<1>4. in \in {FromCaller, FromFile} /\ in \in Int
  BY <1>3 DEF FromFile, FromCaller
<1> HIDE DEF p, in
<1>5. Typed(p, pipe[k], stage[k], in, class[k], catches[k], runs[k])
  BY <1>1, <1>3, <1>4 DEF Typed, PCs, Awaits
<1>6. Call(p, stage[k], in, catches[k], runs[k])
  BY <1>1, <1>3, <1>4, EmptyCall
<1>7. Settled(p, pipe[k], runs[k]) /\ Dispatched(p, pipe[k], stage[k], class[k])
  BY <1>1, <1>3 DEF Settled, Dispatched, Awaits
<1>8. CallOK(p, pipe[k], stage[k], in, class[k], catches[k], runs[k])
  BY <1>5, <1>6, <1>7 DEF CallOK
<1>9. CacheOK'
  BY <1>1, CacheStays
<1>10. /\ pipe' = [pipe EXCEPT ![k] = pipe[k]]
       /\ stage' = [stage EXCEPT ![k] = stage[k]]
       /\ class' = [class EXCEPT ![k] = class[k]]
       /\ catches' = [catches EXCEPT ![k] = catches[k]]
       /\ runs' = [runs EXCEPT ![k] = runs[k]]
  BY <1>1, Before
<1>11. has' = has /\ pc' = [pc EXCEPT ![k] = p]
  BY <1>1
<1> QED BY <1>2, <1>8, <1>9, <1>10, <1>11, OneCaller

LEMMA SegmentStep ==
    ASSUME Inv, NEW k \in Callers, ExecuteSegment(k) PROVE Inv'
<1> DEFINE c == Segment(k)
           cls == Classification(c)
           no == cls.handler = "sandbox" /\ ~has.sandbox
           p == IF no THEN "rejected" ELSE "running"
           q == IF no THEN runs[k] ELSE Append(runs[k], NewRun(stage[k], cls.handler, input[k]))
           ct == Guards(cls.handler)
<1>1. /\ pc[k] = "next" /\ cache' = CacheAfter(c) /\ class' = [class EXCEPT ![k] = cls]
      /\ catches' = [catches EXCEPT ![k] = ct]
      /\ UNCHANGED <<has, pipe, stage, input>>
  BY DEF ExecuteSegment
<1>2. /\ Typed("next", pipe[k], stage[k], input[k], class[k], catches[k], runs[k])
      /\ Ordered(runs[k]) /\ Bounded(runs[k]) /\ AtNext(stage[k], input[k], runs[k])
  BY <1>1, Before DEF Call
<1>3. c \in Commands /\ c = pipe[k][stage[k]]
  BY <1>2 DEF Typed, Segment
<1>4. pc' = [pc EXCEPT ![k] = p] /\ runs' = [runs EXCEPT ![k] = q]
  <2>1. CASE no
    BY <2>1, Before DEF ExecuteSegment
  <2>2. CASE ~no
    BY <2>2 DEF ExecuteSegment, Run, NewRun
  <2> QED BY <2>1, <2>2
<1>5. cls \in Classes /\ \E d \in Commands : Key(d) = Key(c) /\ cls = Class(d)
  BY <1>3, Classified DEF Inv
<1> HIDE DEF c, cls
<1>6. cls.handler \in Handlers /\ ct \in 0 .. 2
  BY <1>5 DEF Classes, Guards
<1>7. /\ stage[k] \in Nat \ {0} /\ input[k] \in Int /\ runs[k] \in Seq(Runs)
      /\ stage[k] \in DOMAIN pipe[k] /\ pipe[k] \in Seq(Commands)
  BY <1>2 DEF Typed
<1>8. /\ pipe' = [pipe EXCEPT ![k] = pipe[k]]
       /\ stage' = [stage EXCEPT ![k] = stage[k]]
       /\ input' = [input EXCEPT ![k] = input[k]]
  BY <1>1, Before
<1>9. CacheOK'
  BY <1>1, <1>3, CacheMoves
<1>10. CASE no
  <2>1. p = "rejected" /\ q = runs[k] /\ ~has.sandbox
    BY <1>10
  <2>2. Typed(p, pipe[k], stage[k], input[k], cls, ct, q)
    BY <1>5, <1>6, <1>7, <2>1 DEF Typed, PCs, Awaits
  <2>3. Call(p, stage[k], input[k], ct, q)
    BY <1>2, <2>1 DEF Call, Awaits
  <2>4. Settled(p, pipe[k], q) /\ Dispatched(p, pipe[k], stage[k], cls)
    BY <2>1 DEF Settled, Dispatched, Awaits
  <2>5. CallOK(p, pipe[k], stage[k], input[k], cls, ct, q)
    BY <2>2, <2>3, <2>4 DEF CallOK
  <2> HIDE DEF p, q, no, ct
  <2> QED BY <1>1, <1>4, <1>8, <1>9, <2>5, OneCaller
<1>11. CASE ~no
  <2>1. p = "running" /\ q = Append(runs[k], NewRun(stage[k], cls.handler, input[k]))
    BY <1>11
  <2> HIDE DEF p, q, no, ct
  <2>2. q \in Seq(Runs) /\ q # <<>>
    BY <1>6, <1>7, <2>1, NewRunFacts, AddFacts
  <2>3. Ordered(q) /\ Bounded(q) /\ AtRun(stage[k], input[k], ct, q)
    BY <1>2, <1>6, <1>7, <2>1, AddFirst DEF ct
  <2>4. Typed(p, pipe[k], stage[k], input[k], cls, ct, q)
    BY <1>5, <1>6, <1>7, <2>1, <2>2 DEF Typed, PCs
  <2>5. Call(p, stage[k], input[k], ct, q)
    BY <2>1, <2>3 DEF Call
  <2>6. Settled(p, pipe[k], q) /\ Dispatched(p, pipe[k], stage[k], cls)
    BY <1>3, <1>5, <2>1 DEF Settled, Dispatched
  <2>7. CallOK(p, pipe[k], stage[k], input[k], cls, ct, q)
    BY <2>4, <2>5, <2>6 DEF CallOK
  <2> QED BY <1>1, <1>4, <1>8, <1>9, <2>7, OneCaller
<1> QED BY <1>10, <1>11

\* What is known of a call that awaits a run, and of that run's end
LEMMA Running ==
    ASSUME Inv, NEW k \in Callers, pc[k] \in Awaits
    PROVE  /\ Typed(pc[k], pipe[k], stage[k], input[k], class[k], catches[k], runs[k])
           /\ runs[k] \in Seq(Runs) /\ runs[k] # <<>>
           /\ Ordered(runs[k]) /\ Bounded(runs[k])
           /\ AtRun(stage[k], input[k], catches[k], runs[k])
           /\ \A o \in Endings :
                 /\ Ended(k, o) = End(runs[k], o)
                 /\ Ended(k, o) \in Seq(Runs) /\ Ended(k, o) # <<>>
                 /\ Ordered(Ended(k, o)) /\ Bounded(Ended(k, o))
                 /\ LET n == Len(Ended(k, o)) IN
                    /\ n = Len(runs[k])
                    /\ Ended(k, o)[n].outcome = o
                    /\ Ended(k, o)[n].stage = stage[k]
                    /\ Ended(k, o)[n].where = Last(k).where
<1>1. /\ Typed(pc[k], pipe[k], stage[k], input[k], class[k], catches[k], runs[k])
      /\ Ordered(runs[k]) /\ Bounded(runs[k])
      /\ AtRun(stage[k], input[k], catches[k], runs[k])
  BY Before DEF Call
<1>2. runs[k] \in Seq(Runs) /\ runs[k] # <<>> /\ Last(k).stage = stage[k]
  BY <1>1 DEF Typed, AtRun, Last
<1>3. ASSUME NEW o \in Endings
      PROVE  /\ Ended(k, o) = End(runs[k], o)
             /\ Ended(k, o) \in Seq(Runs) /\ Ended(k, o) # <<>>
             /\ Ordered(Ended(k, o)) /\ Bounded(Ended(k, o))
             /\ LET n == Len(Ended(k, o)) IN
                /\ n = Len(runs[k])
                /\ Ended(k, o)[n].outcome = o
                /\ Ended(k, o)[n].stage = stage[k]
                /\ Ended(k, o)[n].where = Last(k).where
  <2>1. Ended(k, o) = End(runs[k], o)
    BY DEF Ended, End
  <2> QED BY <1>1, <1>2, <2>1, EndFacts, EndKeeps DEF Last
<1> QED BY <1>1, <1>2, <1>3

\* What an end of a run leaves alone
Rest == UNCHANGED <<has, cache, pipe, stage, input, class>>

EndRest == Rest /\ UNCHANGED catches

\* A run that ends its call
LEMMA CallEnds ==
    ASSUME Inv, EndRest, NEW k \in Callers, pc[k] \in Awaits,
           NEW p \in {"done", "rejected"}, NEW o \in Endings,
           pc' = [pc EXCEPT ![k] = p], runs' = [runs EXCEPT ![k] = Ended(k, o)],
           p = "done" => \/ o = "ok" /\ stage[k] = Len(pipe[k])
                         \/ o = "fail"
                         \/ o = "late" /\ Last(k).where = "polyglot",
           p = "rejected" /\ has.sandbox =>
                 Last(k).where = "sandbox" /\ o \in {"threw", "late"}
    PROVE  Inv'
<1> DEFINE q == Ended(k, o)
<1>1. /\ Typed(pc[k], pipe[k], stage[k], input[k], class[k], catches[k], runs[k])
      /\ q \in Seq(Runs) /\ q # <<>> /\ Ordered(q) /\ Bounded(q)
      /\ q[Len(q)].outcome = o /\ q[Len(q)].stage = stage[k]
      /\ q[Len(q)].where = Last(k).where
  BY Running
<1> HIDE DEF q
<1>2. Typed(p, pipe[k], stage[k], input[k], class[k], catches[k], q)
  BY <1>1 DEF Typed, PCs
<1>3. Call(p, stage[k], input[k], catches[k], q)
  BY <1>1 DEF Call, Awaits
<1>4. Settled(p, pipe[k], q)
  BY <1>1 DEF Settled
<1>5. Dispatched(p, pipe[k], stage[k], class[k])
  BY DEF Dispatched, Awaits
<1>6. CallOK(p, pipe[k], stage[k], input[k], class[k], catches[k], q)
  BY <1>2, <1>3, <1>4, <1>5 DEF CallOK
<1>7. runs' = [runs EXCEPT ![k] = q]
  BY DEF q
<1>8. CacheOK' /\ has' = has
  BY CacheStays DEF EndRest, Rest
<1>9. /\ pipe' = [pipe EXCEPT ![k] = pipe[k]]
      /\ stage' = [stage EXCEPT ![k] = stage[k]]
      /\ input' = [input EXCEPT ![k] = input[k]]
      /\ class' = [class EXCEPT ![k] = class[k]]
      /\ catches' = [catches EXCEPT ![k] = catches[k]]
  BY Before DEF EndRest, Rest
<1> QED BY <1>6, <1>7, <1>8, <1>9, OneCaller

LEMMA SucceedStep ==
    ASSUME Inv, NEW k \in Callers, Succeeds(k) PROVE Inv'
<1>1. /\ pc[k] \in Awaits /\ runs' = [runs EXCEPT ![k] = Ended(k, "ok")]
      /\ UNCHANGED <<has, cache, pipe, class, catches>>
  BY DEF Succeeds
<1>2. CASE stage[k] = Len(pipe[k])
  <2>1. pc' = [pc EXCEPT ![k] = "done"] /\ UNCHANGED <<stage, input>>
    BY <1>2 DEF Succeeds
  <2> QED BY <1>1, <1>2, <2>1, CallEnds DEF Endings, EndRest, Rest
<1>3. CASE stage[k] # Len(pipe[k])
  <2> DEFINE q == Ended(k, "ok")
             st == stage[k] + 1
             in == Len(runs[k])
  <2>1. /\ pc' = [pc EXCEPT ![k] = "next"] /\ stage' = [stage EXCEPT ![k] = st]
        /\ input' = [input EXCEPT ![k] = in] /\ runs' = [runs EXCEPT ![k] = q]
    BY <1>1, <1>3 DEF Succeeds
  <2>2. /\ Typed(pc[k], pipe[k], stage[k], input[k], class[k], catches[k], runs[k])
        /\ AtRun(stage[k], input[k], catches[k], runs[k])
        /\ q = End(runs[k], "ok") /\ q \in Seq(Runs) /\ Ordered(q) /\ Bounded(q)
        /\ runs[k] \in Seq(Runs)
    BY <1>1, Running DEF Endings
  <2>3. /\ stage[k] \in Nat \ {0} /\ stage[k] \in DOMAIN pipe[k] /\ pipe[k] \in Seq(Commands)
        /\ class[k] \in Classes \union {None} /\ catches[k] \in 0 .. 2
    BY <1>1, <2>2 DEF Typed, Awaits
  <2>4. AtNext(st, in, q)
    BY <2>2, <2>3, EndOk
  <2>5. st \in DOMAIN pipe[k] /\ st \in Nat \ {0} /\ in \in Int
    BY <1>3, <2>2, <2>3
  <2> HIDE DEF q, st, in
  <2>6. Typed("next", pipe[k], st, in, class[k], catches[k], q)
    BY <2>2, <2>3, <2>5 DEF Typed, PCs, Awaits
  <2>7. Call("next", st, in, catches[k], q)
    BY <2>2, <2>4 DEF Call, Awaits
  <2>8. Settled("next", pipe[k], q) /\ Dispatched("next", pipe[k], st, class[k])
    BY DEF Settled, Dispatched, Awaits
  <2>9. CallOK("next", pipe[k], st, in, class[k], catches[k], q)
    BY <2>6, <2>7, <2>8 DEF CallOK
  <2>10. CacheOK'
    BY <1>1, CacheStays
  <2>11. /\ pipe' = [pipe EXCEPT ![k] = pipe[k]]
         /\ class' = [class EXCEPT ![k] = class[k]]
         /\ catches' = [catches EXCEPT ![k] = catches[k]]
    BY <1>1, Before
  <2>12. has' = has
    BY <1>1
  <2> QED BY <2>1, <2>9, <2>10, <2>11, <2>12, OneCaller
<1> QED BY <1>2, <1>3

LEMMA FailStep ==
    ASSUME Inv, NEW k \in Callers, Fails(k) PROVE Inv'
BY CallEnds DEF Fails, Endings, EndRest, Rest

\* An error of a run: the sandbox's turn, or the end of the call
LEMMA ThrownStep ==
    ASSUME Inv, NEW k \in Callers, pc[k] \in Awaits, NEW o \in {"threw", "late"},
           Thrown(k, o), Rest
    PROVE  Inv'
<1>0. o \in Endings
  BY DEF Endings
<1>1. /\ Typed(pc[k], pipe[k], stage[k], input[k], class[k], catches[k], runs[k])
      /\ runs[k] \in Seq(Runs) /\ Ordered(runs[k]) /\ Bounded(runs[k])
      /\ AtRun(stage[k], input[k], catches[k], runs[k])
      /\ Ended(k, o) = End(runs[k], o) /\ Ended(k, o) \in Seq(Runs)
  BY <1>0, Running
<1>2. /\ stage[k] \in Nat \ {0} /\ input[k] \in Int /\ catches[k] \in 0 .. 2
      /\ pipe[k] \in Seq(Commands) /\ stage[k] \in DOMAIN pipe[k]
      /\ class[k] \in Classes \union {None}
  BY <1>1 DEF Typed
<1>3. CASE has.sandbox /\ catches[k] > 0
  <2> DEFINE q == Append(Ended(k, o), Run(k, "sandbox", input[k]))
             ct == catches[k] - 1
  <2>1. /\ runs' = [runs EXCEPT ![k] = q] /\ catches' = [catches EXCEPT ![k] = ct]
        /\ pc' = [pc EXCEPT ![k] = "running"]
    BY <1>3 DEF Thrown
  <2>2. q = Append(End(runs[k], o), NewRun(stage[k], "sandbox", input[k]))
    BY <1>1 DEF Run, NewRun
  <2> HIDE DEF q
  <2>3. catches[k] \in 1 .. 2 /\ ct \in 0 .. 2
    BY <1>2, <1>3
  <2>4. Ordered(q) /\ Bounded(q) /\ AtRun(stage[k], input[k], ct, q)
    BY <1>1, <1>2, <2>2, <2>3, AddSandbox
  <2> HIDE DEF ct
  <2>5. q \in Seq(Runs) /\ q # <<>>
    <3>1. NewRun(stage[k], "sandbox", input[k]) \in Runs
      BY <1>2, NewRunFacts DEF Handlers
    <3> QED BY <1>1, <2>2, <3>1, AddFacts
  <2>6. Typed("running", pipe[k], stage[k], input[k], class[k], ct, q)
    BY <1>2, <2>3, <2>5 DEF Typed, PCs
  <2>7. Call("running", stage[k], input[k], ct, q)
    BY <2>4 DEF Call
  <2>8. Settled("running", pipe[k], q)
    BY DEF Settled
  <2>9. Dispatched("running", pipe[k], stage[k], class[k])
    BY Before DEF Dispatched, Awaits
  <2>10. CallOK("running", pipe[k], stage[k], input[k], class[k], ct, q)
    BY <2>6, <2>7, <2>8, <2>9 DEF CallOK
  <2>11. CacheOK' /\ has' = has
    BY CacheStays DEF Rest
  <2>12. /\ pipe' = [pipe EXCEPT ![k] = pipe[k]]
         /\ stage' = [stage EXCEPT ![k] = stage[k]]
         /\ input' = [input EXCEPT ![k] = input[k]]
         /\ class' = [class EXCEPT ![k] = class[k]]
    BY Before DEF Rest
  <2>13. pc' = [pc EXCEPT ![k] = "running"] /\ runs' = [runs EXCEPT ![k] = q] /\ catches' = [catches EXCEPT ![k] = ct]
    BY <2>1
  <2> QED BY <2>10, <2>11, <2>12, <2>13, OneCaller
<1>4. CASE ~(has.sandbox /\ catches[k] > 0)
  <2>1. /\ runs' = [runs EXCEPT ![k] = Ended(k, o)] /\ pc' = [pc EXCEPT ![k] = "rejected"]
        /\ catches' = catches
    BY <1>4 DEF Thrown
  <2>2. has.sandbox => catches[k] = 0
    BY <1>2, <1>4
  <2>3. has.sandbox => Last(k).where = "sandbox"
    BY <1>1, <2>2 DEF AtRun, Tries, Last
  <2> QED BY <1>0, <2>1, <2>3, CallEnds DEF EndRest
<1> QED BY <1>3, <1>4

LEMMA ThrowStep ==
    ASSUME Inv, NEW k \in Callers, Throws(k) PROVE Inv'
BY ThrownStep DEF Throws, Rest

LEMMA TimeOutStep ==
    ASSUME Inv, NEW k \in Callers, TimesOut(k) PROVE Inv'
<1>1. pc[k] \in Awaits /\ Rest
  BY DEF TimesOut, Rest, Awaits
<1>2. CASE /\ Last(k).where = "polyglot"
           /\ runs' = [runs EXCEPT ![k] = Ended(k, "late")]
           /\ pc' = [pc EXCEPT ![k] = "done"]
           /\ UNCHANGED catches
  BY <1>1, <1>2, CallEnds DEF Endings, EndRest
<1>3. CASE Last(k).where = "sandbox" /\ Thrown(k, "late")
  BY <1>1, <1>3, ThrownStep
<1> QED BY <1>2, <1>3 DEF TimesOut

LEMMA RespondStep ==
    ASSUME Inv, NEW k \in Callers, Responds(k) PROVE Inv'
<1>1. pc[k] = "running" /\ pc' = [pc EXCEPT ![k] = "body"] /\ EndRest /\ runs' = runs
  BY DEF Responds, EndRest, Rest
<1>2. CallOK(pc[k], pipe[k], stage[k], input[k], class[k], catches[k], runs[k])
  BY DEF Inv, OK
<1>3. CallOK("body", pipe[k], stage[k], input[k], class[k], catches[k], runs[k])
  BY <1>1, <1>2 DEF CallOK, Typed, Call, Settled, Dispatched, Awaits, PCs
<1>4. CacheOK' /\ has' = has
  BY <1>1, CacheStays DEF EndRest, Rest
<1>5. /\ pipe' = [pipe EXCEPT ![k] = pipe[k]]
      /\ stage' = [stage EXCEPT ![k] = stage[k]]
      /\ input' = [input EXCEPT ![k] = input[k]]
      /\ class' = [class EXCEPT ![k] = class[k]]
      /\ catches' = [catches EXCEPT ![k] = catches[k]]
      /\ runs' = [runs EXCEPT ![k] = runs[k]]
  BY <1>1, Before DEF EndRest, Rest
<1>6. pc' = [pc EXCEPT ![k] = "body"]
  BY <1>1
<1> QED BY <1>3, <1>4, <1>5, <1>6, OneCaller

\* Steps that are no call's: at most the cache changes
LEMMA CacheOnly ==
    ASSUME Inv, CacheOK', UNCHANGED <<has, pc, pipe, stage, input, class, catches, runs>>
    PROVE  Inv'
<1>1. \A k \in Callers : OK(k)
  BY DEF Inv
<1>2. \A k \in Callers : OK(k)'
  BY <1>1, ClassStays DEF OK, CallOK, Settled, Dispatched
<1>3. Functions'
  BY DEF Inv, Functions
<1> QED BY <1>2, <1>3 DEF Inv

LEMMA InvStep == Inv /\ [Next]_vars => Inv'
<1> SUFFICES ASSUME Inv, [Next]_vars PROVE Inv'
  OBVIOUS
<1>1. ASSUME NEW k \in Callers, NEW call \in Calls, Execute(k, call) PROVE Inv'
  BY <1>1, ExecuteStep
<1>2. ASSUME NEW k \in Callers, NEW found \in BOOLEAN, ReadInput(k, found) PROVE Inv'
  BY <1>2, ReadStep
<1>3. ASSUME NEW k \in Callers, ExecuteSegment(k) PROVE Inv'
  BY <1>3, SegmentStep
<1>4. ASSUME NEW k \in Callers, Succeeds(k) PROVE Inv'
  BY <1>4, SucceedStep
<1>5. ASSUME NEW k \in Callers, Fails(k) PROVE Inv'
  BY <1>5, FailStep
<1>6. ASSUME NEW k \in Callers, Throws(k) PROVE Inv'
  BY <1>6, ThrowStep
<1>7. ASSUME NEW k \in Callers, TimesOut(k) PROVE Inv'
  BY <1>7, TimeOutStep
<1>8. ASSUME NEW k \in Callers, Responds(k) PROVE Inv'
  BY <1>8, RespondStep
<1>9. ASSUME NEW c \in Asked, Classify(c) PROVE Inv'
  <2>1. c \in Commands
    BY TieredAssumption
  <2>2. CacheOK'
    BY <1>9, <2>1, CacheMoves DEF Classify
  <2> QED BY <1>9, <2>2, CacheOnly DEF Classify
<1>10. CASE ClearCaches
  <2>1. CacheOK'
    BY <1>10, TieredAssumption DEF ClearCaches, CacheOK, Keyed, Sound
  <2> QED BY <1>10, <2>1, CacheOnly DEF ClearCaches
<1>11. CASE UNCHANGED vars
  <2>1. CacheOK'
    BY <1>11, CacheStays DEF vars
  <2> QED BY <1>11, <2>1, CacheOnly DEF vars
<1> QED BY <1>1, <1>2, <1>3, <1>4, <1>5, <1>6, <1>7, <1>8, <1>9, <1>10, <1>11 DEF Next

LEMMA AlwaysInv == Spec => []Inv
BY InitInv, InvStep, PTL DEF Spec

------------------------------------------------------------------------------
(* The theorems *)

\* For any callers, commands and configurations the types hold, the cache is within
\* its size with one entry for a key, and an awaited run exists.
THEOREM TypeCorrect == Spec => []TypeOK
<1>1. Inv => TypeOK
  BY InvImplies
<1> QED BY <1>1, AlwaysInv, PTL

\* Whatever filled the cache, a command whose name decides its language is
\* dispatched by its own classification.
THEOREM AlwaysRoutedRight == Spec => []RoutedRight
BY InvRoutes, AlwaysInv, PTL

\* The runs of a call follow its pipeline, and each is handed the output of the
\* segment before, also the sandbox's run in the stead of one that threw.
THEOREM PipelineAlwaysInOrder == Spec => []PipelineInOrder
<1>1. Inv => PipelineInOrder
  BY InvImplies
<1> QED BY <1>1, AlwaysInv, PTL

\* Two nested catch blocks run a segment at most three times, and again only in
\* the sandbox.
THEOREM RunsAlwaysBounded == Spec => []RunsBounded
<1>1. Inv => RunsBounded
  BY InvImplies
<1> QED BY <1>1, AlwaysInv, PTL

\* With a sandbox a call is rejected only after the sandbox failed, and a call is
\* answered by its last run.
THEOREM AlwaysSettledRight == Spec => []SettlesRight
<1>1. Inv => SettlesRight
  BY InvImplies
<1> QED BY <1>1, AlwaysInv, PTL

------------------------------------------------------------------------------
(* How long a call can take *)

\* The steps a call has left at most: seven for a segment, of which two are for
\* each catch block that would still try the sandbox.
Left(p, len, st, ct) ==
    CASE p = "reading" -> 7 * len + 1
      [] p = "next"    -> 7 * (len - st) + 7
      [] p = "running" -> 7 * (len - st) + 2 * ct + 2
      [] p = "body"    -> 7 * (len - st) + 2 * ct + 1
      [] OTHER         -> 0

StepsLeft(k) == Left(pc[k], Len(pipe[k]), stage[k], catches[k])

\* A step of the system is one of another caller, begins this call or advances it
Stays(k) == UNCHANGED <<pc[k], pipe[k], stage[k], input[k], class[k], catches[k], runs[k]>>

Advances(k) ==
    \/ Stays(k)
    \/ pc[k] = "idle" /\ StepsLeft(k)' <= 7 * Len(pipe'[k]) + 1
    \/ pc[k] # "idle" /\ pipe'[k] = pipe[k] /\ StepsLeft(k)' < StepsLeft(k)

\* Three runs a segment: what was begun, what the catch blocks left may begin
Allowed(p, len, st, ct, n) ==
    /\ p \in {"idle", "reading"} => n = 0
    /\ p = "next" => n <= 3 * (st - 1)
    /\ p \in Awaits => n + ct <= 3 * st
    /\ p \in {"done", "rejected"} => n <= 3 * len

RunsAllowed(k) == Allowed(pc[k], Len(pipe[k]), stage[k], catches[k], Len(runs[k]))

RunsPerCall == \A k \in Callers : Len(runs[k]) <= 3 * Len(pipe[k])

AllAllowed == \A k \in Callers : RunsAllowed(k)

\* What a step does to the place, the catch blocks left and the runs of a call
Goes(p, pp, st, ct, n, p1, pp1, st1, ct1, n1) ==
    \/ p = "idle" /\ p1 = "reading" /\ n1 = n
    \/ p = "idle" /\ p1 = "next" /\ n1 = n /\ st1 = 1 /\ Len(pp1) > 0
    \/ p = "idle" /\ p1 = "done" /\ n1 = n
    \/ /\ p # "idle" /\ pp1 = pp
       /\ \/ p = "reading" /\ p1 = "next" /\ n1 = n /\ st1 = 1 /\ Len(pp) > 0
          \/ p = "reading" /\ p1 = "done" /\ n1 = n
          \/ p = "next" /\ p1 = "running" /\ n1 = n + 1 /\ st1 = st /\ ct1 \in 0 .. 2
          \/ p = "next" /\ p1 = "rejected" /\ n1 = n
          \/ p = "running" /\ p1 = "body" /\ n1 = n /\ st1 = st /\ ct1 = ct
          \/ p \in Awaits /\ p1 = "next" /\ n1 = n /\ st1 = st + 1 /\ st1 <= Len(pp)
          \/ p \in Awaits /\ p1 \in {"done", "rejected"} /\ n1 = n
          \/ p \in Awaits /\ p1 = "running" /\ n1 = n + 1 /\ st1 = st
             /\ ct > 0 /\ ct1 = ct - 1

CallGoes(k) ==
    Goes(pc[k], pipe[k], stage[k], catches[k], Len(runs[k]),
         pc'[k], pipe'[k], stage'[k], catches'[k], Len(runs'[k]))

CallsAdvanceStep == \A k \in Callers : Advances(k) /\ StepsLeft(k) \in Nat

\* An error of a run gives its place to the sandbox, or ends the call
LEMMA ThrownGoes ==
    ASSUME Inv, NEW k \in Callers, pc[k] \in Awaits, NEW o \in {"threw", "late"},
           Thrown(k, o), Rest
    PROVE  CallGoes(k)
<1>1. /\ runs[k] \in Seq(Runs) /\ Ended(k, o) \in Seq(Runs)
      /\ Len(Ended(k, o)) = Len(runs[k]) /\ pc[k] # "idle"
  BY Running DEF Endings, Awaits
<1>2. Functions
  BY DEF Inv
<1>3. stage'[k] = stage[k] /\ pipe'[k] = pipe[k]
  BY DEF Rest
<1>4. CASE has.sandbox /\ catches[k] > 0
  <2>1. /\ runs'[k] = Append(Ended(k, o), Run(k, "sandbox", input[k]))
        /\ catches'[k] = catches[k] - 1 /\ pc'[k] = "running"
    BY <1>2, <1>4 DEF Thrown, Functions
  <2>2. Len(runs'[k]) = Len(runs[k]) + 1
    BY <1>1, <2>1
  <2> QED BY <1>1, <1>3, <1>4, <2>1, <2>2 DEF CallGoes, Goes
<1>5. CASE ~(has.sandbox /\ catches[k] > 0)
  <2>1. runs'[k] = Ended(k, o) /\ pc'[k] = "rejected"
    BY <1>2, <1>5 DEF Thrown, Functions
  <2> QED BY <1>1, <1>3, <2>1 DEF CallGoes, Goes
<1> QED BY <1>4, <1>5

\* What a step of a caller does to its call
LEMMA OwnStep ==
    ASSUME Inv, NEW k \in Callers,
           \/ \E call \in Calls : Execute(k, call)
           \/ \E found \in BOOLEAN : ReadInput(k, found)
           \/ ExecuteSegment(k) \/ Responds(k) \/ Succeeds(k)
           \/ Fails(k) \/ Throws(k) \/ TimesOut(k)
    PROVE  CallGoes(k)
<1>0. /\ Functions
      /\ Typed(pc[k], pipe[k], stage[k], input[k], class[k], catches[k], runs[k])
      /\ Call(pc[k], stage[k], input[k], catches[k], runs[k])
  BY Before DEF Inv
<1>1. ASSUME NEW call \in Calls, Execute(k, call) PROVE CallGoes(k)
  <2>1. pc[k] = "idle" /\ pipe'[k] = call.pipe /\ runs'[k] = runs[k] /\ stage'[k] = 1
    BY <1>0, <1>1 DEF Execute, Functions, Call
  <2>2. pc'[k] = IF call.redirected /\ has.fs THEN "reading" ELSE Begun(call.pipe)
    BY <1>0, <1>1 DEF Execute, Functions
  <2>3. call.pipe \in Seq(Commands)
    BY TieredAssumption
  <2>4. call.pipe # <<>> => Len(call.pipe) > 0
    BY <2>3
  <2> QED BY <2>1, <2>2, <2>4 DEF CallGoes, Goes, Begun
<1>2. ASSUME NEW found \in BOOLEAN, ReadInput(k, found) PROVE CallGoes(k)
  <2>1. pc[k] = "reading" /\ pipe'[k] = pipe[k] /\ runs'[k] = runs[k] /\ stage'[k] = 1
    BY <1>0, <1>2 DEF ReadInput, Functions, Call
  <2>2. pc'[k] = IF found THEN Begun(pipe[k]) ELSE "done"
    BY <1>0, <1>2 DEF ReadInput, Functions
  <2>3. pipe[k] # <<>> => Len(pipe[k]) > 0
    BY <1>0 DEF Typed
  <2> QED BY <2>1, <2>2, <2>3 DEF CallGoes, Goes, Begun
<1>3. ASSUME ExecuteSegment(k) PROVE CallGoes(k)
  <2> DEFINE cls == Classification(Segment(k))
  <2>1. /\ pc[k] = "next" /\ pipe'[k] = pipe[k] /\ stage'[k] = stage[k]
        /\ catches'[k] = Guards(cls.handler)
    BY <1>0, <1>3 DEF ExecuteSegment, Functions
  <2>2. runs[k] \in Seq(Runs)
    BY <1>0 DEF Typed
  <2>3. \/ pc'[k] = "rejected" /\ runs'[k] = runs[k]
        \/ pc'[k] = "running" /\ runs'[k] = Append(runs[k], Run(k, cls.handler, input[k]))
    BY <1>0, <1>3 DEF ExecuteSegment, Functions
  <2> HIDE DEF cls
  <2>4. catches'[k] \in 0 .. 2
    BY <2>1 DEF Guards
  <2>5. CASE pc'[k] = "rejected" /\ runs'[k] = runs[k]
    BY <2>1, <2>5 DEF CallGoes, Goes
  <2>6. CASE pc'[k] = "running" /\ runs'[k] = Append(runs[k], Run(k, cls.handler, input[k]))
    <3>1. Len(runs'[k]) = Len(runs[k]) + 1
      BY <2>2, <2>6
    <3> QED BY <2>1, <2>4, <2>6, <3>1 DEF CallGoes, Goes
  <2> QED BY <2>3, <2>5, <2>6
<1>4. ASSUME Responds(k) PROVE CallGoes(k)
  BY <1>0, <1>4 DEF Responds, Functions, CallGoes, Goes
<1>5. ASSUME Succeeds(k) PROVE CallGoes(k)
  <2>1. /\ pc[k] \in Awaits /\ pc[k] # "idle" /\ pipe'[k] = pipe[k]
        /\ runs'[k] = Ended(k, "ok")
    BY <1>0, <1>5 DEF Succeeds, Functions, Awaits
  <2>2. Len(runs'[k]) = Len(runs[k])
    BY <2>1, Running DEF Endings
  <2>3. CASE stage[k] = Len(pipe[k])
    <3>1. pc'[k] = "done"
      BY <1>0, <1>5, <2>3 DEF Succeeds, Functions
    <3> QED BY <2>1, <2>2, <3>1 DEF CallGoes, Goes
  <2>4. CASE stage[k] # Len(pipe[k])
    <3>1. pc'[k] = "next" /\ stage'[k] = stage[k] + 1
      BY <1>0, <1>5, <2>4 DEF Succeeds, Functions
    <3>2. stage'[k] <= Len(pipe[k])
      BY <1>0, <2>1, <2>4, <3>1 DEF Typed
    <3> QED BY <2>1, <2>2, <3>1, <3>2 DEF CallGoes, Goes
  <2> QED BY <2>3, <2>4
<1>6. ASSUME Fails(k) PROVE CallGoes(k)
  <2>1. /\ pc[k] \in Awaits /\ pc[k] # "idle" /\ pipe'[k] = pipe[k]
        /\ runs'[k] = Ended(k, "fail") /\ pc'[k] = "done"
    BY <1>0, <1>6 DEF Fails, Functions, Awaits
  <2>2. Len(runs'[k]) = Len(runs[k])
    BY <2>1, Running DEF Endings
  <2> QED BY <2>1, <2>2 DEF CallGoes, Goes
<1>7. ASSUME Throws(k) PROVE CallGoes(k)
  BY <1>7, ThrownGoes DEF Throws, Rest
<1>8. ASSUME TimesOut(k) PROVE CallGoes(k)
  <2>1. pc[k] \in Awaits /\ pc[k] # "idle" /\ Rest /\ pipe'[k] = pipe[k]
    BY <1>8 DEF TimesOut, Rest, Awaits
  <2>2. CASE /\ Last(k).where = "polyglot"
             /\ runs' = [runs EXCEPT ![k] = Ended(k, "late")]
             /\ pc' = [pc EXCEPT ![k] = "done"]
    <3>1. runs'[k] = Ended(k, "late") /\ pc'[k] = "done"
      BY <1>0, <2>2 DEF Functions
    <3>2. Len(runs'[k]) = Len(runs[k])
      BY <2>1, <3>1, Running DEF Endings
    <3> QED BY <2>1, <3>1, <3>2 DEF CallGoes, Goes
  <2>3. CASE Thrown(k, "late")
    BY <2>1, <2>3, ThrownGoes
  <2> QED BY <1>8, <2>2, <2>3 DEF TimesOut
<1> QED BY <1>1, <1>2, <1>3, <1>4, <1>5, <1>6, <1>7, <1>8

LEMMA OthersStay ==
    ASSUME Inv, NEW k \in Callers, NEW j \in Callers, j # k,
           \/ \E call \in Calls : Execute(j, call)
           \/ \E found \in BOOLEAN : ReadInput(j, found)
           \/ ExecuteSegment(j) \/ Responds(j) \/ Succeeds(j)
           \/ Fails(j) \/ Throws(j) \/ TimesOut(j)
    PROVE  Stays(k)
<1>0. Functions
  BY DEF Inv
<1>1. ASSUME \/ \E call \in Calls : Execute(j, call)
             \/ \E found \in BOOLEAN : ReadInput(j, found)
             \/ ExecuteSegment(j) \/ Responds(j)
      PROVE  Stays(k)
  BY <1>0, <1>1 DEF Execute, ReadInput, ExecuteSegment, Responds, Functions, Stays
<1>2. ASSUME Succeeds(j) \/ Fails(j) PROVE Stays(k)
  BY <1>0, <1>2 DEF Succeeds, Fails, Functions, Stays
<1>3. ASSUME NEW o, Thrown(j, o), Rest PROVE Stays(k)
  BY <1>0, <1>3 DEF Thrown, Rest, Functions, Stays
<1>4. ASSUME Throws(j) PROVE Stays(k)
  BY <1>3, <1>4 DEF Throws, Rest
<1>5. ASSUME TimesOut(j) PROVE Stays(k)
  <2>1. CASE Thrown(j, "late")
    BY <1>3, <1>5, <2>1 DEF TimesOut, Rest
  <2>2. CASE ~Thrown(j, "late")
    BY <1>0, <1>5, <2>2 DEF TimesOut, Functions, Stays
  <2> QED BY <2>1, <2>2
<1> QED BY <1>1, <1>2, <1>4, <1>5

\* A step of the system goes on with a call or leaves it as it was
LEMMA StepGoes ==
    ASSUME Inv, [Next]_vars, NEW k \in Callers
    PROVE  Stays(k) \/ CallGoes(k)
<1>1. CASE \E j \in Callers :
             \/ \E call \in Calls : Execute(j, call)
             \/ \E found \in BOOLEAN : ReadInput(j, found)
             \/ ExecuteSegment(j) \/ Responds(j) \/ Succeeds(j)
             \/ Fails(j) \/ Throws(j) \/ TimesOut(j)
  BY <1>1, OwnStep, OthersStay
<1>2. CASE (\E c \in Asked : Classify(c)) \/ ClearCaches \/ UNCHANGED vars
  BY <1>2 DEF Classify, ClearCaches, vars, Stays
<1> QED BY <1>1, <1>2 DEF Next


LEMMA LeftIsNat ==
    ASSUME Inv, NEW k \in Callers
    PROVE  StepsLeft(k) \in Nat
<1> DEFINE len == Len(pipe[k])
<1>1. Typed(pc[k], pipe[k], stage[k], input[k], class[k], catches[k], runs[k])
  BY Before
<1>2. len \in Nat /\ stage[k] \in Nat /\ catches[k] \in 0 .. 2
  BY <1>1 DEF Typed
<1>3. pc[k] \in Awaits \union {"next"} => stage[k] <= len
  BY <1>1 DEF Typed
<1> HIDE DEF len
<1>4. Left(pc[k], len, stage[k], catches[k]) \in Nat
  BY <1>2, <1>3 DEF Left, Awaits
<1> QED BY <1>4 DEF StepsLeft, len

\* The steps of a call use up what is left of it
LEMMA GoesOn ==
    ASSUME Inv, Inv', NEW k \in Callers, CallGoes(k) PROVE Advances(k)
<1> DEFINE len == Len(pipe[k])
           len1 == Len(pipe'[k])
<1>1. Typed(pc[k], pipe[k], stage[k], input[k], class[k], catches[k], runs[k])
  BY Before
<1>2. /\ len \in Nat /\ stage[k] \in Nat /\ stage[k] >= 1 /\ catches[k] \in 0 .. 2
      /\ pc[k] \in Awaits \union {"next"} => stage[k] <= len
  BY <1>1 DEF Typed
<1>3. len1 \in Nat
  <2>1. pipe'[k] \in Seq(Commands)
    BY DEF Inv, Functions
  <2> QED BY <2>1
<1>4. CASE pc[k] = "idle"
  <2>1. \/ pc'[k] \in {"reading", "done"}
        \/ pc'[k] = "next" /\ stage'[k] = 1 /\ len1 > 0
    BY <1>4 DEF CallGoes, Goes
  <2> HIDE DEF len1
  <2>2. Left(pc'[k], len1, stage'[k], catches'[k]) <= 7 * len1 + 1
    BY <1>3, <2>1 DEF Left
  <2> QED BY <1>4, <2>2 DEF Advances, StepsLeft, len1
<1>5. CASE pc[k] # "idle"
  <2>1. /\ pipe'[k] = pipe[k]
        /\ \/ pc[k] = "reading" /\ pc'[k] = "next" /\ stage'[k] = 1
           \/ pc[k] = "reading" /\ pc'[k] = "done"
           \/ pc[k] = "next" /\ pc'[k] = "running" /\ stage'[k] = stage[k] /\ catches'[k] \in 0 .. 2
           \/ pc[k] = "next" /\ pc'[k] = "rejected"
           \/ /\ pc[k] = "running" /\ pc'[k] = "body" /\ stage'[k] = stage[k]
              /\ catches'[k] = catches[k]
           \/ pc[k] \in Awaits /\ pc'[k] = "next" /\ stage'[k] = stage[k] + 1
           \/ pc[k] \in Awaits /\ pc'[k] \in {"done", "rejected"}
           \/ /\ pc[k] \in Awaits /\ pc'[k] = "running" /\ stage'[k] = stage[k]
              /\ catches[k] > 0 /\ catches'[k] = catches[k] - 1
    BY <1>5 DEF CallGoes, Goes
  <2> HIDE DEF len
  <2>2. Left(pc'[k], len, stage'[k], catches'[k]) < Left(pc[k], len, stage[k], catches[k])
    BY <1>2, <2>1 DEF Left, Awaits
  <2> QED BY <1>5, <2>1, <2>2 DEF Advances, StepsLeft, len
<1> QED BY <1>4, <1>5

\* They begin no more runs than three for each segment
LEMMA GoesAllowed ==
    ASSUME Inv, Inv', NEW k \in Callers, CallGoes(k), RunsAllowed(k) PROVE RunsAllowed(k)'
<1> DEFINE len == Len(pipe[k])
           n == Len(runs[k])
<1>1. /\ Typed(pc[k], pipe[k], stage[k], input[k], class[k], catches[k], runs[k])
      /\ Typed(pc[k], pipe[k], stage[k], input[k], class[k], catches[k], runs[k])'
  <2>1. Typed(pc[k], pipe[k], stage[k], input[k], class[k], catches[k], runs[k])
    BY Before
  <2>2. Typed(pc[k], pipe[k], stage[k], input[k], class[k], catches[k], runs[k])'
    BY DEF Inv, OK, CallOK
  <2> QED BY <2>1, <2>2
<1>2. /\ len \in Nat /\ stage[k] \in Nat /\ stage[k] >= 1 /\ catches[k] \in 0 .. 2 /\ n \in Nat
      /\ pc[k] \in Awaits \union {"next"} => stage[k] <= len
      /\ pc[k] \in PCs
  BY <1>1 DEF Typed
<1>3. /\ Len(pipe'[k]) \in Nat /\ stage'[k] \in Nat /\ stage'[k] >= 1
      /\ catches'[k] \in 0 .. 2 /\ Len(runs'[k]) \in Nat
  BY <1>1 DEF Typed
<1>4. Allowed(pc[k], len, stage[k], catches[k], n)
  BY DEF RunsAllowed
<1> DEFINE len1 == Len(pipe'[k])
           n1 == Len(runs'[k])
<1>5. CASE pc[k] = "idle"
  <2>1. /\ n1 = n
        /\ \/ pc'[k] \in {"reading", "done"}
           \/ pc'[k] = "next" /\ stage'[k] = 1
    BY <1>5 DEF CallGoes, Goes
  <2> HIDE DEF len1, n1, n, len
  <2>2. Allowed(pc'[k], len1, stage'[k], catches'[k], n1)
    BY <1>2, <1>3, <1>4, <1>5, <2>1 DEF Allowed, Awaits, len1
  <2> QED BY <2>2 DEF RunsAllowed, len1, n1
<1>6. CASE pc[k] # "idle"
  <2>1. /\ len1 = len
        /\ \/ pc[k] = "reading" /\ pc'[k] = "next" /\ stage'[k] = 1 /\ n1 = n
           \/ pc[k] = "reading" /\ pc'[k] = "done" /\ n1 = n
           \/ /\ pc[k] = "next" /\ pc'[k] = "running" /\ stage'[k] = stage[k] /\ n1 = n + 1
              /\ catches'[k] \in 0 .. 2
           \/ pc[k] = "next" /\ pc'[k] = "rejected" /\ n1 = n
           \/ /\ pc[k] = "running" /\ pc'[k] = "body" /\ stage'[k] = stage[k] /\ n1 = n
              /\ catches'[k] = catches[k]
           \/ pc[k] \in Awaits /\ pc'[k] = "next" /\ stage'[k] = stage[k] + 1 /\ n1 = n
           \/ pc[k] \in Awaits /\ pc'[k] \in {"done", "rejected"} /\ n1 = n
           \/ /\ pc[k] \in Awaits /\ pc'[k] = "running" /\ stage'[k] = stage[k] /\ n1 = n + 1
              /\ catches[k] > 0 /\ catches'[k] = catches[k] - 1
    BY <1>6 DEF CallGoes, Goes
  <2> HIDE DEF len1, n1, n, len
  <2>2. Allowed(pc'[k], len1, stage'[k], catches'[k], n1)
    BY <1>2, <1>4, <2>1 DEF Allowed, Awaits
  <2> QED BY <2>2 DEF RunsAllowed, len1, n1
<1> QED BY <1>5, <1>6

LEMMA InitAllowed == Init => AllAllowed
<1> SUFFICES ASSUME Init, NEW k \in Callers PROVE RunsAllowed(k)
  BY DEF AllAllowed
<1>1. pc[k] = "idle" /\ runs[k] = <<>>
  BY DEF Init
<1>2. Len(runs[k]) = 0
  BY <1>1
<1> QED BY <1>1, <1>2 DEF RunsAllowed, Allowed, Awaits

LEMMA AllowedStep == Inv /\ Inv' /\ AllAllowed /\ [Next]_vars => AllAllowed'
<1> SUFFICES ASSUME Inv, Inv', AllAllowed, [Next]_vars, NEW k \in Callers
             PROVE  RunsAllowed(k)'
  BY DEF AllAllowed
<1>1. RunsAllowed(k)
  BY DEF AllAllowed
<1>2. CASE Stays(k)
  BY <1>1, <1>2 DEF Stays, RunsAllowed
<1>3. CASE CallGoes(k)
  BY <1>1, <1>3, GoesAllowed
<1> QED BY <1>2, <1>3, StepGoes

LEMMA AllowedImplies == Inv /\ AllAllowed => RunsPerCall
<1> SUFFICES ASSUME Inv, AllAllowed, NEW k \in Callers PROVE Len(runs[k]) <= 3 * Len(pipe[k])
  BY DEF RunsPerCall
<1>1. Typed(pc[k], pipe[k], stage[k], input[k], class[k], catches[k], runs[k])
  BY Before
<1>2. /\ Len(pipe[k]) \in Nat /\ stage[k] \in Nat /\ stage[k] >= 1 /\ catches[k] \in 0 .. 2
      /\ Len(runs[k]) \in Nat /\ pc[k] \in PCs
      /\ pc[k] \in Awaits \union {"next"} => stage[k] <= Len(pipe[k])
  BY <1>1 DEF Typed
<1>3. Allowed(pc[k], Len(pipe[k]), stage[k], catches[k], Len(runs[k]))
  BY DEF AllAllowed, RunsAllowed
<1> DEFINE n == Len(runs[k])
           len == Len(pipe[k])
<1> HIDE DEF n, len
<1>4. pc[k] \in {"idle", "reading"} => n <= 3 * len
  BY <1>2, <1>3 DEF Allowed, n, len
<1>5. pc[k] = "next" => n <= 3 * len
  BY <1>2, <1>3 DEF Allowed, n, len
<1>6. pc[k] \in Awaits => n <= 3 * len
  BY <1>2, <1>3 DEF Allowed, n, len
<1>7. pc[k] \in {"done", "rejected"} => n <= 3 * len
  BY <1>3 DEF Allowed, n, len
<1> QED BY <1>2, <1>4, <1>5, <1>6, <1>7 DEF PCs, Awaits, n, len

LEMMA AdvanceStep == Inv /\ Inv' /\ [Next]_vars => [CallsAdvanceStep]_vars
<1> SUFFICES ASSUME Inv, Inv', [Next]_vars, NEW k \in Callers
             PROVE  Advances(k) /\ StepsLeft(k) \in Nat
  BY DEF CallsAdvanceStep
<1>1. CASE Stays(k)
  BY <1>1, LeftIsNat DEF Advances
<1>2. CASE CallGoes(k)
  BY <1>2, LeftIsNat, GoesOn
<1> QED BY <1>1, <1>2, StepGoes

\* A call that has begun ends after at most seven steps for each segment and one
\* for its redirection, whatever throws, times out or other callers do: nothing in
\* it is done again but what its catch blocks count down.  That the steps left do
\* happen is CallsSettle, which needs the fairness of the modules and timers.
THEOREM CallsOnlyAdvance == Spec => [][CallsAdvanceStep]_vars
<1>1. Inv /\ Inv' /\ [Next]_vars => [CallsAdvanceStep]_vars
  BY AdvanceStep
<1> QED BY <1>1, AlwaysInv, PTL DEF Spec

\* No call runs more commands than three times its segments.
THEOREM ThreeRunsPerSegment == Spec => []RunsPerCall
<1>1. Inv /\ AllAllowed => RunsPerCall
  BY AllowedImplies
<1>2. Inv /\ Inv' /\ AllAllowed /\ [Next]_vars => AllAllowed'
  BY AllowedStep
<1> QED BY <1>1, <1>2, InitAllowed, AlwaysInv, PTL DEF Spec

==============================================================================
