-------------------------- MODULE ShellStream_proofs --------------------------
(***************************************************************************)
(* Proofs about ShellStream.                                               *)
(***************************************************************************)
EXTENDS ShellStream, SequenceTheorems, TLAPS

\* A handler walks a list of a channel that has something to deliver
WalkOK == walk = Idle \/ (walk.on \in Channels /\ buffer[walk.on] # <<>>)

\* and a replay is of a channel, to a callback
ReplayOK == replay = NoReplay \/ (replay.on \in Channels /\ replay.cb \in Callbacks)

TypeInv == TypeOK /\ WalkOK /\ ReplayOK

------------------------------------------------------------------------------
(* Sequences *)

LEMMA AppendFacts ==
    ASSUME NEW S, NEW s \in Seq(S), NEW x \in S
    PROVE  /\ Append(s, x) \in Seq(S)
           /\ Append(s, x) # <<>>
           /\ Len(Append(s, x)) = Len(s) + 1
           /\ \A i \in 1 .. Len(s) : Append(s, x)[i] = s[i]
           /\ Append(s, x)[Len(s) + 1] = x
           /\ Last(Append(s, x)) = x
<1>1. /\ Append(s, x) \in Seq(S) /\ Append(s, x) # <<>>
      /\ Len(Append(s, x)) = Len(s) + 1
      /\ \A i \in 1 .. Len(s) : Append(s, x)[i] = s[i]
      /\ Append(s, x)[Len(s) + 1] = x
  BY AppendProperties
<1> QED BY <1>1 DEF Last

LEMMA RemoveAtFacts ==
    ASSUME NEW S, NEW s \in Seq(S), NEW i \in DOMAIN s
    PROVE  /\ RemoveAt(s, i) \in Seq(S)
           /\ Len(RemoveAt(s, i)) = Len(s) - 1
           /\ \A p \in 1 .. Len(s) - 1 : RemoveAt(s, i)[p] = s[IF p < i THEN p ELSE p + 1]
<1> DEFINE front == SubSeq(s, 1, i - 1)
           back  == SubSeq(s, i + 1, Len(s))
<1>0. i \in 1 .. Len(s) /\ Len(s) \in Nat
  OBVIOUS
<1>1. front \in Seq(S) /\ Len(front) = i - 1
  BY <1>0
<1>2. \A p \in 1 .. i - 1 : front[p] = s[p]
  BY <1>0
<1>3. back \in Seq(S) /\ Len(back) = Len(s) - i
  BY <1>0
<1>4. \A p \in 1 .. Len(s) - i : back[p] = s[p + i]
  BY <1>0
<1>5. RemoveAt(s, i) = front \o back
  BY DEF RemoveAt
<1> HIDE DEF front, back
<1>6. /\ front \o back \in Seq(S)
      /\ Len(front \o back) = Len(front) + Len(back)
      /\ \A p \in 1 .. Len(front) + Len(back) :
            (front \o back)[p] = IF p <= Len(front) THEN front[p] ELSE back[p - Len(front)]
  BY <1>1, <1>3, ConcatProperties
<1>7. Len(front) + Len(back) = Len(s) - 1
  BY <1>0, <1>1, <1>3
<1>8. ASSUME NEW p \in 1 .. Len(s) - 1, p < i PROVE (front \o back)[p] = s[p]
  <2>1. p <= Len(front) /\ p \in 1 .. i - 1
    BY <1>0, <1>1, <1>8
  <2> QED BY <1>2, <1>6, <1>7, <2>1
<1>9. ASSUME NEW p \in 1 .. Len(s) - 1, ~(p < i) PROVE (front \o back)[p] = s[p + 1]
  <2>1. ~(p <= Len(front)) /\ p - Len(front) \in 1 .. Len(s) - i
    BY <1>0, <1>1, <1>9
  <2>2. (p - Len(front)) + i = p + 1
    BY <1>0, <1>1
  <2>3. (front \o back)[p] = back[p - Len(front)]
    BY <1>6, <1>7, <2>1
  <2> QED BY <1>4, <2>1, <2>2, <2>3
<1> QED BY <1>5, <1>6, <1>7, <1>8, <1>9

\* What an assignment to one entry of got leaves there
LEMMA GotUpdate ==
    ASSUME NEW ch \in Channels, NEW cb \in Callbacks, NEW seen,
           got \in [Channels -> [Callbacks -> Seq(Int)]],
           got' = [got EXCEPT ![ch][cb] = seen]
    PROVE  /\ seen \in Seq(Int) => got' \in [Channels -> [Callbacks -> Seq(Int)]]
           /\ \A c \in Channels, x \in Callbacks :
                 got'[c][x] = IF c = ch /\ x = cb THEN seen ELSE got[c][x]
<1>1. got' = [got EXCEPT ![ch] = [got[ch] EXCEPT ![cb] = seen]]
  OBVIOUS
<1>2. got[ch] \in [Callbacks -> Seq(Int)]
  OBVIOUS
<1>3. ASSUME NEW c \in Channels, NEW x \in Callbacks
      PROVE  got'[c][x] = IF c = ch /\ x = cb THEN seen ELSE got[c][x]
  <2>1. CASE c = ch
    BY <1>1, <1>2, <2>1
  <2>2. CASE c # ch
    BY <1>1, <2>2
  <2> QED BY <2>1, <2>2
<1>4. seen \in Seq(Int) => [got[ch] EXCEPT ![cb] = seen] \in [Callbacks -> Seq(Int)]
  BY <1>2
<1> QED BY <1>1, <1>3, <1>4

------------------------------------------------------------------------------
(* The type *)

LEMMA TypeInit == Init => TypeInv
<1> SUFFICES ASSUME Init PROVE TypeInv
  OBVIOUS
<1>1. <<>> \in Seq(Int) /\ <<>> \in Seq(Callbacks)
  OBVIOUS
<1>2. written \in [Data -> Nat] /\ read \in [Data -> Nat]
  BY DEF Init
<1>3. buffer \in [Channels -> Seq(Int)] /\ list \in [Channels -> Seq(Callbacks)]
  BY <1>1 DEF Init
<1>4. got \in [Channels -> [Callbacks -> Seq(Int)]]
  BY <1>1 DEF Init
<1>5. walk \in [on : Channels \union {"none"}, at : Nat \ {0}]
  BY DEF Init, Idle
<1>6. replay \in [on : Channels \union {"none"}, cb : Callbacks \union {"none"}, at : Nat \ {0}]
  BY DEF Init, NoReplay
<1>7. result \in [out : Seq(Int), err : Seq(Int), code : Codes \union {1, -2}]
  BY <1>1 DEF Init, NoResult
<1>8. WalkOK /\ ReplayOK
  BY DEF Init, WalkOK, ReplayOK
<1>9. /\ process = "running" /\ signalled \in BOOLEAN /\ failed \in BOOLEAN
      /\ disposed \in BOOLEAN /\ exited \in BOOLEAN /\ waiter = "none" /\ meddled = {}
  BY DEF Init
<1> QED BY <1>2, <1>3, <1>4, <1>5, <1>6, <1>7, <1>8, <1>9 DEF TypeInv, TypeOK

LEMMA TypeFinish ==
    ASSUME TypeInv, NEW code \in Codes \union {1}, NEW err \in Seq(Int), Finish(code, err),
           process' \in {"reported", "failed", process}, failed' \in BOOLEAN
    PROVE  TypeInv'
<1>0. TypeOK /\ WalkOK /\ ReplayOK
  BY DEF TypeInv
<1>1. code \in Int
  BY StreamAssumption
<1>2. buffer["exit"] \in Seq(Int) /\ buffer["stdout"] \in Seq(Int)
  BY <1>0 DEF TypeOK, Channels, Data
<1>3. Append(buffer["exit"], code) \in Seq(Int) /\ Append(buffer["exit"], code) # <<>>
  <2> DEFINE reported == buffer["exit"]
  <2>1. reported \in Seq(Int)
    BY <1>2
  <2> HIDE DEF reported
  <2>2. Append(reported, code) \in Seq(Int) /\ Append(reported, code) # <<>>
    BY <1>1, <2>1, AppendFacts
  <2> QED BY <2>2 DEF reported
<1>4. buffer' = [[buffer EXCEPT !["exit"] = Append(buffer["exit"], code)] EXCEPT !["stderr"] = err]
  BY DEF Finish
<1>5. buffer' \in [Channels -> Seq(Int)] /\ buffer'["exit"] # <<>>
  BY <1>0, <1>3, <1>4 DEF TypeOK, Channels, Data
<1>6. result' \in [out : Seq(Int), err : Seq(Int), code : Codes \union {1, -2}]
  BY <1>2 DEF Finish
<1>7. walk' \in [on : Channels \union {"none"}, at : Nat \ {0}] /\ WalkOK'
  BY <1>5 DEF Finish, WalkOK, Channels
<1>8. UNCHANGED <<written, read, signalled, list, replay, got, disposed, waiter, meddled>> /\ exited'
  BY DEF Finish
<1>9. process' \in {"running", "gone", "reported", "failed"}
  BY <1>0 DEF TypeOK
<1>10. TypeOK'
  BY <1>0, <1>5, <1>6, <1>7, <1>8, <1>9 DEF TypeOK
<1> QED BY <1>0, <1>7, <1>8, <1>10 DEF TypeInv, ReplayOK

\* A step that changes neither what is delivered nor to whom
LEMMA TypeSame ==
    ASSUME TypeInv,
           UNCHANGED <<written, read, buffer, list, walk, replay, got, disposed, exited, result, meddled>>,
           process' \in {process, "gone"}, signalled' \in {signalled, TRUE},
           failed' \in {failed, TRUE}, waiter' \in {waiter, "pending", "resolved"}
    PROVE  TypeInv'
<1>1. /\ process' \in {"running", "gone", "reported", "failed"}
      /\ signalled' \in BOOLEAN /\ failed' \in BOOLEAN
      /\ waiter' \in {"none", "pending", "resolved"}
  BY DEF TypeInv, TypeOK
<1>2. /\ written' \in [Data -> Nat] /\ read' \in [Data -> Nat]
      /\ buffer' \in [Channels -> Seq(Int)] /\ list' \in [Channels -> Seq(Callbacks)]
      /\ walk' \in [on : Channels \union {"none"}, at : Nat \ {0}]
      /\ replay' \in [on : Channels \union {"none"}, cb : Callbacks \union {"none"}, at : Nat \ {0}]
  BY DEF TypeInv, TypeOK
<1>3. /\ disposed' \in BOOLEAN /\ exited' \in BOOLEAN
      /\ result' \in [out : Seq(Int), err : Seq(Int), code : Codes \union {1, -2}]
      /\ got' \in [Channels -> [Callbacks -> Seq(Int)]] /\ meddled' \in SUBSET Channels
  BY DEF TypeInv, TypeOK
<1>4. WalkOK' /\ ReplayOK'
  BY DEF TypeInv, WalkOK, ReplayOK
<1> QED BY <1>1, <1>2, <1>3, <1>4 DEF TypeInv, TypeOK

LEMMA TypeStep == TypeInv /\ [Next]_vars => TypeInv'
<1> SUFFICES ASSUME TypeInv, [Next]_vars PROVE TypeInv'
  OBVIOUS
<1>0. TypeOK /\ WalkOK /\ ReplayOK
  BY DEF TypeInv
<1>1. CASE Die \/ OnLateError \/ Kill \/ Wait
  <2>1. /\ UNCHANGED <<written, read, buffer, list, walk, replay, got, disposed, exited, result, meddled>>
        /\ process' \in {process, "gone"} /\ signalled' \in {signalled, TRUE}
        /\ failed' \in {failed, TRUE} /\ waiter' \in {waiter, "pending", "resolved"}
    BY <1>1 DEF Die, OnLateError, Kill, Wait, child, calls, ends
  <2> QED BY <2>1, TypeSame
<1>2. ASSUME NEW ch \in Data, Write(ch) PROVE TypeInv'
  <2>1. written[ch] \in Nat /\ written' = [written EXCEPT ![ch] = written[ch] + 1]
    BY <1>0, <1>2 DEF Write, TypeOK
  <2>2. written' \in [Data -> Nat]
    BY <1>0, <2>1 DEF TypeOK
  <2>3. UNCHANGED <<process, read, signalled, failed, buffer, list, walk, replay, got, disposed,
                    exited, result, waiter, meddled>>
    BY <1>2 DEF Write, calls, ends
  <2>4. TypeOK'
    BY <1>0, <2>2, <2>3 DEF TypeOK
  <2> QED BY <1>0, <2>3, <2>4 DEF TypeInv, WalkOK, ReplayOK
<1>3. ASSUME NEW ch \in Data, OnData(ch) PROVE TypeInv'
  <2>1. ch \in Channels /\ read[ch] \in Nat /\ buffer[ch] \in Seq(Int)
    BY <1>0, <1>3 DEF TypeOK, Channels
  <2>2. read' \in [Data -> Nat]
    <3>1. read' = [read EXCEPT ![ch] = read[ch] + 1] /\ read[ch] + 1 \in Nat
      BY <1>3, <2>1 DEF OnData
    <3>2. read \in [Data -> Nat]
      BY <1>0 DEF TypeOK
    <3> QED BY <3>1, <3>2
  <2>a. Append(buffer[ch], read[ch] + 1) \in Seq(Int) /\ Append(buffer[ch], read[ch] + 1) # <<>>
    <3>1. read[ch] + 1 \in Int
      BY <2>1
    <3> QED BY <2>1, <3>1, AppendFacts
  <2>b. buffer' = [buffer EXCEPT ![ch] = Append(buffer[ch], read[ch] + 1)]
    BY <1>3 DEF OnData
  <2>3. buffer' \in [Channels -> Seq(Int)] /\ buffer'[ch] # <<>>
    BY <1>0, <2>1, <2>a, <2>b DEF TypeOK
  <2>4. walk' \in [on : Channels \union {"none"}, at : Nat \ {0}] /\ WalkOK'
    BY <1>3, <2>1, <2>3 DEF OnData, WalkOK
  <2>5. UNCHANGED <<process, written, signalled, failed, list, replay, got, disposed, exited,
                    result, waiter, meddled>>
    BY <1>3 DEF OnData, ends
  <2>6. TypeOK'
    <3>1. /\ process' \in {"running", "gone", "reported", "failed"} /\ written' \in [Data -> Nat]
          /\ signalled' \in BOOLEAN /\ failed' \in BOOLEAN /\ list' \in [Channels -> Seq(Callbacks)]
          /\ replay' \in [on : Channels \union {"none"}, cb : Callbacks \union {"none"}, at : Nat \ {0}]
          /\ disposed' \in BOOLEAN /\ exited' \in BOOLEAN
      BY <1>0, <2>5 DEF TypeOK
    <3>2. /\ result' \in [out : Seq(Int), err : Seq(Int), code : Codes \union {1, -2}]
          /\ waiter' \in {"none", "pending", "resolved"} /\ meddled' \in SUBSET Channels
          /\ got' \in [Channels -> [Callbacks -> Seq(Int)]]
      BY <1>0, <2>5 DEF TypeOK
    <3> QED BY <2>2, <2>3, <2>4, <3>1, <3>2 DEF TypeOK
  <2> QED BY <1>0, <2>4, <2>5, <2>6 DEF TypeInv, ReplayOK
<1>4. ASSUME NEW code \in Codes, OnExit(code) PROVE TypeInv'
  <2>1. buffer["stderr"] \in Seq(Int)
    BY <1>0 DEF TypeOK, Channels, Data
  <2> QED BY <1>0, <1>4, <2>1, TypeFinish DEF OnExit, TypeInv, TypeOK
<1>5. CASE OnError
  <2>1. Append(buffer["stderr"], Message) \in Seq(Int)
    BY <1>0 DEF TypeOK, Channels, Data, Message
  <2>2. process' \in {"reported", "failed", process} /\ failed' \in BOOLEAN
    BY <1>5 DEF OnError
  <2>3. Finish(1, Append(buffer["stderr"], Message))
    BY <1>5 DEF OnError
  <2> QED BY <2>1, <2>2, <2>3, TypeFinish
<1>6. CASE CallNext
  <2>1. walk.on \in Channels /\ walk.at \in 1 .. Len(list[walk.on]) /\ walk.at \in Nat \ {0}
    BY <1>0, <1>6 DEF CallNext, WalkOK, TypeOK
  <2>2. list[walk.on][walk.at] \in Callbacks
    BY <1>0, <2>1 DEF TypeOK
  <2>3. buffer[walk.on] \in Seq(Int) /\ buffer[walk.on] # <<>>
    BY <1>0, <1>6, <2>1 DEF CallNext, WalkOK, TypeOK
  <2>4. Last(buffer[walk.on]) \in Int
    BY <2>3 DEF Last
  <2> DEFINE cb == list[walk.on][walk.at]
  <2>5. got[walk.on][cb] \in Seq(Int)
    BY <1>0, <2>1, <2>2 DEF TypeOK
  <2>6. Append(got[walk.on][cb], Last(buffer[walk.on])) \in Seq(Int)
    BY <2>4, <2>5
  <2>7. got' = [got EXCEPT ![walk.on][cb] = Append(got[walk.on][cb], Last(buffer[walk.on]))]
    BY <1>6 DEF CallNext
  <2>8. got' \in [Channels -> [Callbacks -> Seq(Int)]]
    BY <1>0, <2>1, <2>2, <2>6, <2>7, GotUpdate DEF TypeOK
  <2>9. walk' = [walk EXCEPT !.at = walk.at + 1] /\ walk.at + 1 \in Nat \ {0}
    BY <1>6, <2>1 DEF CallNext
  <2>10. walk' \in [on : Channels \union {"none"}, at : Nat \ {0}] /\ walk'.on = walk.on
    BY <1>0, <2>9 DEF TypeOK
  <2>11. UNCHANGED <<process, written, read, signalled, failed, buffer, list, replay, disposed,
                     exited, result, waiter, meddled>>
    BY <1>6 DEF CallNext, child, ends
  <2>12. TypeOK'
    BY <1>0, <2>8, <2>10, <2>11 DEF TypeOK
  <2> QED BY <1>0, <2>1, <2>3, <2>10, <2>11, <2>12 DEF TypeInv, WalkOK, ReplayOK
<1>7. CASE CallsDone
  BY <1>0, <1>7 DEF CallsDone, child, TypeInv, TypeOK, WalkOK, ReplayOK, Idle
<1>8. CASE ReplayNext
  <2>1. replay.on \in Channels /\ replay.cb \in Callbacks /\ replay.at \in Nat \ {0}
    BY <1>0, <1>8 DEF ReplayNext, ReplayOK, TypeOK
  <2>2. buffer[replay.on][replay.at] \in Int
    BY <1>0, <1>8, <2>1 DEF ReplayNext, TypeOK
  <2>3. got[replay.on][replay.cb] \in Seq(Int)
    BY <1>0, <2>1 DEF TypeOK
  <2>4. Append(got[replay.on][replay.cb], buffer[replay.on][replay.at]) \in Seq(Int)
    BY <2>2, <2>3
  <2>5. got' = [got EXCEPT ![replay.on][replay.cb] =
                   Append(got[replay.on][replay.cb], buffer[replay.on][replay.at])]
    BY <1>8 DEF ReplayNext
  <2>6. got' \in [Channels -> [Callbacks -> Seq(Int)]]
    BY <1>0, <2>1, <2>4, <2>5, GotUpdate DEF TypeOK
  <2>7. /\ replay' \in [on : Channels \union {"none"}, cb : Callbacks \union {"none"}, at : Nat \ {0}]
        /\ replay'.on = replay.on /\ replay'.cb = replay.cb
    <3>1. replay' = [replay EXCEPT !.at = replay.at + 1] /\ replay.at + 1 \in Nat \ {0}
      BY <1>8, <2>1 DEF ReplayNext
    <3> QED BY <1>0, <3>1 DEF TypeOK
  <2>8. UNCHANGED <<process, written, read, signalled, failed, buffer, list, walk, disposed,
                    exited, result, waiter, meddled>>
    BY <1>8 DEF ReplayNext, child, ends
  <2>9. TypeOK'
    BY <1>0, <2>6, <2>7, <2>8 DEF TypeOK
  <2> QED BY <1>0, <2>1, <2>7, <2>8, <2>9 DEF TypeInv, WalkOK, ReplayOK
<1>9. CASE ReplayDone
  BY <1>0, <1>9 DEF ReplayDone, child, ends, TypeInv, TypeOK, WalkOK, ReplayOK, NoReplay
<1>10. ASSUME NEW ch \in Channels, NEW cb \in Callbacks, Subscribe(ch, cb) PROVE TypeInv'
  <2>1. list[ch] \in Seq(Callbacks) /\ buffer[ch] \in Seq(Int)
    BY <1>0 DEF TypeOK
  <2>2. list' \in [Channels -> Seq(Callbacks)]
    BY <1>0, <1>10, <2>1 DEF Subscribe, TypeOK
  <2>3. meddled' \in SUBSET Channels
    BY <1>0, <1>10 DEF Subscribe, Meddle, TypeOK
  <2>u. UNCHANGED <<process, written, read, signalled, failed, buffer, walk, disposed, exited,
                    result, waiter>>
    BY <1>10 DEF Subscribe, child, ends
  <2>v. /\ process' \in {"running", "gone", "reported", "failed"}
        /\ written' \in [Data -> Nat] /\ read' \in [Data -> Nat]
        /\ signalled' \in BOOLEAN /\ failed' \in BOOLEAN
        /\ buffer' \in [Channels -> Seq(Int)]
        /\ walk' \in [on : Channels \union {"none"}, at : Nat \ {0}]
    BY <1>0, <2>u DEF TypeOK
  <2>w. /\ disposed' \in BOOLEAN /\ exited' \in BOOLEAN
        /\ result' \in [out : Seq(Int), err : Seq(Int), code : Codes \union {1, -2}]
        /\ waiter' \in {"none", "pending", "resolved"}
    BY <1>0, <2>u DEF TypeOK
  <2>4. CASE buffer[ch] = <<>>
    <3>1. got' = [got EXCEPT ![ch][cb] = <<>>] /\ UNCHANGED replay
      BY <1>10, <2>4 DEF Subscribe
    <3>2. <<>> \in Seq(Int)
      OBVIOUS
    <3>3. got' \in [Channels -> [Callbacks -> Seq(Int)]]
      BY <1>0, <3>1, <3>2, GotUpdate DEF TypeOK
    <3>4. TypeOK'
      <4>1. replay' \in [on : Channels \union {"none"}, cb : Callbacks \union {"none"}, at : Nat \ {0}]
        BY <1>0, <3>1 DEF TypeOK
      <4> QED BY <2>2, <2>3, <2>v, <2>w, <3>3, <4>1 DEF TypeOK
    <3> QED BY <1>0, <2>u, <3>1, <3>4 DEF TypeInv, WalkOK, ReplayOK
  <2>5. CASE buffer[ch] # <<>>
    <3>1. Missed(ch) \in 1 .. Len(buffer[ch])
      BY <2>1, <2>5 DEF Missed
    <3>2. <<buffer[ch][Missed(ch)]>> \in Seq(Int)
      BY <2>1, <3>1
    <3>3. got' = [got EXCEPT ![ch][cb] = <<buffer[ch][Missed(ch)]>>]
      BY <1>10, <2>5 DEF Subscribe
    <3>4. got' \in [Channels -> [Callbacks -> Seq(Int)]]
      BY <1>0, <3>2, <3>3, GotUpdate DEF TypeOK
    <3>5. replay' = [on |-> ch, cb |-> cb, at |-> Missed(ch) + 1]
      BY <1>10, <2>5 DEF Subscribe
    <3>6. /\ replay' \in [on : Channels \union {"none"}, cb : Callbacks \union {"none"}, at : Nat \ {0}]
          /\ ReplayOK'
      BY <3>1, <3>5 DEF ReplayOK
    <3>7. TypeOK'
      BY <2>2, <2>3, <2>v, <2>w, <3>4, <3>6 DEF TypeOK
    <3> QED BY <1>0, <2>u, <3>6, <3>7 DEF TypeInv, WalkOK
  <2> QED BY <2>4, <2>5
<1>11. ASSUME NEW ch \in Channels, NEW cb \in Callbacks, Unsubscribe(ch, cb) PROVE TypeInv'
  <2>1. PICK i \in DOMAIN list[ch] : list' = [list EXCEPT ![ch] = RemoveAt(list[ch], i)]
    BY <1>11 DEF Unsubscribe
  <2>2. list[ch] \in Seq(Callbacks)
    BY <1>0 DEF TypeOK
  <2>3. RemoveAt(list[ch], i) \in Seq(Callbacks)
    BY <2>2, RemoveAtFacts
  <2>4. list' \in [Channels -> Seq(Callbacks)]
    BY <1>0, <2>1, <2>3 DEF TypeOK
  <2>5. meddled' \in SUBSET Channels
    BY <1>0, <1>11 DEF Unsubscribe, Meddle, TypeOK
  <2>6. got' = [got EXCEPT ![ch][cb] = <<>>] /\ <<>> \in Seq(Int)
    BY <1>11 DEF Unsubscribe
  <2>7. got' \in [Channels -> [Callbacks -> Seq(Int)]]
    BY <1>0, <2>6, GotUpdate DEF TypeOK
  <2>8. UNCHANGED <<process, written, read, signalled, failed, buffer, walk, replay, disposed,
                    exited, result, waiter>>
    BY <1>11 DEF Unsubscribe, child, ends
  <2>9. TypeOK'
    <3>1. /\ process' \in {"running", "gone", "reported", "failed"}
          /\ written' \in [Data -> Nat] /\ read' \in [Data -> Nat]
          /\ signalled' \in BOOLEAN /\ failed' \in BOOLEAN
          /\ buffer' \in [Channels -> Seq(Int)]
          /\ walk' \in [on : Channels \union {"none"}, at : Nat \ {0}]
          /\ replay' \in [on : Channels \union {"none"}, cb : Callbacks \union {"none"}, at : Nat \ {0}]
      BY <1>0, <2>8 DEF TypeOK
    <3>2. /\ disposed' \in BOOLEAN /\ exited' \in BOOLEAN
          /\ result' \in [out : Seq(Int), err : Seq(Int), code : Codes \union {1, -2}]
          /\ waiter' \in {"none", "pending", "resolved"}
      BY <1>0, <2>8 DEF TypeOK
    <3> QED BY <2>4, <2>5, <2>7, <3>1, <3>2 DEF TypeOK
  <2> QED BY <1>0, <2>8, <2>9 DEF TypeInv, WalkOK, ReplayOK
<1>12. CASE Dispose
  BY <1>0, <1>12 DEF Dispose, TypeInv, TypeOK, WalkOK, ReplayOK
<1>13. CASE UNCHANGED vars
  BY <1>0, <1>13 DEF vars, child, calls, ends, TypeInv, TypeOK, WalkOK, ReplayOK
<1> QED BY <1>1, <1>2, <1>3, <1>4, <1>5, <1>6, <1>7, <1>8, <1>9, <1>10, <1>11, <1>12, <1>13 DEF Next

\* Whatever order the events come in, the stream keeps to its types: a code is a
\* code of an exit or the 1 of an error, and what a callback gets is in a buffer.
THEOREM TypeCorrect == Spec => []TypeOK
<1>1. Spec => []TypeInv
  BY TypeInit, TypeStep, PTL DEF Spec
<1>2. TypeInv => TypeOK
  BY DEF TypeInv
<1> QED BY <1>1, <1>2, PTL

------------------------------------------------------------------------------
(* The end of the process and the end of the stream *)

\* The result is there from the end on; it is of the exit, or of an error after
\* which the process may run on; who waits is answered by the walk that is under
\* way; a disposed stream has no callbacks and has signalled what ran.
EndInv ==
    /\ exited <=> result # NoResult
    /\ exited => process # "running" \/ failed
    /\ exited => process = "reported" \/ (failed /\ result.code = 1)
    /\ NoWaiterLeft
    /\ disposed => \A ch \in Channels : list[ch] = <<>>
    /\ disposed => exited \/ signalled
    /\ DisposeKills

LEMMA EndInit == Init => EndInv
BY DEF Init, EndInv, NoWaiterLeft, DisposeKills

\* A step that touches none of what EndInv speaks of but the lists of a stream
\* that is not disposed
LEMMA EndQuiet ==
    ASSUME EndInv, UNCHANGED <<process, signalled, failed, disposed, exited, result, waiter>>,
           disposed => UNCHANGED list,
           walk'.on = walk.on \/ waiter # "pending" \/ ~exited
    PROVE  EndInv'
BY DEF EndInv, NoWaiterLeft, DisposeKills

LEMMA EndFinish ==
    ASSUME EndInv, NEW code \in Codes \union {1}, NEW err, Finish(code, err),
           \/ process = "gone" /\ process' = "reported" /\ UNCHANGED failed
           \/ failed' /\ code = 1 /\ process' \in {process, "failed"}
    PROVE  EndInv'
<1>1. /\ exited' /\ walk'.on = "exit" /\ result'.code = code
      /\ UNCHANGED <<signalled, list, disposed, waiter>>
  BY DEF Finish
<1>2. code # -2
  BY StreamAssumption
<1>3. result' # NoResult
  BY <1>1, <1>2 DEF NoResult
<1>4. (exited' => process' # "running" \/ failed') /\ DisposeKills'
  BY <1>1 DEF EndInv, DisposeKills
<1>5. exited' => process' = "reported" \/ (failed' /\ result'.code = 1)
  BY <1>1
<1> QED BY <1>1, <1>3, <1>4, <1>5 DEF EndInv, NoWaiterLeft

LEMMA EndStep == TypeInv /\ EndInv /\ [Next]_vars => EndInv'
<1> SUFFICES ASSUME TypeInv, EndInv, [Next]_vars PROVE EndInv'
  OBVIOUS
<1>1. CASE Die
  <2>1. /\ process = "running" /\ process' = "gone"
        /\ UNCHANGED <<signalled, failed, list, walk, disposed, exited, result, waiter>>
    BY <1>1 DEF Die, calls, ends
  <2> QED BY <2>1 DEF EndInv, NoWaiterLeft, DisposeKills
<1>2. CASE OnLateError
  <2>1. /\ failed' /\ UNCHANGED <<process, signalled, list, walk, disposed, exited, result, waiter>>
    BY <1>2 DEF OnLateError, calls, ends
  <2> QED BY <2>1 DEF EndInv, NoWaiterLeft, DisposeKills
<1>3. ASSUME NEW ch \in Data, Write(ch) PROVE EndInv'
  BY <1>3, EndQuiet DEF Write, calls, ends
<1>4. ASSUME NEW ch \in Data, OnData(ch) PROVE EndInv'
  <2>1. walk.on # "exit"
    BY <1>4 DEF OnData, Quiet, Idle
  <2>2. waiter # "pending" \/ ~exited
    BY <2>1 DEF EndInv, NoWaiterLeft
  <2> QED BY <1>4, <2>2, EndQuiet DEF OnData, ends
<1>5. ASSUME NEW code \in Codes, OnExit(code) PROVE EndInv'
  BY <1>5, EndFinish DEF OnExit
<1>6. CASE OnError
  <2>1. failed' /\ process' \in {process, "failed"}
    BY <1>6 DEF OnError
  <2>2. Finish(1, Append(buffer["stderr"], Message))
    BY <1>6 DEF OnError
  <2> QED BY <2>1, <2>2, EndFinish
<1>7. CASE CallNext
  <2>1. UNCHANGED <<process, signalled, failed, list, disposed, exited, result, waiter>>
    BY <1>7 DEF CallNext, child, ends
  <2>2. walk'.on = walk.on
    BY <1>7 DEF CallNext, TypeInv, TypeOK
  <2> QED BY <2>1, <2>2, EndQuiet
<1>8. CASE CallsDone
  <2>1. UNCHANGED <<process, signalled, failed, list, disposed, exited, result>>
    BY <1>8 DEF CallsDone, child
  <2>2. NoWaiterLeft'
    BY <1>8 DEF CallsDone, EndInv, NoWaiterLeft
  <2> QED BY <2>1, <2>2 DEF EndInv, DisposeKills
<1>9. CASE ReplayNext \/ ReplayDone
  BY <1>9, EndQuiet DEF ReplayNext, ReplayDone, child, ends
<1>10. ASSUME NEW ch \in Channels, NEW cb \in Callbacks, Subscribe(ch, cb) PROVE EndInv'
  BY <1>10, EndQuiet DEF Subscribe, child, ends
<1>11. ASSUME NEW ch \in Channels, NEW cb \in Callbacks, Unsubscribe(ch, cb) PROVE EndInv'
  <2>1. /\ UNCHANGED <<process, signalled, failed, disposed, exited, result, waiter, walk>>
        /\ list[ch] # <<>>
    BY <1>11 DEF Unsubscribe, child, ends
  <2>2. ~disposed
    BY <2>1 DEF EndInv
  <2> QED BY <2>1, <2>2, EndQuiet
<1>12. CASE Kill
  <2>1. /\ signalled' /\ ~disposed
        /\ UNCHANGED <<process, failed, list, walk, disposed, exited, result, waiter>>
    BY <1>12 DEF Kill, calls, ends
  <2> QED BY <2>1 DEF EndInv, NoWaiterLeft, DisposeKills
<1>13. CASE Wait
  <2>1. /\ waiter' = IF result # NoResult THEN "resolved" ELSE "pending"
        /\ UNCHANGED <<process, signalled, failed, list, walk, disposed, exited, result>>
    BY <1>13 DEF Wait, child, calls
  <2>2. NoWaiterLeft'
    BY <2>1 DEF EndInv, NoWaiterLeft
  <2> QED BY <2>1, <2>2 DEF EndInv, DisposeKills
<1>14. CASE Dispose
  <2>1. /\ signalled' = (signalled \/ ~exited) /\ list' = [ch \in Channels |-> <<>>]
        /\ UNCHANGED <<process, failed, walk, exited, result, waiter>>
    BY <1>14 DEF Dispose
  <2>2. DisposeKills'
    BY <2>1 DEF EndInv, DisposeKills
  <2>3. \A ch \in Channels : list'[ch] = <<>>
    BY <2>1
  <2> QED BY <2>1, <2>2, <2>3 DEF EndInv, NoWaiterLeft
<1>15. CASE UNCHANGED vars
  BY <1>15, EndQuiet DEF vars, child, calls, ends
<1> QED BY <1>1, <1>2, <1>3, <1>4, <1>5, <1>6, <1>7, <1>8, <1>9, <1>10, <1>11, <1>12, <1>13,
           <1>14, <1>15 DEF Next

THEOREM EndInvariant == Spec => [](TypeInv /\ EndInv)
<1>1. Init => TypeInv /\ EndInv
  BY TypeInit, EndInit
<1>2. TypeInv /\ EndInv /\ [Next]_vars => (TypeInv /\ EndInv)'
  BY TypeStep, EndStep
<1> QED BY <1>1, <1>2, PTL DEF Spec

\* Who still waits when the stream is disposed of waits for a process that was
\* sent a signal: dispose() itself answers nobody.
DisposedWaitForKilled ==
    disposed /\ waiter = "pending" /\ walk.on # "exit" => ~exited /\ signalled

\* The end of a process, in whatever order its exit and its error come, answers
\* everybody who waits for it (shell-stream-impl.ts 73-118, 254-266).  Disposing of
\* the stream (272-287) does not; it signals the process they wait for.
THEOREM WaitersAreAnswered == Spec => [](NoWaiterLeft /\ DisposedWaitForKilled)
<1>1. TypeInv /\ EndInv => NoWaiterLeft /\ DisposedWaitForKilled
  BY DEF EndInv, NoWaiterLeft, DisposedWaitForKilled
<1> QED BY <1>1, EndInvariant, PTL

\* dispose() leaves no process running that no error has been reported of.
THEOREM DisposeAlwaysKills == Spec => []DisposeKills
<1>1. TypeInv /\ EndInv => DisposeKills
  BY DEF EndInv
<1> QED BY <1>1, EndInvariant, PTL

\* Who has the final result keeps it, unless it was the result of an error.
THEOREM ResultAlwaysStands == Spec => ResultStands
<1> DEFINE Stands == result' # result => result = NoResult \/ (failed /\ result.code = 1)
<1>1. TypeInv /\ EndInv /\ [Next]_vars => Stands
  <2> SUFFICES ASSUME EndInv, [Next]_vars, result' # result
               PROVE  result = NoResult \/ (failed /\ result.code = 1)
    OBVIOUS
  <2>1. OnError \/ \E code \in Codes : OnExit(code)
    <3>1. ~(Die \/ OnLateError \/ Kill \/ Wait \/ Dispose)
      BY DEF Die, OnLateError, Kill, Wait, Dispose, ends
    <3>2. ~(CallNext \/ CallsDone \/ ReplayNext \/ ReplayDone)
      BY DEF CallNext, CallsDone, ReplayNext, ReplayDone, ends
    <3>3. ~(\E ch \in Data : Write(ch) \/ OnData(ch))
      BY DEF Write, OnData, ends
    <3>4. ~(\E ch \in Channels, cb \in Callbacks : Subscribe(ch, cb) \/ Unsubscribe(ch, cb))
      BY DEF Subscribe, Unsubscribe, ends
    <3>5. ~UNCHANGED vars
      BY DEF vars, ends
    <3> QED BY <3>1, <3>2, <3>3, <3>4, <3>5, Zenon DEF Next
  <2>2. CASE OnError
    BY <2>2 DEF OnError, EndInv
  <2>3. CASE \E code \in Codes : OnExit(code)
    BY <2>3 DEF OnExit, EndInv
  <2> QED BY <2>1, <2>2, <2>3
<1>2. Stands => [Stands]_vars
  OBVIOUS
<1> QED BY <1>1, EndInvariant, PTL DEF Spec, ResultStands

\* After dispose() only a subscription that still replays calls a callback.
THEOREM DisposedIsSilent == Spec => SilentAfterDispose
<1> DEFINE Silent == disposed /\ replay = NoReplay => UNCHANGED got
<1>1. TypeInv /\ EndInv /\ [Next]_vars => Silent
  <2> SUFFICES ASSUME TypeInv, EndInv, [Next]_vars, disposed, replay = NoReplay
               PROVE  UNCHANGED got
    OBVIOUS
  <2>1. \A ch \in Channels : list[ch] = <<>>
    BY DEF EndInv
  <2>2. ~CallNext
    <3> SUFFICES ASSUME CallNext PROVE FALSE
      OBVIOUS
    <3>1. walk.on \in Channels /\ walk.at \in Nat \ {0}
      BY DEF TypeInv, TypeOK, WalkOK, CallNext
    <3>2. Len(list[walk.on]) = 0
      BY <2>1, <3>1
    <3> QED BY <3>1, <3>2 DEF CallNext
  <2>3. ~(\E ch \in Channels, cb \in Callbacks : Subscribe(ch, cb) \/ Unsubscribe(ch, cb))
    BY <2>1 DEF Subscribe, Unsubscribe
  <2>4. ~ReplayNext /\ ~Dispose
    BY DEF ReplayNext, Dispose
  <2> QED BY <2>2, <2>3, <2>4 DEF Next, vars, child, calls, ends, Die, OnLateError, OnError, OnExit,
       Finish, Write, OnData, CallsDone, ReplayDone, Kill, Wait
<1> QED BY <1>1, EndInvariant, PTL DEF Spec, SilentAfterDispose

------------------------------------------------------------------------------
(* Sequences of chunks *)

\* The chunks are in their order; one may come again right away
InOrder(s) ==
    \A i, j \in DOMAIN s : i < j /\ s[i] # Message /\ s[j] # Message => s[i] <= s[j]

\* No chunk is later than the n-th
UpTo(s, n) == \A i \in DOMAIN s : s[i] \in 0 .. n

LEMMA OnceNext ==
    ASSUME NEW s \in Seq(Int), NEW n \in Nat, HasOnce(s, n), UpTo(s, n)
    PROVE  HasOnce(Append(s, n + 1), n + 1)
<1> DEFINE t == Append(s, n + 1)
<1>1. /\ Len(t) = Len(s) + 1 /\ DOMAIN t = 1 .. Len(s) + 1 /\ DOMAIN s = 1 .. Len(s)
      /\ \A i \in 1 .. Len(s) : t[i] = s[i]
      /\ t[Len(s) + 1] = n + 1 /\ Len(s) \in Nat
  OBVIOUS
<1> HIDE DEF t
<1>2. ASSUME NEW k \in 1 .. n + 1 PROVE \E i \in DOMAIN t : t[i] = k
  <2>1. CASE k = n + 1
    BY <1>1, <2>1
  <2>2. CASE k # n + 1
    <3>1. k \in 1 .. n
      BY <2>2
    <3>2. PICK i \in DOMAIN s : s[i] = k
      BY <3>1 DEF HasOnce
    <3> QED BY <1>1, <3>2
  <2> QED BY <2>1, <2>2
<1>3. ASSUME NEW i \in DOMAIN t, NEW j \in DOMAIN t, i < j, t[i] # Message, t[j] # Message
      PROVE  t[i] < t[j]
  <2>1. i \in DOMAIN s /\ t[i] = s[i]
    BY <1>1, <1>3
  <2>2. CASE j = Len(s) + 1
    BY <1>1, <2>1, <2>2 DEF UpTo
  <2>3. CASE j # Len(s) + 1
    <3>1. j \in DOMAIN s /\ t[j] = s[j]
      BY <1>1, <2>3
    <3> QED BY <1>3, <2>1, <3>1 DEF HasOnce
  <2> QED BY <2>2, <2>3
<1> QED BY <1>2, <1>3 DEF HasOnce, t

LEMMA OnceMessage ==
    ASSUME NEW s \in Seq(Int), NEW n \in Nat, HasOnce(s, n)
    PROVE  HasOnce(Append(s, Message), n)
<1> DEFINE t == Append(s, Message)
<1>1. /\ Len(t) = Len(s) + 1 /\ DOMAIN t = 1 .. Len(s) + 1 /\ DOMAIN s = 1 .. Len(s)
      /\ \A i \in 1 .. Len(s) : t[i] = s[i]
      /\ t[Len(s) + 1] = Message /\ Len(s) \in Nat
  BY DEF Message
<1> HIDE DEF t
<1>2. ASSUME NEW k \in 1 .. n PROVE \E i \in DOMAIN t : t[i] = k
  BY <1>1 DEF HasOnce
<1>3. ASSUME NEW i \in DOMAIN t, NEW j \in DOMAIN t, i < j, t[i] # Message, t[j] # Message
      PROVE  t[i] < t[j]
  <2>1. i \in DOMAIN s /\ j \in DOMAIN s /\ t[i] = s[i] /\ t[j] = s[j]
    BY <1>1, <1>3
  <2> QED BY <1>3, <2>1 DEF HasOnce
<1> QED BY <1>2, <1>3 DEF HasOnce, t

LEMMA UpToAppend ==
    ASSUME NEW s \in Seq(Int), NEW n \in Nat, NEW m \in Nat, UpTo(s, n), n <= m, NEW x \in 0 .. m
    PROVE  UpTo(Append(s, x), m)
BY DEF UpTo

LEMMA InOrderAppend ==
    ASSUME NEW s \in Seq(Int), InOrder(s), NEW x \in Int,
           \A i \in DOMAIN s : s[i] # Message /\ x # Message => s[i] <= x
    PROVE  InOrder(Append(s, x))
<1> DEFINE t == Append(s, x)
<1>1. /\ DOMAIN t = 1 .. Len(s) + 1 /\ DOMAIN s = 1 .. Len(s)
      /\ \A i \in 1 .. Len(s) : t[i] = s[i]
      /\ t[Len(s) + 1] = x /\ Len(s) \in Nat
  OBVIOUS
<1> HIDE DEF t
<1>2. ASSUME NEW i \in DOMAIN t, NEW j \in DOMAIN t, i < j, t[i] # Message, t[j] # Message
      PROVE  t[i] <= t[j]
  <2>1. i \in DOMAIN s /\ t[i] = s[i]
    BY <1>1, <1>2
  <2>2. CASE j = Len(s) + 1
    BY <1>1, <1>2, <2>1, <2>2
  <2>3. CASE j # Len(s) + 1
    BY <1>1, <1>2, <2>1, <2>3 DEF InOrder
  <2> QED BY <2>2, <2>3
<1> QED BY <1>2 DEF InOrder, t

------------------------------------------------------------------------------
(* No callback is in a list twice *)

NoRepeats ==
    \A ch \in Channels : \A p, q \in DOMAIN list[ch] : list[ch][p] = list[ch][q] => p = q

LEMMA NoRepeatsInit == Init => NoRepeats
BY DEF Init, NoRepeats

LEMMA NoRepeatsStep == TypeInv /\ NoRepeats /\ [Next]_vars => NoRepeats'
<1> SUFFICES ASSUME TypeInv, NoRepeats, [Next]_vars PROVE NoRepeats'
  OBVIOUS
<1>0. list \in [Channels -> Seq(Callbacks)]
  BY DEF TypeInv, TypeOK
<1>1. ASSUME NEW ch \in Channels, NEW cb \in Callbacks, Subscribe(ch, cb) PROVE NoRepeats'
  <2>1. list' = [list EXCEPT ![ch] = Append(list[ch], cb)] /\ ~Contains(list[ch], cb)
    BY <1>1 DEF Subscribe
  <2>2. list[ch] \in Seq(Callbacks) /\ \A p \in DOMAIN list[ch] : list[ch][p] # cb
    BY <1>0, <2>1 DEF Contains
  <2> DEFINE t == Append(list[ch], cb)
  <2>3. \A p, q \in DOMAIN t : t[p] = t[q] => p = q
    <3>1. /\ DOMAIN t = 1 .. Len(list[ch]) + 1 /\ DOMAIN list[ch] = 1 .. Len(list[ch])
          /\ \A i \in 1 .. Len(list[ch]) : t[i] = list[ch][i]
          /\ t[Len(list[ch]) + 1] = cb /\ Len(list[ch]) \in Nat
      BY <2>2
    <3> HIDE DEF t
    <3> QED BY <2>2, <3>1 DEF NoRepeats
  <2> HIDE DEF t
  <2>4. list' = [list EXCEPT ![ch] = t]
    BY <2>1 DEF t
  <2> QED BY <1>0, <2>3, <2>4 DEF NoRepeats
<1>2. ASSUME NEW ch \in Channels, NEW cb \in Callbacks, Unsubscribe(ch, cb) PROVE NoRepeats'
  <2>1. PICK i \in DOMAIN list[ch] : list' = [list EXCEPT ![ch] = RemoveAt(list[ch], i)]
    BY <1>2 DEF Unsubscribe
  <2> DEFINE t == RemoveAt(list[ch], i)
  <2>2. list[ch] \in Seq(Callbacks) /\ i \in 1 .. Len(list[ch]) /\ Len(list[ch]) \in Nat
    BY <1>0
  <2>3. /\ t \in Seq(Callbacks) /\ Len(t) = Len(list[ch]) - 1
        /\ \A p \in 1 .. Len(list[ch]) - 1 : t[p] = list[ch][IF p < i THEN p ELSE p + 1]
    BY <2>1, <2>2, RemoveAtFacts
  <2> HIDE DEF t
  <2>4. ASSUME NEW p \in DOMAIN t, NEW q \in DOMAIN t, t[p] = t[q] PROVE p = q
    <3>1. p \in 1 .. Len(list[ch]) - 1 /\ q \in 1 .. Len(list[ch]) - 1
      BY <2>3
    <3> DEFINE P == IF p < i THEN p ELSE p + 1
               Q == IF q < i THEN q ELSE q + 1
    <3>2. P \in DOMAIN list[ch] /\ Q \in DOMAIN list[ch]
      BY <2>2, <3>1
    <3>3. list[ch][P] = list[ch][Q]
      BY <2>3, <2>4, <3>1
    <3>4. P = Q
      BY <3>2, <3>3 DEF NoRepeats
    <3> QED BY <2>2, <3>1, <3>4
  <2>5. list' = [list EXCEPT ![ch] = t]
    BY <2>1 DEF t
  <2> QED BY <1>0, <2>4, <2>5 DEF NoRepeats
<1>3. CASE Dispose
  BY <1>3 DEF Dispose, NoRepeats
<1>4. CASE UNCHANGED list
  BY <1>4 DEF NoRepeats
<1>5. CASE Die \/ OnLateError \/ OnError \/ Kill \/ Wait \/ UNCHANGED vars
  BY <1>4, <1>5 DEF Die, OnLateError, OnError, Finish, Kill, Wait, vars
<1>6. ASSUME NEW ch \in Data, Write(ch) \/ OnData(ch) PROVE NoRepeats'
  BY <1>4, <1>6 DEF Write, OnData
<1>7. ASSUME NEW code \in Codes, OnExit(code) PROVE NoRepeats'
  BY <1>4, <1>7 DEF OnExit, Finish
<1>8. CASE CallNext \/ CallsDone \/ ReplayNext \/ ReplayDone
  BY <1>4, <1>8 DEF CallNext, CallsDone, ReplayNext, ReplayDone
<1> QED BY <1>1, <1>2, <1>3, <1>5, <1>6, <1>7, <1>8 DEF Next

\* What unsubscribing leaves: the other callbacks, each at a place of the list before
LEMMA Unsubscribed ==
    ASSUME TypeInv, NoRepeats, NEW ch \in Channels, NEW cb \in Callbacks, Unsubscribe(ch, cb),
           NEW p \in DOMAIN list'[ch]
    PROVE  /\ list'[ch][p] \in Callbacks /\ list'[ch][p] # cb
           /\ \E q \in DOMAIN list[ch] : list'[ch][p] = list[ch][q]
<1>0. list \in [Channels -> Seq(Callbacks)]
  BY DEF TypeInv, TypeOK
<1>1. PICK i \in DOMAIN list[ch] :
          list[ch][i] = cb /\ list' = [list EXCEPT ![ch] = RemoveAt(list[ch], i)]
  BY DEF Unsubscribe
<1>2. list[ch] \in Seq(Callbacks) /\ i \in 1 .. Len(list[ch]) /\ Len(list[ch]) \in Nat
  BY <1>0
<1>3. list'[ch] = RemoveAt(list[ch], i)
  BY <1>0, <1>1
<1>4. /\ list'[ch] \in Seq(Callbacks) /\ Len(list'[ch]) = Len(list[ch]) - 1
      /\ \A x \in 1 .. Len(list[ch]) - 1 : list'[ch][x] = list[ch][IF x < i THEN x ELSE x + 1]
  BY <1>1, <1>2, <1>3, RemoveAtFacts
<1> DEFINE q == IF p < i THEN p ELSE p + 1
<1>5. p \in 1 .. Len(list[ch]) - 1
  BY <1>4
<1>6. q \in DOMAIN list[ch] /\ q # i
  BY <1>2, <1>5
<1>7. list'[ch][p] = list[ch][q]
  BY <1>4, <1>5
<1>8. list[ch][q] # cb
  BY <1>1, <1>6 DEF NoRepeats
<1> QED BY <1>2, <1>6, <1>7, <1>8

------------------------------------------------------------------------------
(* Exit callbacks *)

\* The walk along the list of the channel has still to call the p-th callback
Due(ch, p) == walk.on = ch /\ walk.at <= p

\* The p-th callback was called with no more ends than are reported, with one
\* less while its call is due; there are no more than an exit and an error
ExitInv ==
    /\ Len(buffer["exit"]) <= (IF process = "reported" THEN 1 ELSE 0) + (IF failed THEN 1 ELSE 0)
    /\ replay.on = "exit" => replay.at > Len(buffer["exit"])
    /\ "exit" \notin meddled => \A p \in DOMAIN list["exit"] :
          /\ Len(got["exit"][list["exit"][p]]) <= Len(buffer["exit"])
          /\ Due("exit", p) => Len(got["exit"][list["exit"][p]]) < Len(buffer["exit"])

LEMMA ExitInit == Init => ExitInv
BY DEF Init, ExitInv, Due, NoReplay, Channels

\* What CallNext does to the list it walks
LEMMA CallNextFacts ==
    ASSUME TypeInv, NoRepeats, CallNext
    PROVE  /\ walk.on \in Channels /\ walk.at \in DOMAIN list[walk.on] /\ walk.at \in Nat
           /\ Last(buffer[walk.on]) \in Int
           /\ walk'.on = walk.on /\ walk'.at = walk.at + 1
           /\ \A p \in DOMAIN list[walk.on] :
                 got'[walk.on][list[walk.on][p]] =
                    IF p = walk.at
                    THEN Append(got[walk.on][list[walk.on][p]], Last(buffer[walk.on]))
                    ELSE got[walk.on][list[walk.on][p]]
           /\ \A x \in Callbacks : \/ got'[walk.on][x] = got[walk.on][x]
                                   \/ got'[walk.on][x] = Append(got[walk.on][x], Last(buffer[walk.on]))
           /\ \A c \in Channels : c # walk.on => \A x \in Callbacks : got'[c][x] = got[c][x]
<1>0. TypeOK /\ WalkOK
  BY DEF TypeInv
<1>1. walk.on \in Channels /\ walk.at \in Nat \ {0} /\ walk.at <= Len(list[walk.on])
  BY <1>0 DEF CallNext, WalkOK, TypeOK
<1>2. list[walk.on] \in Seq(Callbacks) /\ walk.at \in DOMAIN list[walk.on]
  BY <1>0, <1>1 DEF TypeOK
<1> DEFINE cb == list[walk.on][walk.at]
           seen == Append(got[walk.on][cb], Last(buffer[walk.on]))
<1>3. cb \in Callbacks
  BY <1>2
<1>4. got' = [got EXCEPT ![walk.on][cb] = seen]
  BY DEF CallNext
<1>5. got \in [Channels -> [Callbacks -> Seq(Int)]]
  BY <1>0 DEF TypeOK
<1> HIDE DEF seen, cb
<1>6. \A c \in Channels, x \in Callbacks : got'[c][x] = IF c = walk.on /\ x = cb THEN seen ELSE got[c][x]
  BY <1>1, <1>3, <1>4, <1>5, GotUpdate
<1>7. walk'.on = walk.on /\ walk'.at = walk.at + 1
  BY <1>0 DEF CallNext, TypeOK
<1>8. ASSUME NEW p \in DOMAIN list[walk.on]
      PROVE  list[walk.on][p] \in Callbacks /\ (list[walk.on][p] = cb <=> p = walk.at)
  BY <1>1, <1>2 DEF NoRepeats, cb
<1>9. ASSUME NEW p \in DOMAIN list[walk.on]
      PROVE  got'[walk.on][list[walk.on][p]] =
                    IF p = walk.at
                    THEN Append(got[walk.on][list[walk.on][p]], Last(buffer[walk.on]))
                    ELSE got[walk.on][list[walk.on][p]]
  BY <1>1, <1>6, <1>8 DEF seen, cb
<1>10. \A x \in Callbacks : \/ got'[walk.on][x] = got[walk.on][x]
                            \/ got'[walk.on][x] = Append(got[walk.on][x], Last(buffer[walk.on]))
  BY <1>1, <1>6 DEF seen
<1>11. Last(buffer[walk.on]) \in Int
  <2>1. buffer[walk.on] \in Seq(Int) /\ buffer[walk.on] # <<>>
    BY <1>0, <1>1 DEF CallNext, WalkOK, TypeOK, Idle, Channels, Data
  <2> QED BY <2>1 DEF Last
<1> QED BY <1>1, <1>2, <1>6, <1>7, <1>9, <1>10, <1>11

\* A step that leaves the exit callbacks, what they got and the ends alone
LEMMA ExitQuiet ==
    ASSUME TypeInv, ExitInv, buffer'["exit"] = buffer["exit"], list'["exit"] = list["exit"],
           \A p \in DOMAIN list["exit"] :
              got'["exit"][list["exit"][p]] = got["exit"][list["exit"][p]],
           process' = process \/ process # "reported", failed => failed',
           replay' = replay \/ replay'.on # "exit",
           walk' = walk \/ walk'.on # "exit",
           "exit" \in meddled => "exit" \in meddled'
    PROVE  ExitInv'
<1>1. Len(buffer'["exit"]) <= (IF process' = "reported" THEN 1 ELSE 0) + (IF failed' THEN 1 ELSE 0)
  BY DEF ExitInv
<1>2. replay'.on = "exit" => replay'.at > Len(buffer'["exit"])
  BY DEF ExitInv
<1>3. ASSUME "exit" \notin meddled', NEW p \in DOMAIN list'["exit"]
      PROVE  /\ Len(got'["exit"][list'["exit"][p]]) <= Len(buffer'["exit"])
             /\ Due("exit", p)' => Len(got'["exit"][list'["exit"][p]]) < Len(buffer'["exit"])
  <2>1. Due("exit", p)' => Due("exit", p)
    BY DEF Due
  <2>2. got'["exit"][list'["exit"][p]] = got["exit"][list["exit"][p]]
    BY <1>3
  <2> QED BY <1>3, <2>1, <2>2 DEF ExitInv
<1> QED BY <1>1, <1>2, <1>3 DEF ExitInv

LEMMA ExitFinish ==
    ASSUME TypeInv, ExitInv, NEW code \in Codes \union {1}, NEW err, Finish(code, err), Quiet,
           \/ process = "gone" /\ process' = "reported" /\ UNCHANGED failed
           \/ ~failed /\ failed' /\ process' \in {process, "failed"}
              /\ (process' = "failed" => process # "reported")
    PROVE  ExitInv'
<1> DEFINE n == Len(buffer["exit"])
<1>1. buffer["exit"] \in Seq(Int) /\ list["exit"] \in Seq(Callbacks)
      /\ got["exit"] \in [Callbacks -> Seq(Int)] /\ buffer \in [Channels -> Seq(Int)]
  BY DEF TypeInv, TypeOK, Channels
<1>2. code \in Int
  BY StreamAssumption
<1>3. buffer'["exit"] = Append(buffer["exit"], code)
  BY <1>1 DEF Finish, Channels, Data
<1>4. n \in Nat /\ Len(buffer'["exit"]) = n + 1
  BY <1>1, <1>2, <1>3
<1>5. UNCHANGED <<list, got, meddled, replay>> /\ walk' = [on |-> "exit", at |-> 1]
  BY DEF Finish
<1>6. n + 1 <= (IF process' = "reported" THEN 1 ELSE 0) + (IF failed' THEN 1 ELSE 0)
  BY <1>4 DEF ExitInv
<1>7. replay'.on # "exit"
  BY <1>5 DEF Quiet, NoReplay
<1>8. ASSUME "exit" \notin meddled', NEW p \in DOMAIN list'["exit"]
      PROVE  Len(got'["exit"][list'["exit"][p]]) < Len(buffer'["exit"])
             /\ Len(got'["exit"][list'["exit"][p]]) <= Len(buffer'["exit"])
  <2>1. p \in DOMAIN list["exit"] /\ list["exit"][p] \in Callbacks
    BY <1>1, <1>5
  <2>2. Len(got["exit"][list["exit"][p]]) <= n
    BY <1>5, <1>8, <2>1 DEF ExitInv
  <2>3. Len(got["exit"][list["exit"][p]]) \in Nat
    BY <1>1, <2>1
  <2> QED BY <1>4, <1>5, <2>2, <2>3
<1> QED BY <1>4, <1>6, <1>7, <1>8 DEF ExitInv

LEMMA ExitStep == TypeInv /\ NoRepeats /\ ExitInv /\ [Next]_vars => ExitInv'
<1> SUFFICES ASSUME TypeInv, NoRepeats, ExitInv, [Next]_vars PROVE ExitInv'
  OBVIOUS
<1>0. /\ buffer["exit"] \in Seq(Int) /\ list["exit"] \in Seq(Callbacks)
      /\ got \in [Channels -> [Callbacks -> Seq(Int)]] /\ "exit" \in Channels
      /\ list \in [Channels -> Seq(Callbacks)] /\ Data \subseteq Channels /\ "exit" \notin Data
      /\ buffer \in [Channels -> Seq(Int)]
  BY DEF TypeInv, TypeOK, Channels, Data
<1>1. CASE Die
  BY <1>1, ExitQuiet DEF Die, calls, ends
<1>2. CASE OnLateError
  BY <1>2, ExitQuiet DEF OnLateError, calls, ends
<1>3. ASSUME NEW ch \in Data, Write(ch) PROVE ExitInv'
  BY <1>3, ExitQuiet DEF Write, calls, ends
<1>4. ASSUME NEW ch \in Data, OnData(ch) PROVE ExitInv'
  <2>1. buffer'["exit"] = buffer["exit"] /\ walk'.on # "exit"
    BY <1>0, <1>4 DEF OnData
  <2> QED BY <1>4, <2>1, ExitQuiet DEF OnData, ends
<1>5. ASSUME NEW code \in Codes, OnExit(code) PROVE ExitInv'
  BY <1>5, ExitFinish DEF OnExit
<1>6. CASE OnError
  BY <1>6, ExitFinish DEF OnError
<1>7. CASE CallNext
  <2>1. UNCHANGED <<process, failed, buffer, list, replay, meddled>> /\ replay = NoReplay
    BY <1>7 DEF CallNext, child, ends
  <2>2. CASE walk.on = "exit"
    <3>1. replay'.on # "exit"
      BY <2>1 DEF NoReplay
    <3>2. ASSUME "exit" \notin meddled', NEW p \in DOMAIN list'["exit"]
          PROVE  /\ Len(got'["exit"][list'["exit"][p]]) <= Len(buffer'["exit"])
                 /\ Due("exit", p)' => Len(got'["exit"][list'["exit"][p]]) < Len(buffer'["exit"])
      <4> DEFINE cb == list["exit"][p]
      <4>1. cb \in Callbacks /\ got["exit"][cb] \in Seq(Int) /\ p \in Nat
        BY <1>0, <2>1, <3>2
      <4>2. /\ Len(got["exit"][cb]) <= Len(buffer["exit"])
            /\ Due("exit", p) => Len(got["exit"][cb]) < Len(buffer["exit"])
        BY <2>1, <3>2 DEF ExitInv
      <4>3. walk.at \in Nat /\ walk'.on = "exit" /\ walk'.at = walk.at + 1
        BY <1>7, <2>2, CallNextFacts
      <4>6. got'["exit"][cb] = IF p = walk.at THEN Append(got["exit"][cb], Last(buffer["exit"]))
                               ELSE got["exit"][cb]
        BY <1>7, <2>1, <2>2, <3>2, CallNextFacts
      <4>4. CASE p = walk.at
        <5>0. walk.at <= p /\ ~(walk'.at <= p)
          BY <4>3, <4>4
        <5>1. Due("exit", p) /\ ~Due("exit", p)'
          BY <2>2, <4>3, <5>0 DEF Due
        <5>2. Len(got'["exit"][cb]) = Len(got["exit"][cb]) + 1
          <6>1. Last(buffer["exit"]) \in Int
            BY <1>7, <2>2, CallNextFacts
          <6>2. got'["exit"][cb] = Append(got["exit"][cb], Last(buffer["exit"]))
            BY <4>4, <4>6, Zenon
          <6> HIDE DEF cb
          <6> QED BY <4>1, <6>1, <6>2, AppendFacts
        <5> QED BY <1>0, <2>1, <4>1, <4>2, <5>1, <5>2
      <4>5. CASE p # walk.at
        <5>1. Due("exit", p)' => Due("exit", p)
          BY <2>2, <4>1, <4>3 DEF Due
        <5> QED BY <2>1, <4>2, <4>5, <4>6, <5>1
      <4> QED BY <4>4, <4>5
    <3> QED BY <2>1, <3>1, <3>2 DEF ExitInv
  <2>3. CASE walk.on # "exit"
    <3>1. walk'.on # "exit" /\ \A x \in Callbacks : got'["exit"][x] = got["exit"][x]
      BY <1>0, <1>7, <2>3, CallNextFacts
    <3>2. \A p \in DOMAIN list["exit"] : list["exit"][p] \in Callbacks
      BY <1>0
    <3> QED BY <2>1, <3>1, <3>2, ExitQuiet
  <2> QED BY <2>2, <2>3
<1>8. CASE CallsDone
  <2>1. walk'.on # "exit"
    BY <1>8 DEF CallsDone, Idle
  <2> QED BY <1>8, <2>1, ExitQuiet DEF CallsDone, child
<1>9. CASE ReplayNext
  <2>1. /\ replay.on \in Channels /\ replay.cb \in Callbacks
        /\ replay.at <= Len(buffer[replay.on]) /\ replay.at \in Nat
    BY <1>9 DEF ReplayNext, TypeInv, TypeOK, ReplayOK
  <2>2. replay.on # "exit"
    BY <1>0, <2>1 DEF ExitInv
  <2>3. replay'.on # "exit"
    BY <1>9, <2>2 DEF ReplayNext, TypeInv, TypeOK
  <2>4. got' = [got EXCEPT ![replay.on][replay.cb] =
                   Append(got[replay.on][replay.cb], buffer[replay.on][replay.at])]
    BY <1>9 DEF ReplayNext
  <2>5. got'["exit"] = got["exit"]
    BY <1>0, <2>1, <2>2, <2>4
  <2> QED BY <1>9, <2>3, <2>5, ExitQuiet DEF ReplayNext, child, ends
<1>10. CASE ReplayDone
  <2>1. replay'.on # "exit"
    BY <1>10 DEF ReplayDone, NoReplay
  <2> QED BY <1>10, <2>1, ExitQuiet DEF ReplayDone, child, ends
<1>11. ASSUME NEW ch \in Channels, NEW cb \in Callbacks, Subscribe(ch, cb) PROVE ExitInv'
  <2>1. /\ UNCHANGED <<process, failed, buffer, walk>> /\ replay = NoReplay
        /\ list' = [list EXCEPT ![ch] = Append(list[ch], cb)]
        /\ meddled' = IF walk.on = ch THEN meddled \union {ch} ELSE meddled
    BY <1>11 DEF Subscribe, Meddle, child, ends
  <2>2. \E seen : got' = [got EXCEPT ![ch][cb] = seen]
    BY <1>11 DEF Subscribe
  <2>3. CASE ch # "exit"
    <3>1. got'["exit"] = got["exit"] /\ list'["exit"] = list["exit"]
      BY <1>0, <2>1, <2>2, <2>3
    <3>2. replay' = replay \/ replay'.on # "exit"
      BY <1>11, <2>3 DEF Subscribe
    <3> QED BY <2>1, <3>1, <3>2, ExitQuiet
  <2>4. CASE ch = "exit"
    <3>1. /\ replay'.on = "exit" => replay'.at > Len(buffer'["exit"])
          /\ \E seen \in Seq(Int) : /\ got' = [got EXCEPT !["exit"][cb] = seen]
                                    /\ Len(seen) <= Len(buffer["exit"])
      <4>1. CASE buffer["exit"] = <<>>
        <5>1. got' = [got EXCEPT !["exit"][cb] = <<>>] /\ replay'.on # "exit"
          BY <1>11, <2>1, <2>4, <4>1 DEF Subscribe, NoReplay
        <5>2. <<>> \in Seq(Int) /\ Len(<<>>) <= Len(buffer["exit"])
          BY <1>0
        <5> QED BY <5>1, <5>2
      <4>2. CASE buffer["exit"] # <<>>
        <5>1. Missed("exit") = Len(buffer["exit"]) /\ Len(buffer["exit"]) \in Nat \ {0}
          BY <1>0, <4>2 DEF Missed
        <5>2. replay' = [on |-> "exit", cb |-> cb, at |-> Len(buffer["exit"]) + 1]
          BY <1>11, <2>4, <4>2, <5>1 DEF Subscribe
        <5>3. got' = [got EXCEPT !["exit"][cb] = <<buffer["exit"][Len(buffer["exit"])]>>]
          BY <1>11, <2>4, <4>2, <5>1 DEF Subscribe
        <5>4. buffer["exit"][Len(buffer["exit"])] \in Int
          BY <1>0, <5>1
        <5>5. <<buffer["exit"][Len(buffer["exit"])]>> \in Seq(Int)
              /\ Len(<<buffer["exit"][Len(buffer["exit"])]>>) = 1
          BY <5>4
        <5>6. replay'.at > Len(buffer'["exit"])
          BY <2>1, <5>1, <5>2
        <5>7. Len(<<buffer["exit"][Len(buffer["exit"])]>>) <= Len(buffer["exit"])
          BY <5>1, <5>5
        <5> QED BY <5>3, <5>5, <5>6, <5>7, Zenon
      <4> QED BY <4>1, <4>2
    <3>2. PICK seen \in Seq(Int) : /\ got' = [got EXCEPT !["exit"][cb] = seen]
                                   /\ Len(seen) <= Len(buffer["exit"])
      BY <3>1
    <3>3. \A x \in Callbacks : got'["exit"][x] = IF x = cb THEN seen ELSE got["exit"][x]
      BY <1>0, <3>2, GotUpdate
    <3>4. ASSUME "exit" \notin meddled', NEW p \in DOMAIN list'["exit"]
          PROVE  /\ Len(got'["exit"][list'["exit"][p]]) <= Len(buffer'["exit"])
                 /\ Due("exit", p)' => Len(got'["exit"][list'["exit"][p]]) < Len(buffer'["exit"])
      <4>1. walk.on # "exit" /\ "exit" \notin meddled /\ ~Due("exit", p)'
        BY <2>1, <2>4, <3>4 DEF Due
      <4>2. list'["exit"] = Append(list["exit"], cb)
        BY <1>0, <2>1, <2>4
      <4>3. CASE p = Len(list["exit"]) + 1
        <5>1. list'["exit"][p] = cb
          BY <1>0, <4>2, <4>3
        <5> QED BY <2>1, <3>2, <3>3, <4>1, <5>1
      <4>4. CASE p # Len(list["exit"]) + 1
        <5>1. p \in DOMAIN list["exit"] /\ list'["exit"][p] = list["exit"][p]
              /\ list["exit"][p] \in Callbacks
          BY <1>0, <3>4, <4>2, <4>4
        <5>2. Len(got["exit"][list["exit"][p]]) <= Len(buffer["exit"])
          BY <4>1, <5>1 DEF ExitInv
        <5> QED BY <2>1, <3>2, <3>3, <4>1, <5>1, <5>2
      <4> QED BY <4>3, <4>4
    <3> QED BY <2>1, <3>1, <3>4 DEF ExitInv
  <2> QED BY <2>3, <2>4
<1>12. ASSUME NEW ch \in Channels, NEW cb \in Callbacks, Unsubscribe(ch, cb) PROVE ExitInv'
  <2>1. /\ UNCHANGED <<process, failed, buffer, walk, replay>>
        /\ got' = [got EXCEPT ![ch][cb] = <<>>]
        /\ \E i \in DOMAIN list[ch] : list' = [list EXCEPT ![ch] = RemoveAt(list[ch], i)]
        /\ meddled' = IF walk.on = ch THEN meddled \union {ch} ELSE meddled
    BY <1>12 DEF Unsubscribe, Meddle, child, ends
  <2>2. CASE ch # "exit"
    <3>1. got'["exit"] = got["exit"] /\ list'["exit"] = list["exit"]
      BY <1>0, <2>1, <2>2
    <3> QED BY <2>1, <3>1, ExitQuiet
  <2>3. CASE ch = "exit"
    <3>1. ASSUME "exit" \notin meddled', NEW p \in DOMAIN list'["exit"]
          PROVE  /\ Len(got'["exit"][list'["exit"][p]]) <= Len(buffer'["exit"])
                 /\ Due("exit", p)' => Len(got'["exit"][list'["exit"][p]]) < Len(buffer'["exit"])
      <4>1. walk.on # "exit" /\ "exit" \notin meddled /\ ~Due("exit", p)'
        BY <2>1, <2>3, <3>1 DEF Due
      <4>2. PICK q \in DOMAIN list["exit"] : list'["exit"][p] = list["exit"][q]
        BY <1>12, <2>3, <3>1, Unsubscribed
      <4>3. list'["exit"][p] \in Callbacks /\ list'["exit"][p] # cb
        BY <1>12, <2>3, <3>1, Unsubscribed
      <4>4. got'["exit"][list'["exit"][p]] = got["exit"][list'["exit"][p]]
        BY <1>0, <2>1, <2>3, <4>3, GotUpdate
      <4>5. Len(got["exit"][list["exit"][q]]) <= Len(buffer["exit"])
        BY <4>1 DEF ExitInv
      <4> QED BY <2>1, <4>1, <4>2, <4>4, <4>5
    <3> QED BY <2>1, <3>1 DEF ExitInv
  <2> QED BY <2>2, <2>3
<1>13. CASE Kill \/ Wait
  BY <1>13, ExitQuiet DEF Kill, Wait, child, calls, ends
<1>14. CASE Dispose
  <2>1. UNCHANGED <<process, failed, buffer, walk, replay, meddled>> /\ list'["exit"] = <<>>
    BY <1>0, <1>14 DEF Dispose
  <2> QED BY <2>1 DEF ExitInv
<1>15. CASE UNCHANGED vars
  BY <1>15, ExitQuiet DEF vars, child, calls, ends
<1> QED BY <1>1, <1>2, <1>3, <1>4, <1>5, <1>6, <1>7, <1>8, <1>9, <1>10, <1>11, <1>12, <1>13,
           <1>14, <1>15 DEF Next

\* An exit callback hears of one end, of two when an exit follows an error, and of
\* none again, whenever it was registered.
THEOREM ExitAtMostOnce == Spec => []ExitOnce
<1>1. Init => TypeInv /\ NoRepeats /\ ExitInv
  BY TypeInit, NoRepeatsInit, ExitInit
<1>2. TypeInv /\ NoRepeats /\ ExitInv /\ [Next]_vars => (TypeInv /\ NoRepeats /\ ExitInv)'
  BY TypeStep, NoRepeatsStep, ExitStep
<1>3. TypeInv /\ ExitInv => ExitOnce
  <2> SUFFICES ASSUME TypeInv, ExitInv, "exit" \notin meddled, NEW cb \in ToSet(list["exit"])
               PROVE  Len(got["exit"][cb]) <= IF failed THEN 2 ELSE 1
    BY DEF ExitOnce
  <2>1. PICK p \in DOMAIN list["exit"] : cb = list["exit"][p]
    BY DEF ToSet
  <2>2. list["exit"] \in Seq(Callbacks) /\ buffer["exit"] \in Seq(Int)
        /\ got["exit"] \in [Callbacks -> Seq(Int)]
    BY DEF TypeInv, TypeOK, Channels
  <2>3. Len(got["exit"][cb]) \in Nat /\ Len(buffer["exit"]) \in Nat
    BY <2>1, <2>2
  <2>4. Len(got["exit"][cb]) <= Len(buffer["exit"])
    BY <2>1 DEF ExitInv
  <2>5. Len(buffer["exit"]) <= (IF process = "reported" THEN 1 ELSE 0) + (IF failed THEN 1 ELSE 0)
    BY DEF ExitInv
  <2> QED BY <2>3, <2>4, <2>5
<1> QED BY <1>1, <1>2, <1>3, PTL DEF Spec

------------------------------------------------------------------------------
(* The order in which chunks are delivered *)

\* The buffer has what was read; a walk delivers the chunk read last; nobody got a
\* chunk before an earlier one, nor one that is later than what a replay delivers
OrderInv(ch) ==
    /\ UpTo(buffer[ch], read[ch])
    /\ HasOnce(buffer[ch], read[ch])
    /\ walk.on = ch => Last(buffer[ch]) = read[ch] /\ read[ch] >= 1
    /\ \A cb \in Callbacks : UpTo(got[ch][cb], read[ch]) /\ InOrder(got[ch][cb])
    /\ replay.on = ch => \A k \in DOMAIN got[ch][replay.cb], m \in DOMAIN buffer[ch] :
          m >= replay.at /\ got[ch][replay.cb][k] # Message /\ buffer[ch][m] # Message
             => got[ch][replay.cb][k] <= buffer[ch][m]

LEMMA ChannelType ==
    ASSUME TypeInv, NEW ch \in Data
    PROVE  /\ ch \in Channels /\ ch # "exit" /\ ch # "none" /\ read[ch] \in Nat
           /\ buffer[ch] \in Seq(Int) /\ list[ch] \in Seq(Callbacks)
           /\ got[ch] \in [Callbacks -> Seq(Int)]
           /\ \A cb \in Callbacks : got[ch][cb] \in Seq(Int)
           /\ got \in [Channels -> [Callbacks -> Seq(Int)]]
           /\ buffer \in [Channels -> Seq(Int)] /\ read \in [Data -> Nat]
           /\ list \in [Channels -> Seq(Callbacks)]
<1>1. /\ got \in [Channels -> [Callbacks -> Seq(Int)]]
      /\ buffer \in [Channels -> Seq(Int)] /\ read \in [Data -> Nat]
      /\ list \in [Channels -> Seq(Callbacks)]
  BY DEF TypeInv, TypeOK
<1>2. ch \in Channels /\ ch # "exit" /\ ch # "none"
  BY DEF Channels, Data
<1>3. got[ch] \in [Callbacks -> Seq(Int)]
  BY <1>1, <1>2
<1> QED BY <1>1, <1>2, <1>3

LEMMA EmptyChunks ==
    ASSUME NEW n \in Nat
    PROVE  UpTo(<<>>, n) /\ InOrder(<<>>) /\ <<>> \in Seq(Int)
BY DEF UpTo, InOrder

LEMMA OneChunk ==
    ASSUME NEW n \in Nat, NEW x \in 0 .. n
    PROVE  UpTo(<<x>>, n) /\ InOrder(<<x>>)
<1>1. /\ <<x>> \in Seq(Int) /\ DOMAIN <<x>> = {1} /\ <<x>>[1] = x
  OBVIOUS
<1> QED BY <1>1 DEF UpTo, InOrder

LEMMA OrderInit == ASSUME Init, NEW ch \in Data PROVE OrderInv(ch)
<1>1. /\ buffer[ch] = <<>> /\ read[ch] = 0 /\ walk.on # ch /\ replay.on # ch
      /\ \A cb \in Callbacks : got[ch][cb] = <<>>
  BY DEF Init, Channels, Data, Idle, NoReplay
<1>2. HasOnce(<<>>, 0)
  BY DEF HasOnce
<1> QED BY <1>1, <1>2, EmptyChunks DEF OrderInv

\* A step that leaves the channel alone
LEMMA OrderQuiet ==
    ASSUME NEW ch \in Data, OrderInv(ch),
           read'[ch] = read[ch], buffer'[ch] = buffer[ch],
           \A cb \in Callbacks : got'[ch][cb] = got[ch][cb],
           ReplayOK,
           walk'.on = ch => walk.on = ch,
           replay' = replay \/ replay'.on # ch
    PROVE  OrderInv(ch)'
<1>1. ASSUME replay.on = ch, replay' = replay
      PROVE  got'[ch][replay'.cb] = got[ch][replay.cb]
  <2>1. replay.cb \in Callbacks
    BY <1>1 DEF ReplayOK, NoReplay, Data
  <2> QED BY <1>1, <2>1
<1> QED BY <1>1 DEF OrderInv

LEMMA OrderData ==
    ASSUME TypeInv, NEW ch \in Data, OrderInv(ch), OnData(ch)
    PROVE  OrderInv(ch)'
<1>0. /\ read[ch] \in Nat /\ buffer[ch] \in Seq(Int) /\ ch # "none"
      /\ \A cb \in Callbacks : got[ch][cb] \in Seq(Int)
      /\ buffer \in [Channels -> Seq(Int)] /\ read \in [Data -> Nat] /\ ch \in Channels
  BY ChannelType
<1>1. /\ read' = [read EXCEPT ![ch] = read[ch] + 1]
      /\ buffer' = [buffer EXCEPT ![ch] = Append(buffer[ch], read[ch] + 1)]
      /\ UNCHANGED <<got, replay>> /\ replay = NoReplay
  BY DEF OnData, Quiet
<1> DEFINE n == read[ch]
<1>2. read'[ch] = n + 1 /\ buffer'[ch] = Append(buffer[ch], n + 1)
  BY <1>0, <1>1
<1>3. UpTo(buffer'[ch], n + 1)
  BY <1>0, <1>2, UpToAppend DEF OrderInv
<1>4. HasOnce(buffer'[ch], n + 1)
  BY <1>0, <1>2, OnceNext DEF OrderInv
<1>5. Last(buffer'[ch]) = n + 1
  <2>1. n + 1 \in Int
    BY <1>0
  <2> QED BY <1>0, <1>2, <2>1, AppendFacts
<1>6. ASSUME NEW cb \in Callbacks PROVE UpTo(got[ch][cb], n + 1) /\ InOrder(got[ch][cb])
  <2>1. UpTo(got[ch][cb], n) /\ InOrder(got[ch][cb])
    BY DEF OrderInv
  <2> QED BY <1>0, <2>1 DEF UpTo
<1>7. replay'.on # ch
  BY <1>0, <1>1 DEF NoReplay
<1>8. n + 1 >= 1
  BY <1>0
<1> QED BY <1>1, <1>2, <1>3, <1>4, <1>5, <1>6, <1>7, <1>8 DEF OrderInv

LEMMA OrderFinish ==
    ASSUME TypeInv, NEW ch \in Data, OrderInv(ch), Quiet, NEW code, NEW err, Finish(code, err),
           err = buffer["stderr"] \/ err = Append(buffer["stderr"], Message)
    PROVE  OrderInv(ch)'
<1>0. /\ read[ch] \in Nat /\ buffer[ch] \in Seq(Int) /\ ch # "none" /\ ch # "exit"
      /\ buffer \in [Channels -> Seq(Int)] /\ ch \in Channels
  BY ChannelType
<1>1. /\ UNCHANGED <<read, got, replay>> /\ walk' = [on |-> "exit", at |-> 1]
      /\ buffer' = [[buffer EXCEPT !["exit"] = Append(buffer["exit"], code)] EXCEPT !["stderr"] = err]
  BY DEF Finish
<1>2. buffer'[ch] = buffer[ch] \/ buffer'[ch] = Append(buffer[ch], Message)
  BY <1>0, <1>1 DEF Channels, Data
<1>3. replay'.on # ch /\ walk'.on # ch
  BY <1>0, <1>1 DEF Quiet, NoReplay
<1>4. UpTo(buffer'[ch], read[ch]) /\ HasOnce(buffer'[ch], read[ch])
  <2>1. UpTo(buffer[ch], read[ch]) /\ HasOnce(buffer[ch], read[ch])
    BY DEF OrderInv
  <2>2. CASE buffer'[ch] = buffer[ch]
    BY <2>1, <2>2
  <2>3. CASE buffer'[ch] = Append(buffer[ch], Message)
    <3>1. Message \in 0 .. read[ch]
      BY <1>0 DEF Message
    <3>2. UpTo(Append(buffer[ch], Message), read[ch])
      BY <1>0, <2>1, <3>1, UpToAppend
    <3>3. HasOnce(Append(buffer[ch], Message), read[ch])
      BY <1>0, <2>1, OnceMessage
    <3> QED BY <2>3, <3>2, <3>3
  <2> QED BY <1>2, <2>2, <2>3
<1> QED BY <1>1, <1>3, <1>4 DEF OrderInv

LEMMA OrderCall ==
    ASSUME TypeInv, NoRepeats, NEW ch \in Data, OrderInv(ch), CallNext
    PROVE  OrderInv(ch)'
<1>0. /\ read[ch] \in Nat /\ ch # "none" /\ ch \in Channels /\ ReplayOK
      /\ \A cb \in Callbacks : got[ch][cb] \in Seq(Int)
  BY ChannelType DEF TypeInv
<1>1. UNCHANGED <<read, buffer, replay>> /\ replay = NoReplay /\ walk'.on = walk.on
  <2>1. UNCHANGED <<read, buffer, replay>> /\ replay = NoReplay
    BY DEF CallNext, child
  <2> QED BY <2>1, CallNextFacts, Zenon
<1>2. CASE walk.on # ch
  <2>1. \A cb \in Callbacks : got'[ch][cb] = got[ch][cb]
    BY <1>0, <1>2, CallNextFacts
  <2> QED BY <1>0, <1>1, <2>1, OrderQuiet
<1>3. CASE walk.on = ch
  <2>1. Last(buffer[ch]) = read[ch]
    BY <1>3 DEF OrderInv
  <2>2. ASSUME NEW cb \in Callbacks PROVE UpTo(got'[ch][cb], read[ch]) /\ InOrder(got'[ch][cb])
    <3>1. UpTo(got[ch][cb], read[ch]) /\ InOrder(got[ch][cb]) /\ got[ch][cb] \in Seq(Int)
      BY <1>0 DEF OrderInv
    <3>2. got'[ch][cb] = got[ch][cb] \/ got'[ch][cb] = Append(got[ch][cb], read[ch])
      BY <1>3, <2>1, CallNextFacts
    <3>3. UpTo(Append(got[ch][cb], read[ch]), read[ch])
      BY <1>0, <3>1, UpToAppend
    <3>4. InOrder(Append(got[ch][cb], read[ch]))
      <4>1. \A i \in DOMAIN got[ch][cb] : got[ch][cb][i] <= read[ch]
        BY <1>0, <3>1 DEF UpTo
      <4>2. read[ch] \in Int
        BY <1>0
      <4> QED BY <3>1, <4>1, <4>2, InOrderAppend
    <3> QED BY <3>1, <3>2, <3>3, <3>4
  <2>3. replay'.on # ch
    BY <1>0, <1>1 DEF NoReplay
  <2> QED BY <1>1, <1>3, <2>2, <2>3 DEF OrderInv
<1> QED BY <1>2, <1>3

LEMMA OrderReplay ==
    ASSUME TypeInv, NEW ch \in Data, OrderInv(ch), ReplayNext
    PROVE  OrderInv(ch)'
<1>0. /\ read[ch] \in Nat /\ buffer[ch] \in Seq(Int) /\ ch # "none" /\ ch \in Channels /\ ReplayOK
      /\ \A cb \in Callbacks : got[ch][cb] \in Seq(Int)
      /\ got \in [Channels -> [Callbacks -> Seq(Int)]]
  BY ChannelType DEF TypeInv
<1>1. /\ UNCHANGED <<read, buffer, walk>> /\ replay.on \in Channels /\ replay.cb \in Callbacks
      /\ replay'.on = replay.on /\ replay'.cb = replay.cb /\ replay'.at = replay.at + 1
      /\ replay.at \in Nat \ {0} /\ replay.at <= Len(buffer[replay.on])
  BY DEF ReplayNext, child, TypeInv, TypeOK, ReplayOK
<1> DEFINE x == buffer[replay.on][replay.at]
           cb == replay.cb
<1>2. got' = [got EXCEPT ![replay.on][cb] = Append(got[replay.on][cb], x)]
  BY DEF ReplayNext
<1>3. CASE replay.on # ch
  <2>1. got'[ch] = got[ch]
    BY <1>0, <1>1, <1>2, <1>3
  <2> QED BY <1>0, <1>1, <1>3, <2>1, OrderQuiet
<1>4. CASE replay.on = ch
  <2>1. replay.at \in DOMAIN buffer[ch] /\ x = buffer[ch][replay.at]
    BY <1>0, <1>1, <1>4
  <2>2. x \in 0 .. read[ch]
    BY <2>1 DEF OrderInv, UpTo
  <2> HIDE DEF x
  <2>3. \A y \in Callbacks : got'[ch][y] = IF y = cb THEN Append(got[ch][cb], x) ELSE got[ch][y]
    BY <1>0, <1>1, <1>2, <1>4, GotUpdate
  <2>4. got[ch][cb] \in Seq(Int) /\ UpTo(got[ch][cb], read[ch]) /\ InOrder(got[ch][cb])
    BY <1>0, <1>1 DEF OrderInv
  <2>5. UpTo(Append(got[ch][cb], x), read[ch])
    BY <1>0, <2>2, <2>4, UpToAppend
  <2>6. InOrder(Append(got[ch][cb], x))
    <3>1. \A i \in DOMAIN got[ch][cb] : got[ch][cb][i] # Message /\ x # Message => got[ch][cb][i] <= x
      BY <1>1, <1>4, <2>1 DEF OrderInv
    <3>2. x \in Int
      BY <2>2
    <3> QED BY <2>4, <3>1, <3>2, InOrderAppend
  <2>7. \A y \in Callbacks : UpTo(got'[ch][y], read[ch]) /\ InOrder(got'[ch][y])
    BY <2>3, <2>5, <2>6 DEF OrderInv
  <2>8. ASSUME NEW k \in DOMAIN got'[ch][cb], NEW m \in DOMAIN buffer[ch], m >= replay.at + 1,
               got'[ch][cb][k] # Message, buffer[ch][m] # Message
        PROVE  got'[ch][cb][k] <= buffer[ch][m]
    <3> DEFINE s == got[ch][cb]
    <3>1. s \in Seq(Int) /\ x \in Int /\ got'[ch][cb] = Append(s, x)
      <4>1. x \in Int
        BY <2>2
      <4>2. got'[ch][cb] = Append(s, x)
        BY <1>1, <2>3
      <4> QED BY <2>4, <4>1, <4>2
    <3>a. m \in Nat /\ m >= replay.at /\ replay.at < m
      BY <1>0, <1>1, <2>8
    <3>2. CASE k \in DOMAIN s
      <4>1. got'[ch][cb][k] = s[k]
        BY <3>1, <3>2
      <4> QED BY <1>4, <2>8, <3>2, <3>a, <4>1 DEF OrderInv
    <3>3. CASE k \notin DOMAIN s
      <4>1. k = Len(s) + 1 /\ got'[ch][cb][k] = x
        BY <2>8, <3>1, <3>3
      <4>2. x < buffer[ch][m]
        BY <2>1, <2>8, <3>a, <4>1 DEF OrderInv, HasOnce
      <4>3. buffer[ch][m] \in Int
        BY <1>0
      <4> QED BY <3>1, <4>1, <4>2, <4>3
    <3> QED BY <3>2, <3>3
  <2> QED BY <1>1, <1>4, <2>7, <2>8 DEF OrderInv
<1> QED BY <1>3, <1>4

LEMMA OrderSubscribe ==
    ASSUME TypeInv, NEW ch \in Data, OrderInv(ch),
           NEW c \in Channels, NEW cb \in Callbacks, Subscribe(c, cb)
    PROVE  OrderInv(ch)'
<1>0. /\ read[ch] \in Nat /\ buffer[ch] \in Seq(Int) /\ ch # "none" /\ ch \in Channels /\ ReplayOK
      /\ ch # "exit" /\ got \in [Channels -> [Callbacks -> Seq(Int)]]
  BY ChannelType DEF TypeInv
<1>1. UNCHANGED <<read, buffer, walk>> /\ replay = NoReplay /\ replay.on # ch
  BY <1>0 DEF Subscribe, child, NoReplay
<1>2. CASE c # ch
  <2>1. \E seen : got' = [got EXCEPT ![c][cb] = seen]
    BY DEF Subscribe
  <2>2. got'[ch] = got[ch]
    BY <1>0, <1>2, <2>1
  <2>3. replay' = replay \/ replay'.on # ch
    BY <1>2 DEF Subscribe
  <2> QED BY <1>0, <1>1, <2>2, <2>3, OrderQuiet
<1>3. CASE c = ch /\ buffer[ch] = <<>>
  <2>1. got' = [got EXCEPT ![ch][cb] = <<>>] /\ replay' = replay
    BY <1>3 DEF Subscribe
  <2>2. \A y \in Callbacks : got'[ch][y] = IF y = cb THEN <<>> ELSE got[ch][y]
    BY <1>0, <2>1, GotUpdate
  <2>3. \A y \in Callbacks : UpTo(got'[ch][y], read[ch]) /\ InOrder(got'[ch][y])
    BY <1>0, <2>2, EmptyChunks DEF OrderInv
  <2> QED BY <1>1, <2>1, <2>3 DEF OrderInv
<1>4. CASE c = ch /\ buffer[ch] # <<>>
  <2>1. Missed(ch) = 1 /\ 1 \in DOMAIN buffer[ch]
    BY <1>0, <1>4 DEF Missed
  <2> DEFINE x == buffer[ch][1]
  <2>2. got' = [got EXCEPT ![ch][cb] = <<x>>] /\ replay' = [on |-> ch, cb |-> cb, at |-> 2]
    BY <1>4, <2>1 DEF Subscribe
  <2>3. x \in 0 .. read[ch]
    BY <2>1 DEF OrderInv, UpTo
  <2>4. \A m \in DOMAIN buffer[ch] : m >= 2 /\ x # Message /\ buffer[ch][m] # Message => x <= buffer[ch][m]
    <3>1. \A m \in DOMAIN buffer[ch] : m >= 2 => 1 < m /\ buffer[ch][m] \in Int
      BY <1>0
    <3>2. \A m \in DOMAIN buffer[ch] :
             m >= 2 /\ x # Message /\ buffer[ch][m] # Message => x < buffer[ch][m]
      BY <2>1, <3>1 DEF OrderInv, HasOnce
    <3> QED BY <2>3, <3>1, <3>2
  <2> HIDE DEF x
  <2>5. \A y \in Callbacks : got'[ch][y] = IF y = cb THEN <<x>> ELSE got[ch][y]
    BY <1>0, <2>2, GotUpdate
  <2>6. \A y \in Callbacks : UpTo(got'[ch][y], read[ch]) /\ InOrder(got'[ch][y])
    BY <1>0, <2>3, <2>5, OneChunk DEF OrderInv
  <2>7. got'[ch][replay'.cb] = <<x>> /\ replay'.at = 2
    BY <2>2, <2>5
  <2>8. \A k \in DOMAIN got'[ch][replay'.cb] : got'[ch][replay'.cb][k] = x
    BY <2>7
  <2> QED BY <1>1, <2>4, <2>6, <2>7, <2>8 DEF OrderInv
<1> QED BY <1>2, <1>3, <1>4

LEMMA OrderUnsubscribe ==
    ASSUME TypeInv, NEW ch \in Data, OrderInv(ch),
           NEW c \in Channels, NEW cb \in Callbacks, Unsubscribe(c, cb)
    PROVE  OrderInv(ch)'
<1>0. /\ read[ch] \in Nat /\ ch \in Channels /\ ReplayOK
      /\ ch # "none" /\ got \in [Channels -> [Callbacks -> Seq(Int)]]
  BY ChannelType DEF TypeInv
<1>1. /\ UNCHANGED <<read, buffer, walk, replay>> /\ got' = [got EXCEPT ![c][cb] = <<>>]
      /\ <<replay.on, replay.cb>> # <<c, cb>>
  BY DEF Unsubscribe, child
<1>2. CASE c # ch
  <2>1. got'[ch] = got[ch]
    BY <1>0, <1>1, <1>2
  <2> QED BY <1>0, <1>1, <2>1, OrderQuiet
<1>3. CASE c = ch
  <2>1. \A y \in Callbacks : got'[ch][y] = IF y = cb THEN <<>> ELSE got[ch][y]
    BY <1>0, <1>1, <1>3, GotUpdate
  <2>2. \A y \in Callbacks : UpTo(got'[ch][y], read[ch]) /\ InOrder(got'[ch][y])
    BY <1>0, <2>1, EmptyChunks DEF OrderInv
  <2>3. replay.on = ch => got'[ch][replay.cb] = got[ch][replay.cb]
    BY <1>0, <1>1, <1>3, <2>1 DEF ReplayOK, NoReplay
  <2> QED BY <1>1, <2>2, <2>3 DEF OrderInv
<1> QED BY <1>2, <1>3

LEMMA OrderStep ==
    ASSUME TypeInv, NoRepeats, NEW ch \in Data, OrderInv(ch), [Next]_vars
    PROVE  OrderInv(ch)'
<1>0. /\ ReplayOK /\ ch # "none" /\ ch # "exit" /\ ch \in Channels /\ read[ch] \in Nat
      /\ got \in [Channels -> [Callbacks -> Seq(Int)]] /\ read \in [Data -> Nat]
      /\ buffer \in [Channels -> Seq(Int)]
  BY ChannelType DEF TypeInv
<1>1. CASE Die \/ OnLateError
  BY <1>0, <1>1, OrderQuiet DEF Die, OnLateError, calls, ends
<1>2. ASSUME NEW c \in Data, Write(c) PROVE OrderInv(ch)'
  BY <1>0, <1>2, OrderQuiet DEF Write, calls, ends
<1>3. ASSUME NEW c \in Data, OnData(c) PROVE OrderInv(ch)'
  <2>1. CASE c = ch
    BY <1>3, <2>1, OrderData
  <2>2. CASE c # ch
    <3>1. read'[ch] = read[ch] /\ buffer'[ch] = buffer[ch] /\ walk'.on # ch
          /\ UNCHANGED <<got, replay>>
      BY <1>0, <1>3, <2>2 DEF OnData
    <3> QED BY <1>0, <3>1, OrderQuiet
  <2> QED BY <2>1, <2>2
<1>4. ASSUME NEW code \in Codes, OnExit(code) PROVE OrderInv(ch)'
  BY <1>4, OrderFinish DEF OnExit
<1>5. CASE OnError
  BY <1>5, OrderFinish DEF OnError
<1>6. CASE CallNext
  BY <1>6, OrderCall
<1>7. CASE CallsDone
  <2>1. walk'.on # ch
    BY <1>0, <1>7 DEF CallsDone, Idle
  <2> QED BY <1>0, <1>7, <2>1, OrderQuiet DEF CallsDone, child
<1>8. CASE ReplayNext
  BY <1>8, OrderReplay
<1>9. CASE ReplayDone
  <2>1. replay'.on # ch
    BY <1>0, <1>9 DEF ReplayDone, NoReplay
  <2> QED BY <1>0, <1>9, <2>1, OrderQuiet DEF ReplayDone, child
<1>10. ASSUME NEW c \in Channels, NEW cb \in Callbacks, Subscribe(c, cb) PROVE OrderInv(ch)'
  BY <1>10, OrderSubscribe
<1>11. ASSUME NEW c \in Channels, NEW cb \in Callbacks, Unsubscribe(c, cb) PROVE OrderInv(ch)'
  BY <1>11, OrderUnsubscribe
<1>12. CASE Kill \/ Wait
  BY <1>0, <1>12, OrderQuiet DEF Kill, Wait, child, calls, ends
<1>13. CASE Dispose
  <2>1. UNCHANGED <<read, buffer, walk, replay>> /\ \A cb \in Callbacks : got'[ch][cb] = <<>>
    BY <1>0, <1>13 DEF Dispose
  <2>2. \A cb \in Callbacks : UpTo(got'[ch][cb], read[ch]) /\ InOrder(got'[ch][cb])
    BY <1>0, <2>1, EmptyChunks
  <2>3. replay.on = ch => got'[ch][replay.cb] = <<>>
    BY <1>0, <2>1 DEF ReplayOK, NoReplay
  <2> QED BY <2>1, <2>2, <2>3 DEF OrderInv
<1>14. CASE UNCHANGED vars
  BY <1>0, <1>14, OrderQuiet DEF vars, child, calls, ends
<1> QED BY <1>1, <1>2, <1>3, <1>4, <1>5, <1>6, <1>7, <1>8, <1>9, <1>10, <1>11, <1>12, <1>13,
           <1>14 DEF Next

\* No callback ever gets a chunk before an earlier one, whatever the callbacks do to
\* the list that is walked and wherever a replay falls.
THEOREM AlwaysInOrder == Spec => []DeliveredInOrder
<1> DEFINE Inv == TypeInv /\ NoRepeats /\ \A ch \in Data : OrderInv(ch)
<1>1. Init => Inv
  BY TypeInit, NoRepeatsInit, OrderInit
<1>2. Inv /\ [Next]_vars => Inv'
  BY TypeStep, NoRepeatsStep, OrderStep
<1>3. Inv => DeliveredInOrder
  <2> SUFFICES ASSUME Inv, NEW ch \in Data, NEW cb \in ToSet(list[ch]) PROVE InOrder(got[ch][cb])
    BY DEF DeliveredInOrder, InOrder
  <2>1. cb \in Callbacks
    BY ChannelType DEF ToSet
  <2> QED BY <2>1 DEF OrderInv
<1> QED BY <1>1, <1>2, <1>3, PTL DEF Spec

------------------------------------------------------------------------------
(* Every chunk once *)

\* s is what a replay of b has delivered when n chunks were
Replayed(s, b, n) == n <= Len(b) /\ Len(s) = n /\ \A i \in DOMAIN s : s[i] = b[i]

\* Who is due in a walk got all but the chunk read last; to whom is replayed, what
\* was replayed; everybody else, all that was read
Kept(ch, p) ==
    LET seen == got[ch][list[ch][p]] IN
    /\ Due(ch, p) => HasOnce(seen, read[ch] - 1) /\ UpTo(seen, read[ch] - 1)
    /\ ~Due(ch, p) => IF replay.on = ch /\ replay.cb = list[ch][p]
                      THEN Replayed(seen, buffer[ch], replay.at - 1)
                      ELSE HasOnce(seen, read[ch])

OnceInv(ch) ==
    ch \notin meddled => /\ ~(walk.on = ch /\ replay.on = ch)
                         /\ \A p \in DOMAIN list[ch] : Kept(ch, p)

LEMMA OnceInit == ASSUME Init, NEW ch \in Data PROVE OnceInv(ch)
<1>1. list[ch] = <<>> /\ walk.on # ch
  BY DEF Init, Channels, Data, Idle
<1> QED BY <1>1 DEF OnceInv

\* A step that leaves the channel alone
LEMMA OnceQuiet ==
    ASSUME NEW ch \in Data, OnceInv(ch),
           read'[ch] = read[ch], list'[ch] = list[ch], buffer'[ch] = buffer[ch] \/ replay.on # ch,
           \A p \in DOMAIN list[ch] : got'[ch][list[ch][p]] = got[ch][list[ch][p]],
           walk' = walk \/ (walk.on # ch /\ walk'.on # ch),
           replay' = replay \/ (replay.on # ch /\ replay'.on # ch),
           ch \in meddled => ch \in meddled'
    PROVE  OnceInv(ch)'
<1> SUFFICES ASSUME ch \notin meddled'
             PROVE  /\ ~(walk'.on = ch /\ replay'.on = ch)
                    /\ \A p \in DOMAIN list'[ch] : Kept(ch, p)'
  BY DEF OnceInv
<1>1. ch \notin meddled /\ ~(walk.on = ch /\ replay.on = ch)
  BY DEF OnceInv
<1>2. ASSUME NEW p \in DOMAIN list'[ch] PROVE Kept(ch, p)'
  <2>1. Kept(ch, p) /\ p \in DOMAIN list[ch] /\ list'[ch][p] = list[ch][p]
    BY <1>1, <1>2 DEF OnceInv
  <2>2. got'[ch][list'[ch][p]] = got[ch][list[ch][p]]
    BY <2>1
  <2>3. Due(ch, p)' <=> Due(ch, p)
    BY DEF Due
  <2>4. (replay'.on = ch /\ replay'.cb = list'[ch][p]) <=> (replay.on = ch /\ replay.cb = list[ch][p])
    BY <2>1
  <2>5. CASE Due(ch, p)
    BY <2>1, <2>2, <2>3, <2>5 DEF Kept
  <2>6. CASE ~Due(ch, p) /\ replay.on = ch /\ replay.cb = list[ch][p]
    <3>1. Replayed(got[ch][list[ch][p]], buffer[ch], replay.at - 1)
      BY <2>1, <2>6 DEF Kept
    <3>2. replay' = replay /\ buffer'[ch] = buffer[ch]
      BY <2>6
    <3> QED BY <2>2, <2>3, <2>4, <2>6, <3>1, <3>2 DEF Kept
  <2>7. CASE ~Due(ch, p) /\ ~(replay.on = ch /\ replay.cb = list[ch][p])
    <3>1. HasOnce(got[ch][list[ch][p]], read[ch])
      BY <2>1, <2>7 DEF Kept
    <3> QED BY <2>2, <2>3, <2>4, <2>7, <3>1 DEF Kept
  <2> QED BY <2>5, <2>6, <2>7
<1> QED BY <1>1, <1>2

LEMMA OnceData ==
    ASSUME TypeInv, NEW ch \in Data, OrderInv(ch), OnceInv(ch), OnData(ch)
    PROVE  OnceInv(ch)'
<1>0. /\ read[ch] \in Nat /\ ch # "none" /\ ch \in Channels /\ read \in [Data -> Nat]
      /\ list[ch] \in Seq(Callbacks)
  BY ChannelType
<1>1. /\ read' = [read EXCEPT ![ch] = read[ch] + 1] /\ walk' = [on |-> ch, at |-> 1]
      /\ UNCHANGED <<got, list, replay, meddled>> /\ replay = NoReplay /\ walk = Idle
  BY DEF OnData, Quiet
<1>2. read'[ch] = read[ch] + 1 /\ read'[ch] - 1 = read[ch]
  BY <1>0, <1>1
<1>3. replay.on # ch /\ walk.on # ch
  BY <1>0, <1>1 DEF NoReplay, Idle
<1>4. ASSUME ch \notin meddled', NEW p \in DOMAIN list'[ch] PROVE Kept(ch, p)'
  <2>1. p \in DOMAIN list[ch] /\ list[ch][p] \in Callbacks /\ 1 <= p
    BY <1>0, <1>1, <1>4
  <2>2. Kept(ch, p) /\ ~Due(ch, p)
    BY <1>1, <1>3, <1>4, <2>1 DEF OnceInv, Due
  <2>3. HasOnce(got[ch][list[ch][p]], read[ch])
    BY <1>3, <2>2 DEF Kept
  <2>4. UpTo(got[ch][list[ch][p]], read[ch])
    BY <2>1 DEF OrderInv
  <2>5. Due(ch, p)'
    BY <1>1, <2>1 DEF Due
  <2> QED BY <1>1, <1>2, <2>3, <2>4, <2>5 DEF Kept
<1> QED BY <1>1, <1>3, <1>4 DEF OnceInv

LEMMA OnceCall ==
    ASSUME TypeInv, NoRepeats, NEW ch \in Data, OrderInv(ch), OnceInv(ch), CallNext
    PROVE  OnceInv(ch)'
<1>0. /\ read[ch] \in Nat /\ ch # "none" /\ ch \in Channels /\ list[ch] \in Seq(Callbacks)
      /\ \A cb \in Callbacks : got[ch][cb] \in Seq(Int)
  BY ChannelType
<1>1. /\ UNCHANGED <<read, buffer, list, replay, meddled>> /\ replay = NoReplay /\ replay.on # ch
      /\ walk'.on = walk.on /\ walk'.at = walk.at + 1 /\ walk.at \in Nat
  <2>1. UNCHANGED <<read, buffer, list, replay, meddled>> /\ replay = NoReplay
    BY DEF CallNext, child
  <2>2. replay.on # ch
    BY <1>0, <2>1 DEF NoReplay
  <2> QED BY <2>1, <2>2, CallNextFacts, Zenon
<1>2. CASE walk.on # ch
  <2>1. \A cb \in Callbacks : got'[ch][cb] = got[ch][cb]
    BY <1>0, <1>2, CallNextFacts
  <2>2. \A p \in DOMAIN list[ch] : list[ch][p] \in Callbacks
    BY <1>0
  <2> QED BY <1>1, <1>2, <2>1, <2>2, OnceQuiet
<1>3. CASE walk.on = ch
  <2>1. Last(buffer[ch]) = read[ch] /\ read[ch] >= 1
    BY <1>3 DEF OrderInv
  <2>2. ASSUME ch \notin meddled', NEW p \in DOMAIN list'[ch] PROVE Kept(ch, p)'
    <3> DEFINE seen == got[ch][list[ch][p]]
    <3>1. p \in DOMAIN list[ch] /\ p \in Nat /\ list[ch][p] \in Callbacks /\ seen \in Seq(Int)
      BY <1>0, <1>1, <2>2
    <3>2. Kept(ch, p)
      BY <1>1, <2>2, <3>1 DEF OnceInv
    <3>3. got'[ch][list[ch][p]] = IF p = walk.at THEN Append(seen, read[ch]) ELSE seen
      BY <1>3, <2>1, <3>1, CallNextFacts
    <3>4. CASE p = walk.at
      <4>1. walk.at <= p /\ ~(walk'.at <= p)
        BY <1>1, <3>4
      <4>2. Due(ch, p) /\ ~Due(ch, p)'
        BY <1>3, <4>1 DEF Due
      <4>3. HasOnce(seen, read[ch] - 1) /\ UpTo(seen, read[ch] - 1)
        BY <3>2, <4>2 DEF Kept
      <4>4. read[ch] - 1 \in Nat /\ (read[ch] - 1) + 1 = read[ch]
        BY <1>0, <2>1
      <4> HIDE DEF seen
      <4>5. HasOnce(Append(seen, read[ch]), read[ch])
        BY <3>1, <4>3, <4>4, OnceNext
      <4>6. HasOnce(got'[ch][list'[ch][p]], read'[ch])
        BY <1>1, <3>3, <3>4, <4>5
      <4> QED BY <1>1, <4>2, <4>6 DEF Kept
    <3>5. CASE p # walk.at
      <4>1. (walk'.at <= p) <=> (walk.at <= p)
        BY <1>1, <3>1, <3>5
      <4>2. Due(ch, p)' <=> Due(ch, p)
        BY <1>1, <4>1 DEF Due
      <4>3. got'[ch][list'[ch][p]] = got[ch][list[ch][p]]
        BY <1>1, <3>3, <3>5
      <4> QED BY <1>1, <3>2, <4>2, <4>3 DEF Kept
    <3> QED BY <3>4, <3>5
  <2> QED BY <1>1, <2>2 DEF OnceInv
<1> QED BY <1>2, <1>3

LEMMA OnceReplay ==
    ASSUME TypeInv, NEW ch \in Data, OnceInv(ch), ReplayNext
    PROVE  OnceInv(ch)'
<1>0. /\ buffer[ch] \in Seq(Int) /\ ch \in Channels /\ list[ch] \in Seq(Callbacks)
      /\ \A cb \in Callbacks : got[ch][cb] \in Seq(Int)
      /\ got \in [Channels -> [Callbacks -> Seq(Int)]]
  BY ChannelType
<1>1. /\ UNCHANGED <<read, buffer, list, walk, meddled>>
      /\ replay.on \in Channels /\ replay.cb \in Callbacks
      /\ replay'.on = replay.on /\ replay'.cb = replay.cb /\ replay'.at = replay.at + 1
      /\ replay.at \in Nat \ {0} /\ replay.at <= Len(buffer[replay.on])
  BY DEF ReplayNext, child, TypeInv, TypeOK, ReplayOK
<1> DEFINE x == buffer[replay.on][replay.at]
           cb == replay.cb
<1>2. got' = [got EXCEPT ![replay.on][cb] = Append(got[replay.on][cb], x)]
  BY DEF ReplayNext
<1>3. CASE replay.on # ch
  <2>1. got'[ch] = got[ch]
    BY <1>0, <1>1, <1>2, <1>3
  <2> QED BY <1>1, <1>3, <2>1, OnceQuiet
<1>4. CASE replay.on = ch
  <2>1. replay.at \in DOMAIN buffer[ch] /\ x = buffer[ch][replay.at] /\ x \in Int
    BY <1>0, <1>1, <1>4
  <2> HIDE DEF x
  <2>2. \A y \in Callbacks : got'[ch][y] = IF y = cb THEN Append(got[ch][cb], x) ELSE got[ch][y]
    BY <1>0, <1>1, <1>2, <1>4, GotUpdate
  <2>3. ASSUME ch \notin meddled', NEW p \in DOMAIN list'[ch] PROVE Kept(ch, p)'
    <3>1. p \in DOMAIN list[ch] /\ list[ch][p] \in Callbacks /\ list'[ch][p] = list[ch][p]
      BY <1>0, <1>1, <2>3
    <3>2. Kept(ch, p) /\ walk.on # ch
      BY <1>1, <1>4, <2>3, <3>1 DEF OnceInv
    <3>3. ~Due(ch, p) /\ ~Due(ch, p)'
      BY <1>1, <3>2 DEF Due
    <3>4. CASE list[ch][p] = cb
      <4> DEFINE s == got[ch][cb]
                 b == buffer[ch]
                 n == replay.at
      <4>1. Replayed(s, b, n - 1)
        BY <1>4, <3>2, <3>3, <3>4 DEF Kept
      <4>2. s \in Seq(Int) /\ b \in Seq(Int) /\ n \in Nat \ {0} /\ n <= Len(b) /\ x = b[n]
        BY <1>0, <1>1, <1>4, <2>1
      <4>3. got'[ch][list'[ch][p]] = Append(s, x)
        BY <1>1, <2>2, <3>1, <3>4
      <4> HIDE DEF s, b, n
      <4>4. /\ Len(Append(s, x)) = Len(s) + 1 /\ DOMAIN Append(s, x) = 1 .. Len(s) + 1
            /\ \A i \in 1 .. Len(s) : Append(s, x)[i] = s[i]
            /\ Append(s, x)[Len(s) + 1] = x
        BY <2>1, <4>2, AppendProperties
      <4>5. Len(s) = n - 1 /\ \A i \in 1 .. Len(s) : s[i] = b[i]
        BY <4>1, <4>2 DEF Replayed
      <4>6. \A i \in DOMAIN Append(s, x) : Append(s, x)[i] = b[i]
        <5> SUFFICES ASSUME NEW i \in 1 .. Len(s) + 1 PROVE Append(s, x)[i] = b[i]
          BY <4>4
        <5>1. CASE i = Len(s) + 1
          <6>1. i = n
            BY <4>2, <4>5, <5>1
          <6> QED BY <4>2, <4>4, <5>1, <6>1
        <5>2. CASE i # Len(s) + 1
          <6>1. i \in 1 .. Len(s)
            BY <4>2, <5>2
          <6> QED BY <4>4, <4>5, <6>1
        <5> QED BY <5>1, <5>2
      <4>7. n <= Len(b) /\ Len(Append(s, x)) = n
        BY <4>2, <4>4, <4>5
      <4>8. Replayed(Append(s, x), b, n)
        BY <4>6, <4>7 DEF Replayed
      <4>9. Replayed(got'[ch][list'[ch][p]], buffer'[ch], replay'.at - 1)
        <5>1. replay'.at - 1 = n
          BY <1>1, <4>2 DEF n
        <5> QED BY <1>1, <4>3, <4>8, <5>1 DEF b
      <4> QED BY <1>1, <1>4, <3>1, <3>3, <3>4, <4>9 DEF Kept
    <3>5. CASE list[ch][p] # cb
      <4>1. HasOnce(got[ch][list[ch][p]], read[ch])
        BY <3>2, <3>3, <3>5 DEF Kept
      <4>2. got'[ch][list'[ch][p]] = got[ch][list[ch][p]]
        BY <2>2, <3>1, <3>5
      <4> QED BY <1>1, <3>1, <3>3, <3>5, <4>1, <4>2 DEF Kept
    <3> QED BY <3>4, <3>5
  <2> QED BY <1>1, <2>3 DEF OnceInv
<1> QED BY <1>3, <1>4

LEMMA OnceReplayDone ==
    ASSUME TypeInv, NEW ch \in Data, OrderInv(ch), OnceInv(ch), ReplayDone
    PROVE  OnceInv(ch)'
<1>0. /\ buffer[ch] \in Seq(Int) /\ ch # "none" /\ list[ch] \in Seq(Callbacks)
      /\ \A cb \in Callbacks : got[ch][cb] \in Seq(Int)
  BY ChannelType
<1>1. UNCHANGED <<read, buffer, list, walk, got, meddled>> /\ replay'.on # ch
  BY <1>0 DEF ReplayDone, child, NoReplay
<1>2. CASE replay.on # ch
  BY <1>1, <1>2, OnceQuiet
<1>3. CASE replay.on = ch
  <2>1. replay.at \in Nat /\ replay.at > Len(buffer[ch])
    BY <1>3 DEF ReplayDone, TypeInv, TypeOK
  <2>2. ASSUME ch \notin meddled', NEW p \in DOMAIN list'[ch] PROVE Kept(ch, p)'
    <3> DEFINE s == got[ch][list[ch][p]]
    <3>1. p \in DOMAIN list[ch] /\ s \in Seq(Int)
      BY <1>0, <1>1, <2>2
    <3>2. Kept(ch, p) /\ walk.on # ch
      BY <1>1, <1>3, <2>2, <3>1 DEF OnceInv
    <3>3. ~Due(ch, p) /\ ~Due(ch, p)'
      BY <1>1, <3>2 DEF Due
    <3>4. HasOnce(s, read[ch])
      <4>1. CASE list[ch][p] = replay.cb
        <5>1. Replayed(s, buffer[ch], replay.at - 1)
          BY <1>3, <3>2, <3>3, <4>1 DEF Kept
        <5> HIDE DEF s
        <5>2. DOMAIN s = DOMAIN buffer[ch] /\ \A i \in DOMAIN s : s[i] = buffer[ch][i]
          BY <1>0, <2>1, <3>1, <5>1 DEF Replayed
        <5>3. HasOnce(buffer[ch], read[ch])
          BY DEF OrderInv
        <5> QED BY <5>2, <5>3 DEF HasOnce
      <4>2. CASE list[ch][p] # replay.cb
        BY <3>2, <3>3, <4>2 DEF Kept
      <4> QED BY <4>1, <4>2
    <3> QED BY <1>1, <3>3, <3>4 DEF Kept
  <2> QED BY <1>1, <2>2 DEF OnceInv
<1> QED BY <1>2, <1>3

LEMMA OnceSubscribe ==
    ASSUME TypeInv, NEW ch \in Data, OrderInv(ch), OnceInv(ch),
           NEW c \in Channels, NEW cb \in Callbacks, Subscribe(c, cb)
    PROVE  OnceInv(ch)'
<1>0. /\ read[ch] \in Nat /\ buffer[ch] \in Seq(Int) /\ ch # "none" /\ ch # "exit" /\ ch \in Channels
      /\ list[ch] \in Seq(Callbacks) /\ list \in [Channels -> Seq(Callbacks)]
      /\ got \in [Channels -> [Callbacks -> Seq(Int)]]
  BY ChannelType
<1>1. /\ UNCHANGED <<read, buffer, walk>> /\ replay = NoReplay /\ replay.on # ch
      /\ list' = [list EXCEPT ![c] = Append(list[c], cb)] /\ ~Contains(list[c], cb)
      /\ meddled' = IF walk.on = c THEN meddled \union {c} ELSE meddled
  BY <1>0 DEF Subscribe, Meddle, child, NoReplay
<1>2. CASE c # ch
  <2>1. \E seen : got' = [got EXCEPT ![c][cb] = seen]
    BY DEF Subscribe
  <2>2. got'[ch] = got[ch] /\ list'[ch] = list[ch]
    BY <1>0, <1>1, <1>2, <2>1
  <2>3. replay' = replay \/ replay'.on # ch
    BY <1>2 DEF Subscribe
  <2> QED BY <1>1, <2>2, <2>3, OnceQuiet
<1>3. CASE c = ch
  <2>1. list'[ch] = Append(list[ch], cb) /\ \A q \in DOMAIN list[ch] : list[ch][q] # cb
    BY <1>0, <1>1, <1>3 DEF Contains
  <2>2. /\ \A y \in Callbacks : y # cb => got'[ch][y] = got[ch][y]
        /\ IF buffer[ch] = <<>> THEN got'[ch][cb] = <<>> /\ replay' = replay
           ELSE /\ got'[ch][cb] = <<buffer[ch][1]>>
                /\ replay' = [on |-> ch, cb |-> cb, at |-> 2]
    <3>1. CASE buffer[ch] = <<>>
      <4>1. got' = [got EXCEPT ![ch][cb] = <<>>] /\ replay' = replay
        BY <1>3, <3>1 DEF Subscribe
      <4> QED BY <1>0, <3>1, <4>1, GotUpdate
    <3>2. CASE buffer[ch] # <<>>
      <4>1. Missed(ch) = 1
        BY <1>0 DEF Missed
      <4>2. got' = [got EXCEPT ![ch][cb] = <<buffer[ch][1]>>] /\ replay' = [on |-> ch, cb |-> cb, at |-> 2]
        BY <1>3, <3>2, <4>1 DEF Subscribe
      <4> QED BY <1>0, <3>2, <4>2, GotUpdate
    <3> QED BY <3>1, <3>2
  <2>3. ASSUME ch \notin meddled', NEW p \in DOMAIN list'[ch] PROVE Kept(ch, p)'
    <3>1. walk.on # ch /\ ch \notin meddled /\ ~Due(ch, p) /\ ~Due(ch, p)'
      BY <1>1, <1>3, <2>3 DEF Due
    <3>2. CASE p = Len(list[ch]) + 1
      <4>1. list'[ch][p] = cb
        BY <1>0, <2>1, <3>2
      <4>2. CASE buffer[ch] = <<>>
        <5>1. got'[ch][cb] = <<>> /\ replay'.on # ch
          BY <1>1, <2>2, <4>2
        <5>2. HasOnce(<<>>, read[ch])
          <6>1. HasOnce(buffer[ch], read[ch])
            BY DEF OrderInv
          <6> QED BY <4>2, <6>1
        <5> QED BY <1>1, <3>1, <4>1, <5>1, <5>2 DEF Kept
      <4>3. CASE buffer[ch] # <<>>
        <5>1. /\ got'[ch][cb] = <<buffer[ch][1]>>
              /\ replay'.on = ch /\ replay'.cb = cb /\ replay'.at - 1 = 1
          BY <2>2, <4>3
        <5>2. Replayed(<<buffer[ch][1]>>, buffer[ch], 1)
          <6>1. 1 <= Len(buffer[ch])
            BY <1>0, <4>3
          <6>2. DOMAIN <<buffer[ch][1]>> = {1} /\ Len(<<buffer[ch][1]>>) = 1
            OBVIOUS
          <6> QED BY <6>1, <6>2 DEF Replayed
        <5> QED BY <1>1, <3>1, <4>1, <5>1, <5>2 DEF Kept
      <4> QED BY <4>2, <4>3
    <3>3. CASE p # Len(list[ch]) + 1
      <4>1. /\ p \in DOMAIN list[ch] /\ list'[ch][p] = list[ch][p] /\ list[ch][p] \in Callbacks
            /\ list[ch][p] # cb
        BY <1>0, <2>1, <2>3, <3>3
      <4>2. HasOnce(got[ch][list[ch][p]], read[ch])
        BY <1>1, <3>1, <4>1 DEF OnceInv, Kept
      <4>3. got'[ch][list'[ch][p]] = got[ch][list[ch][p]]
        BY <2>2, <4>1
      <4>4. ~(replay'.on = ch /\ replay'.cb = list'[ch][p])
        BY <1>1, <2>2, <4>1
      <4> QED BY <1>1, <3>1, <4>2, <4>3, <4>4 DEF Kept
    <3> QED BY <3>2, <3>3
  <2>4. ch \notin meddled' => walk'.on # ch
    BY <1>1, <1>3
  <2> QED BY <2>3, <2>4 DEF OnceInv
<1> QED BY <1>2, <1>3

LEMMA OnceUnsubscribe ==
    ASSUME TypeInv, NoRepeats, NEW ch \in Data, OnceInv(ch),
           NEW c \in Channels, NEW cb \in Callbacks, Unsubscribe(c, cb)
    PROVE  OnceInv(ch)'
<1>0. /\ ch \in Channels /\ list \in [Channels -> Seq(Callbacks)]
      /\ got \in [Channels -> [Callbacks -> Seq(Int)]]
  BY ChannelType
<1>1. /\ UNCHANGED <<read, buffer, walk, replay>> /\ got' = [got EXCEPT ![c][cb] = <<>>]
      /\ \E i \in DOMAIN list[c] : list' = [list EXCEPT ![c] = RemoveAt(list[c], i)]
      /\ meddled' = IF walk.on = c THEN meddled \union {c} ELSE meddled
  BY DEF Unsubscribe, Meddle, child
<1>2. CASE c # ch
  <2>1. got'[ch] = got[ch] /\ list'[ch] = list[ch]
    BY <1>0, <1>1, <1>2
  <2> QED BY <1>1, <2>1, OnceQuiet
<1>3. CASE c = ch
  <2>1. ASSUME ch \notin meddled', NEW p \in DOMAIN list'[ch] PROVE Kept(ch, p)'
    <3>1. walk.on # ch /\ ch \notin meddled
      BY <1>1, <1>3, <2>1
    <3>2. PICK q \in DOMAIN list[ch] : list'[ch][p] = list[ch][q]
      BY <1>3, <2>1, Unsubscribed
    <3>3. list'[ch][p] \in Callbacks /\ list'[ch][p] # cb
      BY <1>3, <2>1, Unsubscribed
    <3>4. got'[ch][list'[ch][p]] = got[ch][list[ch][q]]
      BY <1>0, <1>1, <1>3, <3>2, <3>3, GotUpdate
    <3>5. Kept(ch, q) /\ ~Due(ch, q) /\ ~Due(ch, p)'
      BY <1>1, <3>1 DEF OnceInv, Due
    <3>6. CASE replay.on = ch /\ replay.cb = list[ch][q]
      <4>1. Replayed(got[ch][list[ch][q]], buffer[ch], replay.at - 1)
        BY <3>5, <3>6 DEF Kept
      <4> QED BY <1>1, <3>2, <3>4, <3>5, <3>6, <4>1 DEF Kept
    <3>7. CASE ~(replay.on = ch /\ replay.cb = list[ch][q])
      <4>1. HasOnce(got[ch][list[ch][q]], read[ch])
        BY <3>5, <3>7 DEF Kept
      <4> QED BY <1>1, <3>2, <3>4, <3>5, <3>7, <4>1 DEF Kept
    <3> QED BY <3>6, <3>7
  <2>2. ch \notin meddled' => ~(walk'.on = ch /\ replay'.on = ch)
    BY <1>1, <1>3
  <2> QED BY <2>1, <2>2 DEF OnceInv
<1> QED BY <1>2, <1>3

LEMMA OnceStep ==
    ASSUME TypeInv, NoRepeats, NEW ch \in Data, OrderInv(ch), OnceInv(ch), [Next]_vars
    PROVE  OnceInv(ch)'
<1>0. /\ ch # "none" /\ ch # "exit" /\ ch \in Channels /\ list[ch] \in Seq(Callbacks)
      /\ read \in [Data -> Nat] /\ buffer \in [Channels -> Seq(Int)] /\ read[ch] \in Nat
  BY ChannelType
<1>1. CASE Die \/ OnLateError
  BY <1>1, OnceQuiet DEF Die, OnLateError, calls, ends
<1>2. ASSUME NEW c \in Data, Write(c) PROVE OnceInv(ch)'
  BY <1>2, OnceQuiet DEF Write, calls, ends
<1>3. ASSUME NEW c \in Data, OnData(c) PROVE OnceInv(ch)'
  <2>1. CASE c = ch
    BY <1>3, <2>1, OnceData
  <2>2. CASE c # ch
    <3>1. /\ read'[ch] = read[ch] /\ buffer'[ch] = buffer[ch] /\ walk'.on # ch /\ walk.on # ch
          /\ UNCHANGED <<list, got, replay, meddled>>
      BY <1>0, <1>3, <2>2 DEF OnData, Quiet, Idle
    <3> QED BY <3>1, OnceQuiet
  <2> QED BY <2>1, <2>2
<1>4. ASSUME NEW code, NEW err, Quiet, Finish(code, err) PROVE OnceInv(ch)'
  <2>1. /\ UNCHANGED <<read, list, got, replay, meddled>> /\ walk'.on # ch /\ walk.on # ch
        /\ replay.on # ch
    BY <1>0, <1>4 DEF Finish, Quiet, Idle, NoReplay
  <2> QED BY <2>1, OnceQuiet
<1>5. ASSUME NEW code \in Codes, OnExit(code) PROVE OnceInv(ch)'
  BY <1>4, <1>5 DEF OnExit
<1>6. CASE OnError
  BY <1>4, <1>6 DEF OnError
<1>7. CASE CallNext
  BY <1>7, OnceCall
<1>8. CASE CallsDone
  <2>1. UNCHANGED <<read, buffer, list, got, replay, meddled>> /\ walk'.on # ch
    BY <1>0, <1>8 DEF CallsDone, child, Idle
  <2>2. CASE walk.on # ch
    BY <2>1, <2>2, OnceQuiet
  <2>3. CASE walk.on = ch
    <3>1. ASSUME ch \notin meddled', NEW p \in DOMAIN list'[ch] PROVE Kept(ch, p)'
      <4>1. p \in DOMAIN list[ch] /\ ~Due(ch, p) /\ ~Due(ch, p)'
        <5>1. p \in DOMAIN list[ch] /\ p <= Len(list[ch]) /\ p \in Nat
          BY <1>0, <2>1, <3>1
        <5>2. walk.at > Len(list[ch]) /\ walk.at \in Nat /\ Len(list[ch]) \in Nat
          BY <1>0, <1>8, <2>3 DEF CallsDone, TypeInv, TypeOK
        <5>3. ~(walk.at <= p)
          BY <5>1, <5>2
        <5> QED BY <2>1, <5>1, <5>3 DEF Due
      <4>2. Kept(ch, p)
        BY <2>1, <3>1, <4>1 DEF OnceInv
      <4> QED BY <2>1, <4>1, <4>2 DEF Kept
    <3> QED BY <2>1, <3>1 DEF OnceInv
  <2> QED BY <2>2, <2>3
<1>9. CASE ReplayNext
  BY <1>9, OnceReplay
<1>10. CASE ReplayDone
  BY <1>10, OnceReplayDone
<1>11. ASSUME NEW c \in Channels, NEW cb \in Callbacks, Subscribe(c, cb) PROVE OnceInv(ch)'
  BY <1>11, OnceSubscribe
<1>12. ASSUME NEW c \in Channels, NEW cb \in Callbacks, Unsubscribe(c, cb) PROVE OnceInv(ch)'
  BY <1>12, OnceUnsubscribe
<1>13. CASE Kill \/ Wait
  BY <1>13, OnceQuiet DEF Kill, Wait, child, calls, ends
<1>14. CASE Dispose
  <2>1. UNCHANGED <<walk, replay, meddled>> /\ list'[ch] = <<>>
    BY <1>0, <1>14 DEF Dispose
  <2> QED BY <2>1 DEF OnceInv
<1>15. CASE UNCHANGED vars
  BY <1>15, OnceQuiet DEF vars, child, calls, ends
<1> QED BY <1>1, <1>2, <1>3, <1>5, <1>6, <1>7, <1>8, <1>9, <1>10, <1>11, <1>12, <1>13,
           <1>14, <1>15 DEF Next

\* Between the calls of a handler every callback has every chunk exactly once and in
\* order, whenever it was registered, if no callback changed the list that was walked.
THEOREM AlwaysDeliveredOnce == Spec => []DeliveredOnce
<1> DEFINE Inv == /\ TypeInv /\ NoRepeats
                  /\ \A ch \in Data : OrderInv(ch)
                  /\ \A ch \in Data : OnceInv(ch)
<1>1. Init => Inv
  BY TypeInit, NoRepeatsInit, OrderInit, OnceInit
<1>2. Inv /\ [Next]_vars => Inv'
  BY TypeStep, NoRepeatsStep, OrderStep, OnceStep
<1>3. Inv => DeliveredOnce
  <2> SUFFICES ASSUME Inv, NEW ch \in Data, ch \notin meddled, walk.on # ch, replay.on # ch,
                      NEW cb \in ToSet(list[ch])
               PROVE  HasOnce(got[ch][cb], read[ch])
    BY DEF DeliveredOnce
  <2>1. PICK p \in DOMAIN list[ch] : cb = list[ch][p]
    BY DEF ToSet
  <2>2. Kept(ch, p) /\ ~Due(ch, p)
    BY DEF OnceInv, Due
  <2> QED BY <2>1, <2>2 DEF Kept
<1> QED BY <1>1, <1>2, <1>3, PTL DEF Spec

------------------------------------------------------------------------------
(* What the final result holds of the output *)

\* t goes on where s ends
Begins(s, t) == Len(s) <= Len(t) /\ \A i \in 1 .. Len(s) : s[i] = t[i]

\* s has every chunk up to some m-th exactly once and in order, and no other;
\* no later one than the n-th
HoldsSome(s, n) == \E m \in 0 .. n : HasOnce(s, m) /\ UpTo(s, m)

\* A chunk is read after it was written; the result has chunks read, without a
\* gap, and the buffers go on where it ends
ResultInv ==
    /\ \A ch \in Data : read[ch] <= written[ch]
    /\ HoldsSome(result.out, read["stdout"]) /\ HoldsSome(result.err, read["stderr"])
    /\ Begins(result.out, buffer["stdout"]) /\ Begins(result.err, buffer["stderr"])

LEMMA BeginsItself == \A s \in Seq(Int) : Begins(s, s)
BY DEF Begins

LEMMA BeginsAppend ==
    ASSUME NEW s \in Seq(Int), NEW t \in Seq(Int), NEW x \in Int, Begins(s, t)
    PROVE  Begins(s, Append(t, x))
<1>1. /\ Len(s) \in Nat /\ Len(t) \in Nat /\ Len(Append(t, x)) = Len(t) + 1
      /\ \A i \in 1 .. Len(t) : Append(t, x)[i] = t[i]
  OBVIOUS
<1> QED BY <1>1 DEF Begins

LEMMA ResultTypes ==
    ASSUME TypeInv
    PROVE  /\ \A ch \in Data : /\ ch \in Channels /\ ch # "exit" /\ buffer[ch] \in Seq(Int)
                               /\ read[ch] \in Nat /\ written[ch] \in Nat
           /\ buffer \in [Channels -> Seq(Int)]
           /\ read \in [Data -> Nat] /\ written \in [Data -> Nat]
           /\ result.out \in Seq(Int) /\ result.err \in Seq(Int)
           /\ "stdout" \in Data /\ "stderr" \in Data
<1>1. /\ buffer \in [Channels -> Seq(Int)]
      /\ read \in [Data -> Nat] /\ written \in [Data -> Nat]
      /\ result \in [out : Seq(Int), err : Seq(Int), code : Codes \union {1, -2}]
  BY DEF TypeInv, TypeOK
<1>2. /\ \A ch \in Data : ch \in Channels /\ ch # "exit"
      /\ "stdout" \in Data /\ "stderr" \in Data
  BY DEF Channels, Data
<1> QED BY <1>1, <1>2

LEMMA ResultInit == Init => ResultInv
<1> SUFFICES ASSUME Init PROVE ResultInv
  OBVIOUS
<1>1. /\ read = [ch \in Data |-> 0] /\ written = [ch \in Data |-> 0]
      /\ result.out = <<>> /\ result.err = <<>>
      /\ buffer["stdout"] = <<>> /\ buffer["stderr"] = <<>>
      /\ "stdout" \in Data /\ "stderr" \in Data
  BY DEF Init, NoResult, Channels, Data
<1>2. HoldsSome(<<>>, 0)
  <2>1. HasOnce(<<>>, 0) /\ UpTo(<<>>, 0)
    BY DEF HasOnce, UpTo
  <2> QED BY <2>1 DEF HoldsSome
<1>3. Begins(<<>>, <<>>)
  BY DEF Begins
<1> QED BY <1>1, <1>2, <1>3 DEF ResultInv

\* A step that neither reads nor reports an end
LEMMA ResultQuiet ==
    ASSUME TypeInv, ResultInv, UNCHANGED <<read, buffer, result>>,
           \A ch \in Data : written[ch] <= written'[ch] /\ written'[ch] \in Nat
    PROVE  ResultInv'
<1>1. ASSUME NEW ch \in Data PROVE read'[ch] <= written'[ch]
  BY ResultTypes DEF ResultInv
<1> QED BY <1>1 DEF ResultInv

LEMMA ResultData ==
    ASSUME TypeInv, ResultInv, NEW ch \in Data, OnData(ch)
    PROVE  ResultInv'
<1>1. /\ read' = [read EXCEPT ![ch] = read[ch] + 1]
      /\ buffer' = [buffer EXCEPT ![ch] = Append(buffer[ch], read[ch] + 1)]
      /\ read[ch] < written[ch] /\ UNCHANGED <<written, result>>
  BY DEF OnData, ends
<1>2. ASSUME NEW c \in Data
      PROVE  /\ read[c] \in Nat /\ read'[c] \in Nat /\ read[c] <= read'[c]
             /\ read'[c] <= written'[c]
             /\ buffer'[c] = buffer[c] \/ buffer'[c] = Append(buffer[c], read[c] + 1)
  <2>1. read[c] \in Nat /\ written[c] \in Nat /\ read[c] <= written[c]
    BY ResultTypes DEF ResultInv
  <2>2. read'[c] = IF c = ch THEN read[c] + 1 ELSE read[c]
    BY <1>1, ResultTypes
  <2>3. buffer'[c] = IF c = ch THEN Append(buffer[c], read[c] + 1) ELSE buffer[c]
    BY <1>1, ResultTypes
  <2> QED BY <1>1, <2>1, <2>2, <2>3
<1>3. ASSUME NEW c \in Data, NEW s \in Seq(Int), Begins(s, buffer[c]), HoldsSome(s, read[c])
      PROVE  Begins(s, buffer'[c]) /\ HoldsSome(s, read'[c])
  <2>1. Begins(s, buffer'[c])
    <3>1. buffer[c] \in Seq(Int) /\ read[c] + 1 \in Int
      BY ResultTypes
    <3> QED BY <1>2, <1>3, <3>1, BeginsAppend
  <2>2. 0 .. read[c] \subseteq 0 .. read'[c]
    BY <1>2
  <2> QED BY <1>3, <2>1, <2>2 DEF HoldsSome
<1> QED BY <1>1, <1>2, <1>3, ResultTypes DEF ResultInv

\* The result of an end is what was read, with the message of an error
LEMMA ResultFinish ==
    ASSUME TypeInv, ResultInv, \A ch \in Data : OrderInv(ch), NEW code, NEW err,
           Finish(code, err), err = buffer["stderr"] \/ err = Append(buffer["stderr"], Message)
    PROVE  /\ ResultInv'
           /\ Begins(result.out, result'.out) /\ Begins(result.err, result'.err)
<1> DEFINE out == buffer["stdout"]
<1>0. /\ out \in Seq(Int) /\ buffer["stderr"] \in Seq(Int) /\ Message \in Int
      /\ read["stdout"] \in Nat /\ read["stderr"] \in Nat
  BY ResultTypes DEF Message
<1>1. /\ UNCHANGED <<read, written>> /\ result'.out = out /\ result'.err = err
      /\ buffer'["stdout"] = out /\ buffer'["stderr"] = err
  <2>1. buffer' = [buffer EXCEPT !["exit"] = Append(@, code), !["stderr"] = err]
    BY DEF Finish
  <2>2. buffer \in [Channels -> Seq(Int)] /\ {"stdout", "stderr", "exit"} \subseteq Channels
    BY ResultTypes DEF Channels, Data
  <2>3. buffer'["stdout"] = out /\ buffer'["stderr"] = err
    BY <2>1, <2>2
  <2> QED BY <2>3 DEF Finish
<1>2. err \in Seq(Int)
  <2>1. Append(buffer["stderr"], Message) \in Seq(Int)
    BY <1>0
  <2> QED BY <1>0, <2>1
<1>3. Begins(out, out) /\ Begins(err, err)
  BY <1>0, <1>2, BeginsItself
<1>4. HoldsSome(out, read["stdout"])
  <2>1. HasOnce(out, read["stdout"]) /\ UpTo(out, read["stdout"])
    BY ResultTypes DEF OrderInv
  <2> QED BY <1>0, <2>1 DEF HoldsSome
<1>5. HoldsSome(err, read["stderr"])
  <2>1. HasOnce(buffer["stderr"], read["stderr"]) /\ UpTo(buffer["stderr"], read["stderr"])
    BY ResultTypes DEF OrderInv
  <2>2. HasOnce(Append(buffer["stderr"], Message), read["stderr"])
    BY <1>0, <2>1, OnceMessage
  <2>3. UpTo(Append(buffer["stderr"], Message), read["stderr"])
    <3>1. Message \in 0 .. read["stderr"]
      BY <1>0 DEF Message
    <3> QED BY <1>0, <2>1, <3>1, UpToAppend
  <2>4. HasOnce(err, read["stderr"]) /\ UpTo(err, read["stderr"])
    BY <2>1, <2>2, <2>3, Zenon
  <2> QED BY <1>0, <2>4 DEF HoldsSome
<1>6. Begins(result.out, out) /\ Begins(result.err, err)
  <2>1. /\ Begins(result.out, out) /\ Begins(result.err, buffer["stderr"])
        /\ result.err \in Seq(Int)
    BY ResultTypes DEF ResultInv
  <2>2. Begins(result.err, Append(buffer["stderr"], Message))
    BY <1>0, <2>1, BeginsAppend
  <2> QED BY <2>1, <2>2
<1>7. \A ch \in Data : read'[ch] <= written'[ch]
  BY <1>1 DEF ResultInv
<1> HIDE DEF out
<1> QED BY <1>1, <1>3, <1>4, <1>5, <1>6, <1>7 DEF ResultInv

LEMMA ResultStep ==
    ASSUME TypeInv, \A ch \in Data : OrderInv(ch), ResultInv, [Next]_vars
    PROVE  /\ ResultInv'
           /\ Begins(result.out, result'.out) /\ Begins(result.err, result'.err)
<1>1. ASSUME result' = result
      PROVE  Begins(result.out, result'.out) /\ Begins(result.err, result'.err)
  BY <1>1, ResultTypes, BeginsItself
<1>2. ASSUME UNCHANGED <<read, written, buffer, result>>
      PROVE  ResultInv'
  BY <1>2, ResultTypes, ResultQuiet
<1>3. ASSUME NEW ch \in Data, Write(ch) PROVE ResultInv' /\ result' = result
  <2>1. /\ written' = [written EXCEPT ![ch] = written[ch] + 1]
        /\ UNCHANGED <<read, buffer, result>>
    BY <1>3 DEF Write, ends
  <2>2. \A c \in Data : written[c] <= written'[c] /\ written'[c] \in Nat
    BY <2>1, ResultTypes
  <2> QED BY <2>1, <2>2, ResultQuiet
<1>4. ASSUME NEW ch \in Data, OnData(ch) PROVE ResultInv' /\ result' = result
  BY <1>4, ResultData DEF OnData, ends
<1>5. ASSUME NEW code \in Codes, OnExit(code)
      PROVE  ResultInv' /\ Begins(result.out, result'.out) /\ Begins(result.err, result'.err)
  BY <1>5, ResultFinish DEF OnExit
<1>6. CASE OnError
  <2>1. Finish(1, Append(buffer["stderr"], Message))
    BY <1>6 DEF OnError
  <2> QED BY <2>1, ResultFinish
<1>7. CASE Die \/ OnLateError \/ CallNext \/ CallsDone \/ ReplayNext \/ ReplayDone
  <2>1. UNCHANGED <<read, written, buffer, result>>
    BY <1>7 DEF Die, OnLateError, CallNext, CallsDone, ReplayNext, ReplayDone, child, ends
  <2> QED BY <1>1, <1>2, <2>1
<1>8. CASE Kill \/ Wait \/ Dispose \/ UNCHANGED vars
  <2>1. UNCHANGED <<read, written, buffer, result>>
    BY <1>8 DEF Kill, Wait, Dispose, vars, child, ends
  <2> QED BY <1>1, <1>2, <2>1
<1>9. ASSUME NEW ch \in Channels, NEW cb \in Callbacks, Subscribe(ch, cb) \/ Unsubscribe(ch, cb)
      PROVE  UNCHANGED <<read, written, buffer, result>>
  BY <1>9 DEF Subscribe, Unsubscribe, child, ends
<1> QED BY <1>1, <1>2, <1>3, <1>4, <1>5, <1>6, <1>7, <1>8, <1>9 DEF Next

LEMMA ResultInvariant == Spec => [](TypeInv /\ (\A ch \in Data : OrderInv(ch)) /\ ResultInv)
<1> DEFINE Inv == TypeInv /\ NoRepeats /\ \A ch \in Data : OrderInv(ch)
<1>1. Init => Inv /\ ResultInv
  BY TypeInit, NoRepeatsInit, OrderInit, ResultInit
<1>2. Inv /\ ResultInv /\ [Next]_vars => (Inv /\ ResultInv)'
  BY TypeStep, NoRepeatsStep, OrderStep, ResultStep
<1>3. Inv /\ ResultInv => TypeInv /\ (\A ch \in Data : OrderInv(ch)) /\ ResultInv
  OBVIOUS
<1> QED BY <1>1, <1>2, <1>3, PTL DEF Spec

\* The exit may be reported before the last output is read, so the result that
\* wait() resolves with may be short; but it holds each channel's chunks up to some
\* number, in order, each once, and none that was not written.
THEOREM ResultHasNoGap ==
    Spec => [](/\ HoldsSome(result.out, written["stdout"])
               /\ HoldsSome(result.err, written["stderr"]))
<1>1. TypeInv /\ ResultInv => /\ HoldsSome(result.out, written["stdout"])
                              /\ HoldsSome(result.err, written["stderr"])
  <2> SUFFICES ASSUME TypeInv, ResultInv
               PROVE  /\ HoldsSome(result.out, written["stdout"])
                      /\ HoldsSome(result.err, written["stderr"])
    OBVIOUS
  <2>1. ASSUME NEW ch \in Data PROVE 0 .. read[ch] \subseteq 0 .. written[ch]
    BY ResultTypes DEF ResultInv
  <2> QED BY <2>1, ResultTypes DEF ResultInv, HoldsSome
<1> QED BY <1>1, ResultInvariant, PTL

\* When an exit replaces the result of an error, the output of the new result
\* goes on where that of the old one ended.
THEOREM ResultOnlyGrows ==
    Spec => [][Begins(result.out, result'.out) /\ Begins(result.err, result'.err)]_vars
<1>1. TypeInv /\ (\A ch \in Data : OrderInv(ch)) /\ ResultInv /\ [Next]_vars
        => Begins(result.out, result'.out) /\ Begins(result.err, result'.err)
  BY ResultStep
<1> QED BY <1>1, ResultInvariant, PTL DEF Spec
=============================================================================
