--------------------------- MODULE LlmCalls_proofs ---------------------------
(***************************************************************************)
(* Proofs about LlmCalls, for every set of turns and models and all bounds *)
(* on pieces and calls.                                                    *)
(***************************************************************************)
EXTENDS LlmCalls, SequenceTheorems, TLAPS

\* A turn between the lock of its entry and the end of its load holds that
\* lock; only a turn under the pipeline lock talks to its model.
Locks ==
    /\ \A t \in Turns : pc[t] \in {"check", "load"} => holder[model[t]] = t
    /\ \A t \in Turns : pc[t] = "load" => model[t] \notin loaded
    /\ \A t \in Turns : pc[t] \in {"call", "stream", "join", "socket"} <=> pipe = t
    /\ \A t \in Turns : gen[t] \in {"running", "ending"} => pc[t] \in {"stream", "join"}

\* What a turn has taken and what its queue still holds are the pieces its
\* thread has made, in order, and the end mark once the thread is past it.
Handed(t) ==
    /\ \A i \in 1..Len(got[t]) : got[t][i] = i
    /\ \A i \in 1..Len(queue[t]) :
          queue[t][i] = IF Len(got[t]) + i <= made[t] THEN Len(got[t]) + i ELSE End
    /\ Len(got[t]) + Len(queue[t]) =
          IF gen[t] \in {"running", "raised"} THEN made[t] ELSE made[t] + 1

Streams ==
    /\ \A t \in Turns : pc[t] = "stream" => Handed(t)
    /\ \A t \in Turns :
          pc[t] = "join" => got[t] = [i \in 1..made[t] |-> i] /\ gen[t] \in {"none", "ending"}

LInv == TypeOK /\ Locks /\ LoadedOnce /\ Streams

\* One step of one turn or of its thread.
Step(t) ==
    \/ \E m \in Models : Ask(t, m)
    \/ Resolve(t) \/ Load(t) \/ LoadFails(t)
    \/ LockPipe(t) \/ Talk(t)
    \/ Stream(t) \/ GenerateRaises(t)

-----------------------------------------------------------------------------
\* Every step keeps the types.
LEMMA TypeStep ==
  ASSUME TypeOK, NEW t \in Turns, Step(t)
  PROVE  TypeOK'
<1> USE LlmAssumption DEF TypeOK, Labels, Models, Pieces, Goto, lockVars, callVars
<1>1. ASSUME NEW m \in Models, Ask(t, m) PROVE TypeOK'
  BY <1>1 DEF Ask
<1>2. CASE LockEntry(t)
  BY <1>2 DEF LockEntry
<1>13. CASE Loaded(t) \/ NotLoaded(t)
  BY <1>13 DEF Loaded, NotLoaded, Unlock
<1>3. CASE Load(t)
  BY <1>3, SMTT(40) DEF Load, Unlock
<1>4. CASE LoadFails(t)
  BY <1>4 DEF LoadFails, Unlock
<1>5. CASE LockPipe(t)
  BY <1>5 DEF LockPipe
<1>6. CASE Call(t)
  <2>1. <<>> \in Seq(0..MaxPieces) /\ calls[t] + 1 \in 0..MaxCalls
    BY <1>6 DEF Call
  <2>2. pc' \in [Turns -> Labels] /\ gen' \in [Turns -> {"none", "running", "ending", "raised"}]
    BY <1>6 DEF Call
  <2>3. /\ calls' \in [Turns -> 0..MaxCalls] /\ made' \in [Turns -> 0..MaxPieces]
        /\ queue' \in [Turns -> Pieces] /\ got' \in [Turns -> Pieces]
        /\ UNCHANGED <<model, holder, loaded, loads, pipe>>
    BY <1>6, <2>1 DEF Call
  <2> QED BY <2>2, <2>3
<1>7. CASE Finish(t) \/ RemoteFails(t)
  BY <1>7 DEF Finish, RemoteFails, Leave
<1>8. CASE Take(t)
  <2>1. queue[t] \in Seq(0..MaxPieces) /\ got[t] \in Seq(0..MaxPieces) /\ queue[t] # <<>>
    BY <1>8 DEF Take
  <2>2. Tail(queue[t]) \in Seq(0..MaxPieces) /\ Head(queue[t]) \in 0..MaxPieces
    BY <2>1
  <2>3. Append(got[t], Head(queue[t])) \in Seq(0..MaxPieces)
    BY <2>1, <2>2
  <2>4. pc' \in [Turns -> Labels] /\ got' \in [Turns -> Pieces]
    <3>1. CASE Head(queue[t]) # End
      <4>1. pc' = pc /\ got' = [got EXCEPT ![t] = Append(got[t], Head(queue[t]))]
        BY <3>1, <1>8 DEF Take
      <4> QED BY <4>1, <2>3
    <3>2. CASE Head(queue[t]) = End
      <4>1. pc' = [pc EXCEPT ![t] = "join"] /\ got' = got
        BY <3>2, <1>8 DEF Take
      <4> QED BY <4>1
    <3> QED BY <3>1, <3>2
  <2>5. queue' \in [Turns -> Pieces] /\ UNCHANGED <<model, holder, loaded, loads, pipe, gen, made, calls>>
    BY <1>8, <2>2 DEF Take
  <2> QED BY <2>4, <2>5
<1>9. CASE Join(t) \/ Answered(t)
  BY <1>9 DEF Join, Answered
<1>10. CASE Generate(t)
  <2>1. made[t] + 1 \in 0..MaxPieces /\ queue[t] \in Seq(0..MaxPieces)
    BY <1>10 DEF Generate
  <2>2. Append(queue[t], made[t] + 1) \in Seq(0..MaxPieces)
    BY <2>1
  <2> QED BY <1>10, <2>1, <2>2 DEF Generate
<1>11. CASE EndStream(t)
  BY <1>11 DEF EndStream, End
<1>12. CASE ThreadExits(t) \/ GenerateRaises(t)
  BY <1>12 DEF ThreadExits, GenerateRaises
<1> QED BY <1>1, <1>2, <1>3, <1>4, <1>5, <1>6, <1>7, <1>8, <1>9, <1>10, <1>11, <1>12, <1>13
        DEF Step, Talk, Stream, Resolve

\* Every step keeps the locks.
LEMMA LocksStep ==
  ASSUME TypeOK, Locks, NEW t \in Turns, Step(t)
  PROVE  Locks'
<1> USE LlmAssumption DEF TypeOK, Labels, Models, Goto, lockVars, callVars, Locks
<1>1. ASSUME NEW m \in Models, Ask(t, m) PROVE Locks'
  BY <1>1 DEF Ask
<1>2. CASE LockEntry(t)
  BY <1>2 DEF LockEntry
<1>13. CASE Loaded(t) \/ NotLoaded(t)
  BY <1>13 DEF Loaded, NotLoaded, Unlock
<1>3. CASE Load(t)
  BY <1>3 DEF Load, Unlock
<1>4. CASE LoadFails(t)
  BY <1>4 DEF LoadFails, Unlock
<1>5. CASE LockPipe(t)
  BY <1>5 DEF LockPipe
<1>6. CASE Call(t)
  BY <1>6 DEF Call
<1>7. CASE Finish(t) \/ RemoteFails(t)
  BY <1>7 DEF Finish, RemoteFails, Leave
<1>8. CASE Take(t)
  BY <1>8 DEF Take, End
<1>9. CASE Join(t) \/ Answered(t)
  BY <1>9 DEF Join, Answered
<1>10. CASE Generate(t)
  BY <1>10 DEF Generate
<1>11. CASE EndStream(t)
  BY <1>11 DEF EndStream, End
<1>12. CASE ThreadExits(t) \/ GenerateRaises(t)
  BY <1>12 DEF ThreadExits, GenerateRaises
<1> QED BY <1>1, <1>2, <1>3, <1>4, <1>5, <1>6, <1>7, <1>8, <1>9, <1>10, <1>11, <1>12, <1>13
        DEF Step, Talk, Stream, Resolve

\* Only Load loads, and it loads what is not loaded.
LEMMA OnceStep ==
  ASSUME TypeOK, Locks, LoadedOnce, NEW t \in Turns, Step(t)
  PROVE  LoadedOnce'
<1>1. CASE Load(t)
  <2>1. /\ model[t] \in Models /\ model[t] \notin loaded
        /\ loaded' = loaded \cup {model[t]}
        /\ loads' = [loads EXCEPT ![model[t]] = @ + 1]
    BY <1>1 DEF Load, Locks, TypeOK
  <2> QED BY <2>1 DEF TypeOK, LoadedOnce
<1>2. CASE UNCHANGED <<loaded, loads>>
  BY <1>2 DEF LoadedOnce
<1> QED BY <1>1, <1>2 DEF Step, Resolve, Talk, Stream, Ask, LockEntry, Loaded, NotLoaded,
        LoadFails, LockPipe, Call, Finish, Leave, Take, Join, Answered, RemoteFails,
        Generate, EndStream, ThreadExits, GenerateRaises, lockVars

\* A turn is not touched by the steps of another one.
LEMMA Frame ==
  ASSUME TypeOK, NEW t \in Turns, Step(t), NEW u \in Turns, u # t
  PROVE  /\ pc'[u] = pc[u] /\ gen'[u] = gen[u] /\ made'[u] = made[u]
         /\ queue'[u] = queue[u] /\ got'[u] = got[u]
BY DEF TypeOK, Goto, lockVars, callVars, Step, Resolve, Talk, Stream, Ask, LockEntry, Loaded,
       NotLoaded, Load, LoadFails, LockPipe, Call, Finish, Leave, Take, Join, Answered,
       RemoteFails, Generate, EndStream, ThreadExits, GenerateRaises

\* Every step keeps the streams.
LEMMA StreamsStep ==
  ASSUME TypeOK, Locks, Streams, NEW t \in Turns, Step(t)
  PROVE  Streams'
<1>1. ASSUME NEW u \in Turns, u # t
      PROVE  /\ (pc[u] = "stream" => Handed(u))'
             /\ (pc[u] = "join" => got[u] = [i \in 1..made[u] |-> i] /\ gen[u] \in {"none", "ending"})'
  <2>1. /\ pc'[u] = pc[u] /\ gen'[u] = gen[u] /\ made'[u] = made[u]
        /\ queue'[u] = queue[u] /\ got'[u] = got[u]
    BY <1>1, Frame
  <2> QED BY <2>1 DEF Streams, Handed
<1>2. /\ (pc[t] = "stream" => Handed(t))'
      /\ (pc[t] = "join" => got[t] = [i \in 1..made[t] |-> i] /\ gen[t] \in {"none", "ending"})'
  <2> USE LlmAssumption DEF TypeOK, Goto, lockVars, callVars
  <2>1. CASE Call(t)
    BY <2>1 DEF Call, Handed
  <2>2. CASE Take(t)
    <3>1. pc[t] = "stream" /\ Handed(t) /\ queue[t] # <<>>
      BY <2>2 DEF Take, Streams
    <3>2. /\ got[t] \in Seq(0..MaxPieces) /\ queue[t] \in Seq(0..MaxPieces) /\ made[t] \in Nat
          /\ Len(queue[t]) > 0 /\ Head(queue[t]) = queue[t][1]
          /\ Len(queue[t]) \in Nat /\ Len(got[t]) \in Nat
      BY <3>1 DEF Pieces
    <3>3. /\ queue'[t] = Tail(queue[t]) /\ made'[t] = made[t] /\ gen'[t] = gen[t]
      BY <2>2 DEF Take
    <3>6. 1 \in 1..Len(queue[t])
      BY <3>2
    <3>7. Head(queue[t]) = IF Len(got[t]) + 1 <= made[t] THEN Len(got[t]) + 1 ELSE End
      BY <3>1, <3>2, <3>6 DEF Handed
    <3>8. Len(got[t]) + Len(queue[t]) =
            IF gen[t] \in {"running", "raised"} THEN made[t] ELSE made[t] + 1
      BY <3>1 DEF Handed
    <3>4. CASE Head(queue[t]) # End
      <4>1. pc'[t] = "stream" /\ got'[t] = Append(got[t], Head(queue[t]))
        BY <3>4, <2>2, <3>1 DEF Take
      <4>2. Head(queue[t]) = Len(got[t]) + 1
        BY <3>7, <3>4
      <4>3. /\ Len(got'[t]) = Len(got[t]) + 1
            /\ \A i \in 1..Len(got'[t]) : got'[t][i] = i
        BY <4>1, <4>2, <3>1, <3>2 DEF Handed
      <4>4. /\ Len(queue'[t]) = Len(queue[t]) - 1
            /\ \A i \in 1..Len(queue'[t]) : queue'[t][i] = queue[t][i + 1]
        BY <3>2, <3>3
      <4>5. ASSUME NEW i \in 1..Len(queue'[t])
            PROVE  queue'[t][i] = IF Len(got'[t]) + i <= made'[t] THEN Len(got'[t]) + i ELSE End
        <5>4. Len(queue'[t]) = Len(queue[t]) - 1 /\ Len(queue[t]) \in Nat
          BY <4>4, <3>2
        <5>5. i \in 1..(Len(queue[t]) - 1)
          BY <4>5, <5>4
        <5>1. i + 1 \in 1..Len(queue[t]) /\ i \in Nat
          BY ONLY <5>4, <5>5
        <5>2. queue[t][i + 1] = IF Len(got[t]) + (i + 1) <= made[t] THEN Len(got[t]) + (i + 1) ELSE End
          BY <5>1, <3>1 DEF Handed
        <5>3. Len(got'[t]) + i = Len(got[t]) + (i + 1) /\ queue'[t][i] = queue[t][i + 1]
          BY <5>1, <4>3, <4>4, <3>2
        <5> QED BY <5>2, <5>3, <3>3
      <4>6. Len(got'[t]) + Len(queue'[t]) =
               IF gen'[t] \in {"running", "raised"} THEN made'[t] ELSE made'[t] + 1
        BY <4>3, <4>4, <3>1, <3>2, <3>3 DEF Handed
      <4> QED BY <4>1, <4>3, <4>5, <4>6 DEF Handed
    <3>5. CASE Head(queue[t]) = End
      <4>1. pc'[t] = "join" /\ got'[t] = got[t]
        BY <3>5, <2>2, <3>1 DEF Take
      <4>2. Len(got[t]) = made[t]
        BY <3>5, <3>7, <3>8, <3>2 DEF End
      <4>3. got[t] = [i \in 1..made[t] |-> i]
        BY <4>2, <3>1, <3>2 DEF Handed
      <4>4. gen[t] \in {"none", "ending"}
        BY <4>2, <3>8, <3>2
      <4> QED BY <4>1, <4>3, <4>4, <3>3
    <3> QED BY <3>4, <3>5
  <2>3. CASE Generate(t)
    <3>1. pc[t] \in {"stream", "join"} /\ pc'[t] = pc[t] /\ got'[t] = got[t] /\ gen'[t] = gen[t]
      BY <2>3 DEF Generate, Locks
    <3>2. /\ got[t] \in Seq(0..MaxPieces) /\ queue[t] \in Seq(0..MaxPieces) /\ made[t] \in Nat
          /\ Len(queue[t]) \in Nat /\ Len(got[t]) \in Nat
      BY DEF Pieces
    <3>3. /\ made'[t] = made[t] + 1 /\ queue'[t] = Append(queue[t], made[t] + 1)
          /\ gen[t] = "running"
      BY <2>3 DEF Generate
    <3>4. pc[t] = "stream" /\ Handed(t) /\ pc'[t] = "stream"
      BY <3>1, <3>3 DEF Streams
    <3>5. Len(got[t]) + Len(queue[t]) = made[t]
      BY <3>3, <3>4 DEF Handed
    <3>6. Len(queue'[t]) = Len(queue[t]) + 1
      BY <3>2, <3>3
    <3>7. ASSUME NEW i \in 1..Len(queue'[t])
          PROVE  queue'[t][i] = IF Len(got[t]) + i <= made'[t] THEN Len(got[t]) + i ELSE End
      <4>1. Len(got[t]) + i <= made'[t] /\ i \in Nat
        BY <3>2, <3>3, <3>5, <3>6
      <4>2. CASE i = Len(queue[t]) + 1
        BY <4>2, <4>1, <3>2, <3>3, <3>5
      <4>3. CASE i # Len(queue[t]) + 1
        <5>1. i \in 1..Len(queue[t]) /\ queue'[t][i] = queue[t][i]
          BY <4>3, <3>2, <3>3, <3>6
        <5>2. queue[t][i] = IF Len(got[t]) + i <= made[t] THEN Len(got[t]) + i ELSE End
          BY <5>1, <3>4 DEF Handed
        <5>3. Len(got[t]) + i <= made[t]
          BY <5>1, <3>5, <3>2
        <5> QED BY <5>1, <5>2, <5>3, <4>1
      <4> QED BY <4>2, <4>3
    <3>8. Len(got[t]) + Len(queue'[t]) = made'[t]
      BY <3>2, <3>3, <3>5, <3>6
    <3> QED BY <3>1, <3>3, <3>4, <3>7, <3>8 DEF Handed
  <2>4. CASE EndStream(t)
    BY <2>4 DEF EndStream, Streams, Handed
  <2>5. CASE ThreadExits(t)
    BY <2>5 DEF ThreadExits, Streams, Handed
  <2>6. CASE GenerateRaises(t)
    BY <2>6 DEF GenerateRaises, Streams, Handed
  <2>7. CASE pc'[t] \notin {"stream", "join"}
    BY <2>7
  <2> QED BY <2>1, <2>2, <2>3, <2>4, <2>5, <2>6, <2>7
          DEF Step, Resolve, Talk, Stream, Ask, LockEntry, Loaded, NotLoaded, Load,
              LoadFails, LockPipe, Finish, Leave, Join, Answered, RemoteFails
<1> QED BY <1>1, <1>2 DEF Streams

-----------------------------------------------------------------------------
\* The invariant holds of every reachable state.
THEOREM LInvHolds == Spec => []LInv
<1>1. Init => LInv
  <2> SUFFICES ASSUME Init PROVE LInv
    OBVIOUS
  <2>1. TypeOK
    BY LlmAssumption DEF Init, TypeOK, Labels, Models, Pieces
  <2>2. Locks /\ LoadedOnce /\ Streams
    BY LlmAssumption DEF Init, Locks, LoadedOnce, Streams, Models
  <2> QED BY <2>1, <2>2 DEF LInv
<1>2. LInv /\ [Next]_vars => LInv'
  <2> SUFFICES ASSUME LInv, [Next]_vars PROVE LInv'
    OBVIOUS
  <2>1. ASSUME NEW t \in Turns, Step(t) PROVE LInv'
    BY <2>1, TypeStep, LocksStep, OnceStep, StreamsStep DEF LInv
  <2>2. CASE UNCHANGED vars
    BY <2>2 DEF vars, lockVars, callVars, LInv, TypeOK, Locks, LoadedOnce, Streams, Handed
  <2> QED BY <2>1, <2>2 DEF Next, Step
<1> QED BY <1>1, <1>2, PTL DEF Spec

\* LlmCalls keeps its types.
THEOREM TypeHolds == Spec => []TypeOK
<1>1. LInv => TypeOK
  BY DEF LInv
<1> QED BY <1>1, LInvHolds, PTL

\* resolve never loads an entry twice, for any number of turns and models and
\* after any number of failed loads.
THEOREM LoadedOnceHolds == Spec => []LoadedOnce
<1>1. LInv => LoadedOnce
  BY DEF LInv
<1> QED BY <1>1, LInvHolds, PTL

\* A generation thread works only for the holder of the pipeline lock.
THEOREM OneGenerationHolds == Spec => []OneGeneration
<1>1. LInv => OneGeneration
  BY DEF LInv, Locks, OneGeneration
<1> QED BY <1>1, LInvHolds, PTL

\* The queue between generate and its turn loses, repeats and reorders nothing.
THEOREM ReplyWholeHolds == Spec => []ReplyWhole
<1>1. LInv => ReplyWhole
  BY DEF LInv, Streams, ReplyWhole
<1> QED BY <1>1, LInvHolds, PTL
=============================================================================
