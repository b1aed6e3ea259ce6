----------------------- MODULE VoiceServerSafety_proofs -----------------------
(***************************************************************************)
(* The safety theorems of VoiceServer: mutual exclusion of saves, where a  *)
(* torn session.json comes from, and the finality of a completed delete.   *)
(* They rest on the inductive invariant IInv of VoiceServer_proofs.        *)
(***************************************************************************)
EXTENDS VoiceServer_proofs

\* A step of thread t outside _save: it leaves the lock alone and tears no file.
OutsideStep(t) ==
    /\ pc[t] \notin LockedPCs
    /\ \E p \in PCs \ LockedPCs : pc' = [pc EXCEPT ![t] = p]
    /\ \E z \in Sids \cup {NoSid} : sid' = [sid EXCEPT ![t] = z]
    /\ UNCHANGED <<lock, crashes>>
    /\ \A s \in Sids : json'[s].state = "torn" => json[s].state = "torn"

\* A step of thread t inside _save, or into it.
SaveStep(t) ==
    /\ Acquire(t) \/ Mkdir(t) \/ OpenJson(t) \/ WriteJson(t)
    /\ UNCHANGED crashes

USE DEF PCs, HandlerPCs, SavePCs, LockedPCs, GetPCs, DeletePCs, Returned


\* A handler's answer is a step outside _save.
LEMMA RespondOutside ==
  ASSUME IInv, NEW t \in Threads, NEW code, Respond(t, code), pc[t] \notin LockedPCs,
         UNCHANGED <<lock, json, crashes>>
  PROVE  OutsideStep(t)
BY DEF Respond, Serve, OutsideStep

\* So is the arrival of a request.
LEMMA DispatchOutside ==
  ASSUME IInv, NEW t \in Threads, NEW k, NEW p \in PCs \ LockedPCs, NEW s \in Sids \cup {NoSid},
         NEW o, Dispatch(t, k, p, s, o), UNCHANGED <<lock, json, crashes>>
  PROVE  OutsideStep(t)
BY DEF Dispatch, Serve, OutsideStep

\* And a step that goes on with the same session.
LEMMA GotoOutside ==
  ASSUME IInv, NEW t \in Threads, NEW p \in PCs \ LockedPCs,
         pc' = [pc EXCEPT ![t] = p], UNCHANGED sid, pc[t] \notin LockedPCs,
         UNCHANGED <<lock, crashes>>,
         \A s \in Sids : json'[s].state = "torn" => json[s].state = "torn"
  PROVE  OutsideStep(t)
<1>1. sid' = [sid EXCEPT ![t] = sid[t]] /\ sid[t] \in Sids \cup {NoSid}
  BY DEF IInv, TypeOK, StoreTypeOK, ControlTypeOK
<1> QED BY <1>1 DEF OutsideStep

\* Every step of the store is one of the four of _save or a step outside it.
LEMMA StoreOutside ==
  ASSUME IInv, NEW t \in Threads, Store(t)
  PROVE  SaveStep(t) \/ OutsideStep(t)
<1>0. UNCHANGED crashes /\ ControlTypeOK /\ DataTypeOK
  BY DEF Store, history, IInv, TypeOK, StoreTypeOK
<1>1. ASSUME Lookup(t) PROVE OutsideStep(t)
  <2>1. PICK p \in PCs \ LockedPCs : pc' = [pc EXCEPT ![t] = p]
    BY <1>1 DEF Lookup, GotoWith
  <2>2. UNCHANGED <<sid, lock, json>> /\ pc[t] \notin LockedPCs
    BY <1>1 DEF Lookup, GotoWith
  <2> QED BY <1>0, <2>1, <2>2, GotoOutside
<1>2. ASSUME IsFile(t) PROVE OutsideStep(t)
  <2>1. PICK p \in PCs \ LockedPCs : pc' = [pc EXCEPT ![t] = p]
    BY <1>2 DEF IsFile, Goto, request
  <2>2. UNCHANGED <<sid, lock, json>> /\ pc[t] \notin LockedPCs
    BY <1>2 DEF IsFile, Goto, request
  <2> QED BY <1>0, <2>1, <2>2, GotoOutside
<1>3. ASSUME ReadJson(t) PROVE OutsideStep(t)
  <2>1. PICK p \in PCs \ LockedPCs : pc' = [pc EXCEPT ![t] = p]
    BY <1>3 DEF ReadJson, Goto, GotoWith, request
  <2>2. UNCHANGED <<sid, lock, json>> /\ pc[t] \notin LockedPCs
    BY <1>3 DEF ReadJson, Goto, GotoWith, request
  <2> QED BY <1>0, <2>1, <2>2, GotoOutside
<1>4. ASSUME Install(t) PROVE OutsideStep(t)
  <2>1. PICK p \in PCs \ LockedPCs : pc' = [pc EXCEPT ![t] = p]
    BY <1>4 DEF Install, Goto, request
  <2>2. UNCHANGED <<sid, lock, json>> /\ pc[t] \notin LockedPCs
    BY <1>4 DEF Install, Goto, request
  <2> QED BY <1>0, <2>1, <2>2, GotoOutside
<1>5. ASSUME Pop(t) PROVE OutsideStep(t)
  <2>1. PICK p \in PCs \ LockedPCs : pc' = [pc EXCEPT ![t] = p]
    BY <1>5 DEF Pop, Goto, request
  <2>2. UNCHANGED <<sid, lock, json>> /\ pc[t] \notin LockedPCs
    BY <1>5 DEF Pop, Goto, request
  <2> QED BY <1>0, <2>1, <2>2, GotoOutside
<1>6. ASSUME Glob(t) PROVE OutsideStep(t)
  <2>1. PICK p \in PCs \ LockedPCs : pc' = [pc EXCEPT ![t] = p]
    BY <1>6 DEF Glob, Goto, GotoFiles, request
  <2>2. UNCHANGED <<sid, lock, json>> /\ pc[t] \notin LockedPCs
    BY <1>6 DEF Glob, Goto, GotoFiles, request
  <2> QED BY <1>0, <2>1, <2>2, GotoOutside
<1>7. ASSUME CheckFile(t) PROVE OutsideStep(t)
  <2>1. PICK p \in PCs \ LockedPCs : pc' = [pc EXCEPT ![t] = p]
    BY <1>7 DEF CheckFile, Goto, GotoFiles, request
  <2>2. UNCHANGED <<sid, lock, json>> /\ pc[t] \notin LockedPCs
    BY <1>7 DEF CheckFile, Goto, GotoFiles, request
  <2> QED BY <1>0, <2>1, <2>2, GotoOutside
<1>8. ASSUME Rmdir(t) PROVE OutsideStep(t)
  <2>1. PICK p \in PCs \ LockedPCs : pc' = [pc EXCEPT ![t] = p]
    BY <1>8 DEF Rmdir, Goto, request
  <2>2. UNCHANGED <<sid, lock, json>> /\ pc[t] \notin LockedPCs
    BY <1>8 DEF Rmdir, Goto, request
  <2> QED BY <1>0, <2>1, <2>2, GotoOutside
<1>9. ASSUME Unlink(t) PROVE OutsideStep(t)
  <2>1. PICK p \in PCs \ LockedPCs : pc' = [pc EXCEPT ![t] = p]
    BY <1>9 DEF Unlink, Goto, GotoFiles
  <2>2. UNCHANGED <<sid, lock>> /\ pc[t] \notin LockedPCs
    BY <1>9 DEF Unlink, Goto, GotoFiles, request
  <2>3. \A s \in Sids : json'[s].state = "torn" => json[s].state = "torn"
    <3>1. json' = json \/ json' = [json EXCEPT ![sid[t]] = MissingFile]
      BY <1>9 DEF Unlink
    <3>2. MissingFile.state # "torn"
      BY DEF MissingFile
    <3>3. json \in [Sids -> JsonFile]
      BY <1>0 DEF DataTypeOK
    <3> QED BY <3>1, <3>2, <3>3
  <2> QED BY <1>0, <2>1, <2>2, <2>3, GotoOutside
<1> QED BY <1>0, <1>1, <1>2, <1>3, <1>4, <1>5, <1>6, <1>7, <1>8, <1>9 DEF Store, StoreStep, SaveStep

\* The steps of the system, seen from _save.
LEMMA NextOutside ==
  ASSUME IInv, Next
  PROVE  \/ \E t \in Threads : SaveStep(t)
         \/ \E t \in Threads : OutsideStep(t)
         \/ Crash
<1> USE StoreAssumption, ServerAssumption
<1>0. /\ ControlTypeOK /\ DataTypeOK /\ Loop \in Threads /\ Workers \subseteq Threads
      /\ known \subseteq Sids
  BY DEF IInv, TypeOK, StoreTypeOK, ServerTypeOK
<1>1. ASSUME NEW t \in Threads, Store(t)
      PROVE  SaveStep(t) \/ OutsideStep(t)
  BY <1>1, StoreOutside
<1>2. ASSUME NEW t \in Threads, NotFound(t) \/ Raised(t) PROVE OutsideStep(t)
  BY <1>2, RespondOutside DEF NotFound, Raised, history
<1>3. ASSUME Arrival PROVE \E t \in Threads : OutsideStep(t)
  BY <1>0, <1>3, DispatchOutside DEF Arrival, StartList, StartCreate, StartDelete, StartGet, StartTurn, history
<1>4. ASSUME NEW w \in Workers, WorkerStep(w) PROVE OutsideStep(w)
  <2>1. CASE IterDir(w)
    BY <1>0, <2>1, GotoOutside DEF IterDir, history
  <2>2. CASE ListNext(w)
    <3>1. PICK s \in Sids : sid' = [sid EXCEPT ![w] = s]
      BY <1>0, <2>2 DEF ListNext, ControlTypeOK
    <3>2. PICK p \in PCs \ LockedPCs : pc' = [pc EXCEPT ![w] = p]
      BY <2>2 DEF ListNext
    <3> QED BY <2>2, <3>1, <3>2 DEF ListNext, history, OutsideStep
  <2>3. CASE ListGot(w)
    BY <1>0, <2>3, GotoOutside DEF ListGot, Goto, request
  <2>4. CASE ListDone(w) \/ GetDone(w) \/ CreateDone(w) \/ DeleteDone(w)
    BY <1>0, <2>4, RespondOutside DEF ListDone, GetDone, CreateDone, DeleteDone, history
  <2>5. CASE AudioDone(w)
    BY <1>0, <2>5, RespondOutside DEF AudioDone, history
  <2> QED BY <1>4, <2>1, <2>2, <2>3, <2>4, <2>5 DEF WorkerStep
<1>5. ASSUME TurnStep PROVE OutsideStep(Loop)
  <2>1. CASE RefuseBlank \/ PipelineFails \/ TurnDone
    BY <1>0, <2>1, RespondOutside DEF RefuseBlank, PipelineFails, TurnDone, history
  <2>2. CASE Upload \/ Transcode \/ Speak
    <3>1. /\ pc[Loop] \in {"upload", "transcode", "speak"} /\ UNCHANGED <<lock, json, crashes>>
          /\ \E k \in {"user", "reply"}, p \in PCs \ LockedPCs : WriteAudio(k, p)
      BY <2>2 DEF Upload, Transcode, Speak, history
    <3>2. CASE Respond(Loop, "error")
      BY <1>0, <3>1, <3>2, RespondOutside
    <3>3. CASE \E p \in PCs \ LockedPCs : Goto(Loop, p)
      BY <1>0, <3>1, <3>3, GotoOutside DEF Goto, request
    <3> QED BY <3>1, <3>2, <3>3 DEF WriteAudio
  <2>3. CASE Prepare \/ MakeDir \/ Generate \/ AppendTurn
    <3>1. PICK p \in PCs \ LockedPCs : Goto(Loop, p)
      BY <2>3 DEF Prepare, MakeDir, Generate, AppendTurn
    <3>2. pc[Loop] \notin LockedPCs /\ UNCHANGED <<lock, json, crashes>>
      BY <2>3 DEF Prepare, MakeDir, Generate, AppendTurn, history
    <3> QED BY <1>0, <3>1, <3>2, GotoOutside DEF Goto, request
  <2>4. CASE Remember
    <3>1. pc' = [pc EXCEPT ![Loop] = "run"] /\ UNCHANGED <<sid, lock, json, crashes>> /\ pc[Loop] = "run"
      BY <1>0, <2>4 DEF Remember, history, request, ControlTypeOK
    <3> QED BY <1>0, <3>1, GotoOutside
  <2> QED BY <1>5, <2>1, <2>2, <2>3, <2>4 DEF TurnStep
<1> QED BY <1>0, <1>1, <1>2, <1>3, <1>4, <1>5 DEF Next

-----------------------------------------------------------------------------
\* Mutual exclusion is kept by every step.
LEMMA NextExclude == IInv /\ SavesExclude /\ [Next]_vars => SavesExclude'
<1> SUFFICES ASSUME IInv, SavesExclude, [Next]_vars PROVE SavesExclude'
  OBVIOUS
<1> USE StoreAssumption
<1>0. ControlTypeOK /\ lock \in Threads \cup {NoThread}
  BY DEF IInv, TypeOK, StoreTypeOK, DataTypeOK
<1>1. ASSUME NEW t \in Threads, OutsideStep(t) PROVE SavesExclude'
  BY <1>0, <1>1 DEF OutsideStep, SavesExclude, ControlTypeOK
<1>2. ASSUME NEW t \in Threads, Acquire(t) PROVE SavesExclude'
  BY <1>0, <1>2 DEF Acquire, Goto, SavesExclude, ControlTypeOK
<1>3. ASSUME NEW t \in Threads, Mkdir(t) PROVE SavesExclude'
  BY <1>0, <1>3 DEF Mkdir, Goto, SavesExclude, ControlTypeOK
<1>4. ASSUME NEW t \in Threads, OpenJson(t) PROVE SavesExclude'
  BY <1>0, <1>4 DEF OpenJson, Goto, SavesExclude, ControlTypeOK
<1>5. ASSUME NEW t \in Threads, WriteJson(t) PROVE SavesExclude'
  BY <1>0, <1>5 DEF WriteJson, Goto, SavesExclude, ControlTypeOK
<1>6. CASE Crash
  BY <1>6 DEF Crash, StoreCrash, SavesExclude
<1>7. CASE UNCHANGED vars
  BY <1>7 DEF vars, SavesExclude
<1> QED BY <1>1, <1>2, <1>3, <1>4, <1>5, <1>6, <1>7, NextOutside DEF SaveStep

\* SessionStore._lock does its job: a thread is inside _save exactly while it
\* holds the lock, so no two threads write a session.json at the same time.
THEOREM MutualExclusion == Spec => []SavesExclude
<1>1. Init => SavesExclude
  BY StoreAssumption DEF Init, StoreInit, SavesExclude
<1>2. IInv /\ SavesExclude /\ [Next]_vars => SavesExclude'
  BY NextExclude
<1> QED BY <1>1, <1>2, InvariantHolds, PTL DEF Spec

-----------------------------------------------------------------------------
\* A torn file is one that is being written, after every step.
LEMMA NextTorn == IInv /\ TornOnlyWhileWriting /\ [Next]_vars => TornOnlyWhileWriting'
<1> SUFFICES ASSUME IInv, TornOnlyWhileWriting, [Next]_vars PROVE TornOnlyWhileWriting'
  OBVIOUS
<1>0. ControlTypeOK /\ DataTypeOK /\ crashes \in Nat
  BY ServerAssumption DEF IInv, TypeOK, StoreTypeOK, ServerTypeOK
<1>1. ASSUME NEW t \in Threads, OutsideStep(t) PROVE TornOnlyWhileWriting'
  BY <1>0, <1>1 DEF OutsideStep, TornOnlyWhileWriting, ControlTypeOK
<1>2. ASSUME NEW t \in Threads, SaveStep(t) PROVE TornOnlyWhileWriting'
  <2>1. CASE Acquire(t) \/ Mkdir(t)
    BY <1>0, <1>2, <2>1 DEF SaveStep, Acquire, Mkdir, Goto, request, TornOnlyWhileWriting, ControlTypeOK
  <2>2. CASE OpenJson(t)
    BY <1>0, <1>2, <2>2 DEF SaveStep, OpenJson, Goto, request, TornOnlyWhileWriting, ControlTypeOK, DataTypeOK
  <2>3. CASE WriteJson(t)
    BY <1>0, <1>2, <2>3 DEF SaveStep, WriteJson, ToJson, Goto, request, TornOnlyWhileWriting,
                            ControlTypeOK, DataTypeOK
  <2> QED BY <1>2, <2>1, <2>2, <2>3 DEF SaveStep
<1>6. CASE Crash
  BY <1>0, <1>6 DEF Crash, TornOnlyWhileWriting
<1>7. CASE UNCHANGED vars
  BY <1>7 DEF vars, history, request, TornOnlyWhileWriting
<1> QED BY <1>1, <1>2, <1>6, <1>7, NextOutside

\* Without a death of the process a reader finds a half-written session.json
\* only while some thread is between write_text's truncation and its write.
THEOREM TornFilesExplained == Spec => []TornOnlyWhileWriting
<1>1. Init => TornOnlyWhileWriting
  BY DEF Init, StoreInit, MissingFile, TornOnlyWhileWriting
<1>2. IInv /\ TornOnlyWhileWriting /\ [Next]_vars => TornOnlyWhileWriting'
  BY NextTorn
<1> QED BY <1>1, <1>2, InvariantHolds, PTL DEF Spec


-----------------------------------------------------------------------------
\* What a step must do to bring a session back: change its part of the store, or
\* take a thread past get for it.
LEMMA GoneFrame ==
  ASSUME IInv, NEW s \in Sids, Gone(s), NEW t \in Threads,
         NEW p, NEW z, pc' = [pc EXCEPT ![t] = p], sid' = [sid EXCEPT ![t] = z],
         z = s => p \notin HoldingPCs,
         issued \subseteq issued', cache'[s] = cache[s], s \notin dirs',
         json'[s] = json[s], audio'[s] = audio[s]
  PROVE  Gone(s)'
BY DEF Gone, IInv, TypeOK, StoreTypeOK, ControlTypeOK

\* The same for a thread that keeps its session.
LEMMA GoneGoto ==
  ASSUME IInv, NEW s \in Sids, Gone(s), NEW t \in Threads,
         NEW p, pc' = [pc EXCEPT ![t] = p], UNCHANGED sid,
         sid[t] = s => p \notin HoldingPCs,
         issued \subseteq issued', cache'[s] = cache[s], s \notin dirs',
         json'[s] = json[s], audio'[s] = audio[s]
  PROVE  Gone(s)'
<1>1. sid' = [sid EXCEPT ![t] = sid[t]]
  BY DEF IInv, TypeOK, StoreTypeOK, ControlTypeOK
<1> QED BY <1>1, GoneFrame

\* The same for an answer.
LEMMA GoneRespond ==
  ASSUME IInv, NEW s \in Sids, Gone(s), NEW t \in Threads, NEW code, Respond(t, code),
         UNCHANGED <<issued, cache, json, audio>>, s \notin dirs'
  PROVE  Gone(s)'
BY StoreAssumption, GoneFrame DEF Respond, Serve

\* A step of the store does not bring a session back.
LEMMA StoreGone ==
  ASSUME IInv, NEW s \in Sids, Gone(s), NEW t \in Threads, Store(t)
  PROVE  Gone(s)'
<1>0. /\ ControlTypeOK /\ DataTypeOK /\ UNCHANGED issued
      /\ cache[s] = 0 /\ s \notin dirs /\ json[s].state = "missing" /\ audio[s] = {}
      /\ sid[t] = s => pc[t] \notin HoldingPCs
  BY DEF Store, history, IInv, TypeOK, StoreTypeOK, Gone, NoObj
<1>1. CASE Lookup(t)
  <2>1. PICK p : pc' = [pc EXCEPT ![t] = p] /\ (sid[t] = s => p \notin HoldingPCs)
    <3>1. CASE cache[sid[t]] = NoObj
      <4>1. pc' = [pc EXCEPT ![t] = "isfile"]
        BY <1>1, <3>1 DEF Lookup, GotoWith, NoObj
      <4>2. "isfile" \notin HoldingPCs
        BY DEF HoldingPCs
      <4> QED BY <4>1, <4>2
    <3>2. CASE ~(cache[sid[t]] = NoObj)
      <4>1. pc' = [pc EXCEPT ![t] = "found"] /\ sid[t] # s
        BY <1>0, <1>1, <3>2 DEF Lookup, GotoWith, NoObj
      <4> QED BY <4>1
    <3> QED BY <3>1, <3>2
  <2>2. UNCHANGED sid /\ s \notin dirs'
    BY <1>0, <1>1 DEF Lookup, GotoWith, HoldingPCs
  <2>3. cache'[s] = cache[s] /\ json'[s] = json[s] /\ audio'[s] = audio[s]
    BY <1>0, <1>1 DEF Lookup, DataTypeOK, HoldingPCs, NoObj
  <2> QED BY <1>0, <2>1, <2>2, <2>3, GoneGoto
<1>2. CASE IsFile(t)
  <2>1. PICK p : pc' = [pc EXCEPT ![t] = p] /\ (sid[t] = s => p \notin HoldingPCs)
    <3>1. CASE json[sid[t]].state = "missing"
      <4>1. pc' = [pc EXCEPT ![t] = "absent"]
        BY <1>2, <3>1 DEF IsFile, Goto
      <4>2. "absent" \notin HoldingPCs
        BY DEF HoldingPCs
      <4> QED BY <4>1, <4>2
    <3>2. CASE ~(json[sid[t]].state = "missing")
      <4>1. pc' = [pc EXCEPT ![t] = "read"] /\ sid[t] # s
        BY <1>0, <1>2, <3>2 DEF IsFile, Goto
      <4> QED BY <4>1
    <3> QED BY <3>1, <3>2
  <2>2. UNCHANGED sid /\ s \notin dirs'
    BY <1>0, <1>2 DEF IsFile, Goto, request, HoldingPCs
  <2>3. cache'[s] = cache[s] /\ json'[s] = json[s] /\ audio'[s] = audio[s]
    BY <1>0, <1>2 DEF IsFile, DataTypeOK, HoldingPCs
  <2> QED BY <1>0, <2>1, <2>2, <2>3, GoneGoto
<1>3. CASE ReadJson(t)
  <2>1. PICK p : pc' = [pc EXCEPT ![t] = p] /\ (sid[t] = s => p \notin HoldingPCs)
    BY <1>0, <1>3, SMTT(40) DEF ReadJson, Goto, GotoWith, request, HoldingPCs
  <2>2. UNCHANGED sid /\ s \notin dirs'
    BY <1>0, <1>3 DEF ReadJson, Goto, GotoWith, request, HoldingPCs
  <2>3. cache'[s] = cache[s] /\ json'[s] = json[s] /\ audio'[s] = audio[s]
    BY <1>0, <1>3 DEF ReadJson, DataTypeOK, HoldingPCs
  <2> QED BY <1>0, <2>1, <2>2, <2>3, GoneGoto
<1>4. CASE Install(t)
  <2>1. PICK p : pc' = [pc EXCEPT ![t] = p] /\ (sid[t] = s => p \notin HoldingPCs)
    BY <1>0, <1>4 DEF Install, Goto, request, HoldingPCs
  <2>2. UNCHANGED sid /\ s \notin dirs'
    BY <1>0, <1>4 DEF Install, Goto, request, HoldingPCs
  <2>3. cache'[s] = cache[s] /\ json'[s] = json[s] /\ audio'[s] = audio[s]
    BY <1>0, <1>4 DEF Install, DataTypeOK, HoldingPCs
  <2> QED BY <1>0, <2>1, <2>2, <2>3, GoneGoto
<1>5. CASE Acquire(t)
  <2>1. PICK p : pc' = [pc EXCEPT ![t] = p] /\ (sid[t] = s => p \notin HoldingPCs)
    BY <1>0, <1>5 DEF Acquire, Goto, request, HoldingPCs
  <2>2. UNCHANGED sid /\ s \notin dirs'
    BY <1>0, <1>5 DEF Acquire, Goto, request, HoldingPCs
  <2>3. cache'[s] = cache[s] /\ json'[s] = json[s] /\ audio'[s] = audio[s]
    BY <1>0, <1>5 DEF Acquire, DataTypeOK, HoldingPCs
  <2> QED BY <1>0, <2>1, <2>2, <2>3, GoneGoto
<1>6. CASE Mkdir(t)
  <2>1. PICK p : pc' = [pc EXCEPT ![t] = p] /\ (sid[t] = s => p \notin HoldingPCs)
    BY <1>0, <1>6 DEF Mkdir, Goto, request, HoldingPCs
  <2>2. UNCHANGED sid /\ s \notin dirs'
    BY <1>0, <1>6 DEF Mkdir, Goto, request, HoldingPCs
  <2>3. cache'[s] = cache[s] /\ json'[s] = json[s] /\ audio'[s] = audio[s]
    BY <1>0, <1>6 DEF Mkdir, DataTypeOK, HoldingPCs
  <2> QED BY <1>0, <2>1, <2>2, <2>3, GoneGoto
<1>7. CASE OpenJson(t)
  <2>1. PICK p : pc' = [pc EXCEPT ![t] = p] /\ (sid[t] = s => p \notin HoldingPCs)
    BY <1>0, <1>7 DEF OpenJson, Goto, request, HoldingPCs
  <2>2. UNCHANGED sid /\ s \notin dirs'
    BY <1>0, <1>7 DEF OpenJson, Goto, request, HoldingPCs
  <2>3. cache'[s] = cache[s] /\ json'[s] = json[s] /\ audio'[s] = audio[s]
    BY <1>0, <1>7 DEF OpenJson, DataTypeOK, HoldingPCs
  <2> QED BY <1>0, <2>1, <2>2, <2>3, GoneGoto
<1>8. CASE WriteJson(t)
  <2>1. PICK p : pc' = [pc EXCEPT ![t] = p] /\ (sid[t] = s => p \notin HoldingPCs)
    BY <1>0, <1>8 DEF WriteJson, Goto, request, HoldingPCs
  <2>2. UNCHANGED sid /\ s \notin dirs'
    BY <1>0, <1>8 DEF WriteJson, Goto, request, HoldingPCs
  <2>3. cache'[s] = cache[s] /\ json'[s] = json[s] /\ audio'[s] = audio[s]
    BY <1>0, <1>8 DEF WriteJson, DataTypeOK, HoldingPCs
  <2> QED BY <1>0, <2>1, <2>2, <2>3, GoneGoto
<1>9. CASE Pop(t)
  <2>1. PICK p : pc' = [pc EXCEPT ![t] = p] /\ (sid[t] = s => p \notin HoldingPCs)
    <3>1. pc' = [pc EXCEPT ![t] = "glob"]
      BY <1>9 DEF Pop, Goto
    <3>2. "glob" \notin HoldingPCs
      BY DEF HoldingPCs
    <3> QED BY <3>1, <3>2
  <2>2. UNCHANGED sid /\ s \notin dirs'
    BY <1>0, <1>9 DEF Pop, Goto, request, HoldingPCs
  <2>3. cache'[s] = cache[s] /\ json'[s] = json[s] /\ audio'[s] = audio[s]
    BY <1>0, <1>9 DEF Pop, DataTypeOK, HoldingPCs, NoObj
  <2> QED BY <1>0, <2>1, <2>2, <2>3, GoneGoto
<1>10. CASE Glob(t)
  <2>1. PICK p : pc' = [pc EXCEPT ![t] = p] /\ (sid[t] = s => p \notin HoldingPCs)
    BY <1>0, <1>10 DEF Glob, Goto, GotoFiles, request, HoldingPCs
  <2>2. UNCHANGED sid /\ s \notin dirs'
    BY <1>0, <1>10 DEF Glob, Goto, GotoFiles, request, HoldingPCs
  <2>3. cache'[s] = cache[s] /\ json'[s] = json[s] /\ audio'[s] = audio[s]
    BY <1>0, <1>10 DEF Glob, DataTypeOK, HoldingPCs
  <2> QED BY <1>0, <2>1, <2>2, <2>3, GoneGoto
<1>11. CASE CheckFile(t)
  <2>1. PICK p : pc' = [pc EXCEPT ![t] = p] /\ (sid[t] = s => p \notin HoldingPCs)
    BY <1>0, <1>11 DEF CheckFile, Goto, GotoFiles, request, HoldingPCs
  <2>2. UNCHANGED sid /\ s \notin dirs'
    BY <1>0, <1>11 DEF CheckFile, Goto, GotoFiles, request, HoldingPCs
  <2>3. cache'[s] = cache[s] /\ json'[s] = json[s] /\ audio'[s] = audio[s]
    BY <1>0, <1>11 DEF CheckFile, DataTypeOK, HoldingPCs
  <2> QED BY <1>0, <2>1, <2>2, <2>3, GoneGoto
<1>12. CASE Rmdir(t)
  <2>1. PICK p : pc' = [pc EXCEPT ![t] = p] /\ (sid[t] = s => p \notin HoldingPCs)
    BY <1>0, <1>12 DEF Rmdir, Goto, request, HoldingPCs
  <2>2. UNCHANGED sid /\ s \notin dirs'
    BY <1>0, <1>12 DEF Rmdir, Goto, request, HoldingPCs
  <2>3. cache'[s] = cache[s] /\ json'[s] = json[s] /\ audio'[s] = audio[s]
    BY <1>0, <1>12 DEF Rmdir, DataTypeOK, HoldingPCs
  <2> QED BY <1>0, <2>1, <2>2, <2>3, GoneGoto
<1>13. CASE Unlink(t)
  <2>1. PICK p : pc' = [pc EXCEPT ![t] = p] /\ (sid[t] = s => p \notin HoldingPCs)
    BY <1>0, <1>13 DEF Unlink, Goto, GotoFiles, request, FilesIn, SessionJson, HoldingPCs
  <2>2. UNCHANGED sid /\ s \notin dirs'
    BY <1>0, <1>13 DEF Unlink, Goto, GotoFiles, request, HoldingPCs
  <2>3. cache'[s] = cache[s] /\ json'[s] = json[s] /\ audio'[s] = audio[s]
    BY <1>0, <1>13 DEF Unlink, DataTypeOK, HoldingPCs, FilesIn, SessionJson
  <2> QED BY <1>0, <2>1, <2>2, <2>3, GoneGoto
<1> QED BY <1>1, <1>2, <1>3, <1>4, <1>5, <1>6, <1>7, <1>8, <1>9, <1>10, <1>11, <1>12, <1>13 DEF Store, StoreStep

\* Nor does any other step.
LEMMA NextGone ==
  ASSUME IInv, NEW s \in Sids, Gone(s), [Next]_vars
  PROVE  Gone(s)'
<1> USE StoreAssumption, ServerAssumption
<1>0. /\ ControlTypeOK /\ DataTypeOK /\ Loop \in Threads /\ Workers \subseteq Threads
      /\ s \in issued /\ cache[s] = 0 /\ s \notin dirs /\ audio[s] = {}
      /\ \A t \in Threads : sid[t] = s => pc[t] \notin HoldingPCs
  BY DEF IInv, TypeOK, StoreTypeOK, Gone, NoObj
<1>1. ASSUME NEW t \in Threads, Store(t) PROVE Gone(s)'
  BY <1>1, StoreGone
<1>2. ASSUME NEW t \in Threads, NotFound(t) \/ Raised(t) PROVE Gone(s)'
  BY <1>0, <1>2, GoneRespond DEF NotFound, Raised, history
<1>3. CASE Arrival
  <2>1. PICK t, p, z :
            /\ t \in Threads /\ pc' = [pc EXCEPT ![t] = p] /\ sid' = [sid EXCEPT ![t] = z]
            /\ z = s => p \notin HoldingPCs
    <3>1. ASSUME NEW t \in Threads, NEW k, NEW p, NEW z, NEW o, Dispatch(t, k, p, z, o),
                 z = s => p \notin HoldingPCs
          PROVE  \E t_1, p_1, z_1 :
            /\ t_1 \in Threads /\ pc' = [pc EXCEPT ![t_1] = p_1] /\ sid' = [sid EXCEPT ![t_1] = z_1]
            /\ z_1 = s => p_1 \notin HoldingPCs
      BY <3>1 DEF Dispatch, Serve
    <3>2. {"iterdir", "lookup", "pop"} \cap HoldingPCs = {}
      BY DEF HoldingPCs
    <3>3. CASE \E w \in Workers : StartList(w)
      BY <1>0, <3>1, <3>2, <3>3 DEF StartList
    <3>4. CASE \E w \in Workers, r \in Sids : StartCreate(w, r)
      BY <1>0, <3>1, <3>4 DEF StartCreate
    <3>5. CASE \E w \in Workers, r \in Sids : StartDelete(w, r)
      BY <1>0, <3>1, <3>2, <3>5 DEF StartDelete
    <3>6. CASE \E w \in Workers, r \in Sids, k \in {"get", "audio"} : StartGet(w, r, k)
      BY <1>0, <3>1, <3>2, <3>6 DEF StartGet
    <3>7. CASE \E r \in Sids, kind \in TurnKinds : StartTurn(r, kind)
      BY <1>0, <3>1, <3>2, <3>7 DEF StartTurn
    <3> QED BY <1>3, <3>3, <3>4, <3>5, <3>6, <3>7 DEF Arrival
  <2>2. UNCHANGED <<cache, dirs, json, audio>> /\ issued \subseteq issued'
    BY <1>3 DEF Arrival, StartList, StartCreate, StartDelete, StartGet, StartTurn, history
  <2> QED BY <1>0, <2>1, <2>2, GoneFrame
<1>4. ASSUME NEW w \in Workers, WorkerStep(w) PROVE Gone(s)'
  <2>1. CASE IterDir(w)
    BY <1>0, <2>1, GoneGoto DEF IterDir, history, HoldingPCs
  <2>2. CASE ListNext(w)
    <3>1. PICK z, p : sid' = [sid EXCEPT ![w] = z] /\ pc' = [pc EXCEPT ![w] = p] /\ p \in {"lookup", "next"}
      BY <2>2 DEF ListNext
    <3>2. p \notin HoldingPCs
      BY <3>1 DEF HoldingPCs
    <3> QED BY <1>0, <2>2, <3>1, <3>2, GoneFrame DEF ListNext, history
  <2>3. CASE ListGot(w)
    BY <1>0, <2>3, GoneGoto DEF ListGot, Goto, request, HoldingPCs
  <2>4. CASE ListDone(w) \/ GetDone(w) \/ CreateDone(w) \/ DeleteDone(w)
    BY <1>0, <2>4, GoneRespond DEF ListDone, GetDone, CreateDone, DeleteDone, history
  <2>5. CASE AudioDone(w)
    <3>1. s \notin dirs'
      BY <1>0, <2>5 DEF AudioDone, HoldingPCs
    <3> QED BY <1>0, <2>5, <3>1, GoneRespond DEF AudioDone, history
  <2> QED BY <1>4, <2>1, <2>2, <2>3, <2>4, <2>5 DEF WorkerStep
<1>5. CASE TurnStep
  <2>1. CASE RefuseBlank \/ PipelineFails \/ TurnDone
    BY <1>0, <2>1, GoneRespond DEF RefuseBlank, PipelineFails, TurnDone, history
  <2>2. CASE Upload \/ Transcode \/ Speak
    <3>1. /\ sid[Loop] # s /\ UNCHANGED <<cache, dirs, json, issued>>
          /\ \E k \in {"user", "reply"}, p \in PCs : WriteAudio(k, p)
      BY <1>0, <2>2 DEF Upload, Transcode, Speak, history, HoldingPCs
    <3>2. audio'[s] = audio[s]
      BY <1>0, <3>1 DEF WriteAudio, DataTypeOK
    <3>3. CASE Respond(Loop, "error") /\ UNCHANGED audio
      BY <1>0, <3>1, <3>3, GoneRespond
    <3>4. CASE \E p \in PCs : Goto(Loop, p)
      BY <1>0, <3>1, <3>2, <3>4, GoneGoto DEF Goto, request
    <3> QED BY <3>1, <3>3, <3>4 DEF WriteAudio
  <2>3. CASE Prepare \/ MakeDir \/ Generate \/ AppendTurn
    <3>1. \E p \in PCs : Goto(Loop, p)
      BY <2>3 DEF Prepare, MakeDir, Generate, AppendTurn
    <3>2. sid[Loop] # s /\ UNCHANGED <<cache, json, audio, issued>> /\ s \notin dirs'
      BY <1>0, <2>3 DEF Prepare, MakeDir, Generate, AppendTurn, history, HoldingPCs
    <3> QED BY <1>0, <3>1, <3>2, GoneGoto DEF Goto, request
  <2>4. CASE Remember
    BY <2>4 DEF Remember, Gone, history, request
  <2> QED BY <1>5, <2>1, <2>2, <2>3, <2>4 DEF TurnStep
<1>6. CASE Crash
  BY <1>0, <1>6 DEF Crash, StoreCrash, Gone, HoldingPCs, NoObj
<1>7. CASE UNCHANGED vars
  BY <1>7 DEF vars, history, request, Gone
<1> QED BY <1>0, <1>1, <1>2, <1>3, <1>4, <1>5, <1>6, <1>7 DEF Next

\* A completed delete is final: once nothing of a session is left and no running
\* request has got hold of it, no step of any handler and no restart revives it.
THEOREM DeleteIsFinal == Spec => GoneForGood
<1>1. IInv /\ [Next]_vars => [\A s \in Sids : Gone(s) => Gone(s)']_vars
  BY NextGone
<1> QED BY <1>1, InvariantHolds, PTL DEF Spec, GoneForGood


-----------------------------------------------------------------------------
(* The order of a conversation's turns.  HistoryOrdered is not inductive:  *)
(* that the turn being made is younger than every recorded one has to be   *)
(* known before _save_turn_and_respond appends it.                         *)

\* The codes of a turn that is not yet appended.
FreshPCs == GetPCs \cup {"found", "upload", "convert", "transcode", "run", "outdir", "speak", "append"}

\* A list of turns in order, all of them older than a turn that is being made.
OldTurns(turns) ==
    /\ Ordered(turns)
    /\ pc[Loop] \in FreshPCs => \A i \in DOMAIN turns : turns[i].id < turnNo

HistInv ==
    /\ pc[Loop] \in FreshPCs => turnNo > 0
    /\ \A s \in Sids : OldTurns(json[s].turns)
    /\ \A o \in DOMAIN heap : OldTurns(heap[o].turns)

\* A list of turns that some object or file already holds.
Recorded(turns) ==
    \/ turns = <<>>
    \/ \E o \in DOMAIN heap : turns = heap[o].turns
    \/ \E s \in Sids : turns = json[s].turns

\* A turn becomes unfinished only by starting, with a new number.
FreshStep ==
    /\ turnNo' \in Nat /\ turnNo' >= turnNo
    /\ pc'[Loop] \in FreshPCs => pc[Loop] \in FreshPCs \/ turnNo' > turnNo

\* A recorded list stays in order as turns are started.
LEMMA OldKept ==
  ASSUME IInv, NEW turns \in Seq(Turn), OldTurns(turns), FreshStep
  PROVE  OldTurns(turns)'
<1>0. \A r \in Turn : r.id \in Nat
  BY DEF Turn
<1>1. turnNo \in Nat /\ \A i \in DOMAIN turns : turns[i].id \in Nat
  BY <1>0, ServerAssumption DEF IInv, TypeOK, ServerTypeOK
<1>2. Ordered(turns)'
  BY <1>1 DEF OldTurns, Ordered, FreshStep
<1>3. pc'[Loop] \in FreshPCs => \A i \in DOMAIN turns : turns[i].id < turnNo'
  BY <1>1 DEF OldTurns, Ordered, FreshStep
<1> QED BY <1>2, <1>3 DEF OldTurns

\* A step that copies recorded lists of turns, and makes none, keeps the order.
LEMMA CopyKeeps ==
  ASSUME IInv, IInv', HistInv, FreshStep,
         \A o \in DOMAIN heap' : Recorded(heap'[o].turns),
         \A s \in Sids : Recorded(json'[s].turns)
  PROVE  HistInv'
<1>1. ASSUME NEW turns \in Seq(Turn), Recorded(turns) PROVE OldTurns(turns)'
  <2>1. OldTurns(turns)
    <3>1. CASE turns = <<>>
      BY <3>1 DEF OldTurns, Ordered
    <3> QED BY <1>1, <3>1 DEF Recorded, HistInv
  <2> QED BY <2>1, OldKept
<1>2. \A o \in DOMAIN heap' : heap'[o].turns \in Seq(Turn)
  <2>1. \A x \in Session : x.turns \in Seq(Turn)
    BY DEF Session
  <2>2. heap' \in Seq(Session)
    BY DEF IInv, TypeOK, StoreTypeOK, DataTypeOK
  <2> QED BY <2>1, <2>2
<1>3. \A s \in Sids : json'[s].turns \in Seq(Turn)
  BY DEF IInv, TypeOK, StoreTypeOK, DataTypeOK, JsonFile
<1>4. pc'[Loop] \in FreshPCs => turnNo' > 0
  <2>1. turnNo \in Nat
    BY ServerAssumption DEF IInv, TypeOK, ServerTypeOK
  <2> QED BY <2>1 DEF HistInv, FreshStep
<1> QED BY <1>1, <1>2, <1>3, <1>4 DEF HistInv

\* A step of one thread that does not begin a turn.
LEMMA FreshGoto ==
  ASSUME IInv, NEW t \in Threads, NEW p, pc' = [pc EXCEPT ![t] = p],
         t = Loop /\ p \in FreshPCs => pc[t] \in FreshPCs, UNCHANGED turnNo
  PROVE  FreshStep
<1>1. turnNo \in Nat
  BY ServerAssumption DEF IInv, TypeOK, ServerTypeOK
<1>2. pc'[Loop] \in FreshPCs => pc[Loop] \in FreshPCs
  BY DEF IInv, TypeOK, StoreTypeOK, ControlTypeOK
<1> QED BY <1>1, <1>2 DEF FreshStep

\* An answer ends a turn.
LEMMA FreshRespond ==
  ASSUME IInv, NEW t \in Threads, NEW code, Respond(t, code), UNCHANGED turnNo
  PROVE  FreshStep
<1>1. "idle" \notin FreshPCs
  BY DEF FreshPCs
<1> QED BY <1>1, FreshGoto DEF Respond, Serve

\* A step of the store.
LEMMA StoreFresh ==
  ASSUME IInv, NEW t \in Threads, Store(t)
  PROVE  FreshStep
<1>0. UNCHANGED turnNo
  BY DEF Store, history
<1>1. CASE Lookup(t)
  <2>1. PICK p \in PCs : pc' = [pc EXCEPT ![t] = p] /\ (p \in FreshPCs => pc[t] \in FreshPCs)
    BY <1>1 DEF Lookup, GotoWith, FreshPCs
  <2> QED BY <1>0, <2>1, FreshGoto
<1>2. CASE IsFile(t)
  <2>1. PICK p \in PCs : pc' = [pc EXCEPT ![t] = p] /\ (p \in FreshPCs => pc[t] \in FreshPCs)
    BY <1>2 DEF IsFile, Goto, FreshPCs
  <2> QED BY <1>0, <2>1, FreshGoto
<1>3. CASE ReadJson(t)
  <2>1. PICK p \in PCs : pc' = [pc EXCEPT ![t] = p] /\ (p \in FreshPCs => pc[t] \in FreshPCs)
    BY <1>3 DEF ReadJson, Goto, GotoWith, FreshPCs
  <2> QED BY <1>0, <2>1, FreshGoto
<1>4. CASE Install(t)
  <2>1. PICK p \in PCs : pc' = [pc EXCEPT ![t] = p] /\ (p \in FreshPCs => pc[t] \in FreshPCs)
    BY <1>4 DEF Install, Goto, FreshPCs
  <2> QED BY <1>0, <2>1, FreshGoto
<1>5. CASE Acquire(t)
  <2>1. PICK p \in PCs : pc' = [pc EXCEPT ![t] = p] /\ (p \in FreshPCs => pc[t] \in FreshPCs)
    BY <1>5 DEF Acquire, Goto, FreshPCs
  <2> QED BY <1>0, <2>1, FreshGoto
<1>6. CASE Mkdir(t)
  <2>1. PICK p \in PCs : pc' = [pc EXCEPT ![t] = p] /\ (p \in FreshPCs => pc[t] \in FreshPCs)
    BY <1>6 DEF Mkdir, Goto, FreshPCs
  <2> QED BY <1>0, <2>1, FreshGoto
<1>7. CASE OpenJson(t)
  <2>1. PICK p \in PCs : pc' = [pc EXCEPT ![t] = p] /\ (p \in FreshPCs => pc[t] \in FreshPCs)
    BY <1>7 DEF OpenJson, Goto, FreshPCs
  <2> QED BY <1>0, <2>1, FreshGoto
<1>8. CASE WriteJson(t)
  <2>1. PICK p \in PCs : pc' = [pc EXCEPT ![t] = p] /\ (p \in FreshPCs => pc[t] \in FreshPCs)
    BY <1>8 DEF WriteJson, Goto, FreshPCs
  <2> QED BY <1>0, <2>1, FreshGoto
<1>9. CASE Pop(t)
  <2>1. PICK p \in PCs : pc' = [pc EXCEPT ![t] = p] /\ (p \in FreshPCs => pc[t] \in FreshPCs)
    BY <1>9 DEF Pop, Goto, FreshPCs
  <2> QED BY <1>0, <2>1, FreshGoto
<1>10. CASE Glob(t)
  <2>1. PICK p \in PCs : pc' = [pc EXCEPT ![t] = p] /\ (p \in FreshPCs => pc[t] \in FreshPCs)
    BY <1>10 DEF Glob, Goto, GotoFiles, FreshPCs
  <2> QED BY <1>0, <2>1, FreshGoto
<1>11. CASE CheckFile(t)
  <2>1. PICK p \in PCs : pc' = [pc EXCEPT ![t] = p] /\ (p \in FreshPCs => pc[t] \in FreshPCs)
    BY <1>11 DEF CheckFile, Goto, GotoFiles, FreshPCs
  <2> QED BY <1>0, <2>1, FreshGoto
<1>12. CASE Unlink(t)
  <2>1. PICK p \in PCs : pc' = [pc EXCEPT ![t] = p] /\ (p \in FreshPCs => pc[t] \in FreshPCs)
    BY <1>12 DEF Unlink, Goto, GotoFiles, FreshPCs
  <2> QED BY <1>0, <2>1, FreshGoto
<1>13. CASE Rmdir(t)
  <2>1. PICK p \in PCs : pc' = [pc EXCEPT ![t] = p] /\ (p \in FreshPCs => pc[t] \in FreshPCs)
    BY <1>13 DEF Rmdir, Goto, FreshPCs
  <2> QED BY <1>0, <2>1, FreshGoto
<1> QED BY <1>1, <1>2, <1>3, <1>4, <1>5, <1>6, <1>7, <1>8, <1>9, <1>10, <1>11, <1>12, <1>13 DEF Store, StoreStep

\* The lists of turns after a step of the store were recorded before it.
LEMMA StoreCopies ==
  ASSUME IInv, NEW t \in Threads, Store(t)
  PROVE  /\ \A o \in DOMAIN heap' : Recorded(heap'[o].turns)
         /\ \A s \in Sids : Recorded(json'[s].turns)
<1>0. DataTypeOK /\ RefsValid /\ heap \in Seq(Session)
  BY DEF IInv, TypeOK, StoreTypeOK, DataTypeOK
<1>s. pc[t] \notin Unbound => sid[t] \in Sids
  BY DEF IInv, TypeOK, ServerTypeOK, SidsIssued, Unbound
<1>h. ASSUME UNCHANGED heap PROVE \A o \in DOMAIN heap' : Recorded(heap'[o].turns)
  BY <1>h DEF Recorded
<1>j. ASSUME UNCHANGED json PROVE \A s \in Sids : Recorded(json'[s].turns)
  BY <1>j DEF Recorded
<1>1. CASE UNCHANGED <<heap, json>>
  BY <1>1, <1>h, <1>j
<1>2. CASE ReadJson(t) /\ heap' # heap
  <2> DEFINE x == FromJson(sid[t], json[sid[t]])
  <2>1. heap' = Append(heap, x) /\ UNCHANGED json
    BY <1>2 DEF ReadJson
  <2>2. x.turns = json[sid[t]].turns /\ sid[t] \in Sids
    BY <1>2, <1>s DEF ReadJson, FromJson, Unbound
  <2> HIDE DEF x
  <2>3. \A o \in DOMAIN heap' : heap'[o] = x \/ (o \in DOMAIN heap /\ heap'[o] = heap[o])
    BY <1>0, <2>1
  <2> QED BY <1>j, <2>1, <2>2, <2>3 DEF Recorded
<1>3. CASE UNCHANGED heap /\ \E s \in Sids, f \in {MissingFile, TornFile} : json' = [json EXCEPT ![s] = f]
  <2>1. MissingFile.turns = <<>> /\ TornFile.turns = <<>>
    BY DEF MissingFile, TornFile
  <2>2. \A s \in Sids : json'[s].turns \in {<<>>, json[s].turns}
    BY <1>0, <1>3, <2>1 DEF DataTypeOK
  <2> QED BY <1>3, <1>h, <2>2 DEF Recorded
<1>4. CASE WriteJson(t)
  <2>1. obj[t] \in DOMAIN heap /\ UNCHANGED heap
    BY <1>0, <1>4 DEF WriteJson, RefsValid, UsesObj
  <2>2. ToJson(heap[obj[t]]).turns = heap[obj[t]].turns
    BY DEF ToJson
  <2>3. \A s \in Sids : json'[s].turns \in {heap[obj[t]].turns, json[s].turns}
    BY <1>0, <1>4, <2>2 DEF WriteJson, DataTypeOK
  <2> QED BY <1>h, <2>1, <2>3 DEF Recorded
<1>5. CASE OpenJson(t) \/ Unlink(t)
  <2>1. /\ UNCHANGED heap
        /\ json' \in {json, [json EXCEPT ![sid[t]] = TornFile], [json EXCEPT ![sid[t]] = MissingFile]}
    BY <1>5 DEF OpenJson, Unlink
  <2>2. sid[t] \in Sids
    BY <1>s, <1>5 DEF OpenJson, Unlink, Unbound
  <2> QED BY <1>1, <1>3, <2>1, <2>2
<1> QED BY <1>1, <1>2, <1>4, <1>5
        DEF Store, StoreStep, Lookup, IsFile, ReadJson, Install, Acquire, Mkdir, Pop, Glob, CheckFile, Rmdir


\* _save_turn_and_respond appends a turn younger than all recorded ones.
LEMMA AppendKeeps ==
  ASSUME IInv, HistInv, AppendTurn
  PROVE  HistInv'
<1> USE StoreAssumption, ServerAssumption
<1>0. /\ ControlTypeOK /\ heap \in Seq(Session) /\ json \in [Sids -> JsonFile] /\ Loop \in Threads
      /\ obj[Loop] \in DOMAIN heap /\ turnNo \in 1..MaxTurns \cup {0} /\ pc[Loop] = "append"
  BY DEF IInv, TypeOK, StoreTypeOK, DataTypeOK, ServerTypeOK, RefsValid, UsesObj, AppendTurn
<1>1. /\ heap' = [heap EXCEPT ![obj[Loop]] = Extended(session, TurnIndex)]
      /\ pc' = [pc EXCEPT ![Loop] = "acquire"] /\ UNCHANGED <<json, turnNo>>
  BY DEF AppendTurn, Goto, history
<1>2. pc[Loop] \in FreshPCs /\ pc'[Loop] \notin FreshPCs
  BY <1>0, <1>1 DEF FreshPCs, ControlTypeOK
<1>3. ASSUME NEW turns, OldTurns(turns) PROVE OldTurns(turns)'
  BY <1>1, <1>2, <1>3 DEF OldTurns, Ordered
<1>4. \A s \in Sids : OldTurns(json[s].turns)'
  BY <1>1, <1>3 DEF HistInv
<1> DEFINE old == session.turns
           r == [index |-> TurnIndex, id |-> turnNo, user |-> op[Loop] = "voice", reply |-> op[Loop] # "text"]
<1>5. old \in Seq(Turn) /\ OldTurns(old) /\ TurnIndex = Len(old) + 1
  <2>1. session \in Session
    BY <1>0 DEF session
  <2> QED BY <1>0, <2>1 DEF session, Session, HistInv, TurnIndex
<1>6. r.index = Len(old) + 1 /\ r.id = turnNo
  BY <1>5
<1>7. Extended(session, TurnIndex).turns = Append(old, r)
  BY DEF Extended
<1>8. \A i \in DOMAIN old : old[i].id \in Nat
  <2>1. \A x \in Turn : x.id \in Nat
    BY DEF Turn
  <2> QED BY <1>5, <2>1
<1> HIDE DEF r, old
<1>9. /\ DOMAIN Append(old, r) = 1..(Len(old) + 1) /\ Append(old, r)[Len(old) + 1] = r
      /\ \A i \in 1..Len(old) : i \in DOMAIN old /\ Append(old, r)[i] = old[i]
      /\ Len(old) \in Nat
  BY <1>5
<1>t. \A i \in DOMAIN old : old[i].id \in 1..turnNo /\ old[i].id < turnNo /\ old[i].index = i
  BY <1>2, <1>5 DEF OldTurns, Ordered
<1>p. turnNo \in 1..turnNo
  BY <1>0, <1>2 DEF HistInv
<1>a. Ordered(Append(old, r))
  <2>1. \A i \in DOMAIN Append(old, r) :
           Append(old, r)[i].index = i /\ Append(old, r)[i].id \in 1..turnNo
    BY <1>0, <1>6, <1>9, <1>t, <1>p
  <2>2. \A i, j \in DOMAIN Append(old, r) : i < j => Append(old, r)[i].id < Append(old, r)[j].id
    BY <1>0, <1>5, <1>6, <1>8, <1>9, <1>t DEF OldTurns, Ordered
  <2> QED BY <2>1, <2>2 DEF Ordered
<1>b. ASSUME NEW o \in DOMAIN heap' PROVE OldTurns(heap[o].turns)'
  <2>1. ASSUME NEW turns, turns = Append(old, r) PROVE OldTurns(turns)'
    BY <1>1, <1>2, <1>a, <2>1 DEF OldTurns, Ordered
  <2>2. ASSUME NEW turns, turns = heap'[o].turns PROVE OldTurns(turns)'
    BY <1>0, <1>1, <1>3, <1>7, <2>1, <2>2 DEF HistInv
  <2> QED BY <2>2
<1> QED BY <1>2, <1>4, <1>b DEF HistInv

\* Every step keeps the turns in order.
LEMMA NextHist == IInv /\ IInv' /\ HistInv /\ [Next]_vars => HistInv'
<1> SUFFICES ASSUME IInv, IInv', HistInv, [Next]_vars PROVE HistInv'
  OBVIOUS
<1> USE StoreAssumption, ServerAssumption
<1>0. /\ ControlTypeOK /\ DataTypeOK /\ heap \in Seq(Session) /\ turnNo \in Nat
      /\ Loop \in Threads /\ Workers \subseteq Threads /\ Loop \notin Workers
  BY DEF IInv, TypeOK, StoreTypeOK, ServerTypeOK, DataTypeOK
<1>j. ASSUME UNCHANGED json PROVE \A s \in Sids : Recorded(json'[s].turns)
  BY <1>j DEF Recorded
<1>h. ASSUME UNCHANGED heap PROVE \A o \in DOMAIN heap' : Recorded(heap'[o].turns)
  BY <1>h DEF Recorded
<1>k. ASSUME UNCHANGED <<heap, json>>, FreshStep PROVE HistInv'
  BY <1>h, <1>j, <1>k, CopyKeeps
<1>w. ASSUME NEW w \in Workers, NEW p, pc' = [pc EXCEPT ![w] = p], UNCHANGED turnNo PROVE FreshStep
  BY <1>0, <1>w, FreshGoto
<1>1. ASSUME NEW t \in Threads, Store(t) PROVE HistInv'
  BY <1>1, StoreFresh, StoreCopies, CopyKeeps
<1>2. ASSUME NEW t \in Threads, NotFound(t) \/ Raised(t) PROVE HistInv'
  BY <1>2, <1>k, FreshRespond DEF NotFound, Raised, history
<1>3. CASE Arrival
  <2>1. ASSUME NEW w \in Workers, StartList(w) PROVE HistInv'
    BY <1>k, <1>w, <2>1 DEF StartList, Dispatch, Serve, history
  <2>2. ASSUME NEW w \in Workers, NEW s \in Sids, StartDelete(w, s) PROVE HistInv'
    BY <1>k, <1>w, <2>2 DEF StartDelete, Dispatch, Serve
  <2>3. ASSUME NEW w \in Workers, NEW s \in Sids, NEW k, StartGet(w, s, k) PROVE HistInv'
    BY <1>k, <1>w, <2>3 DEF StartGet, Dispatch, Serve, history
  <2>4. ASSUME NEW s \in Sids, NEW kind \in TurnKinds, StartTurn(s, kind) PROVE HistInv'
    BY <1>0, <1>k, <2>4 DEF StartTurn, FreshStep
  <2>5. ASSUME NEW w \in Workers, NEW s \in Sids, StartCreate(w, s) PROVE HistInv'
    <3> DEFINE x == [sid |-> s, turns |-> <<>>, memory |-> {}]
    <3>1. x.turns = <<>>
      OBVIOUS
    <3>2. heap' = Append(heap, x) /\ UNCHANGED json /\ FreshStep
      BY <1>w, <2>5 DEF StartCreate, Dispatch, Serve
    <3> HIDE DEF x
    <3>3. \A o \in DOMAIN heap' : heap'[o] = x \/ (o \in DOMAIN heap /\ heap'[o] = heap[o])
      BY <1>0, <3>2
    <3> QED BY <1>j, <3>1, <3>2, <3>3, CopyKeeps DEF Recorded
  <2> QED BY <1>3, <2>1, <2>2, <2>3, <2>4, <2>5 DEF Arrival
<1>4. ASSUME NEW w \in Workers, WorkerStep(w) PROVE HistInv'
  <2>1. UNCHANGED <<heap, json, turnNo>>
    BY <1>4 DEF WorkerStep, IterDir, ListNext, ListDone, ListGot, GetDone, AudioDone, CreateDone, DeleteDone, history
  <2>2. CASE \E code : Respond(w, code)
    BY <1>0, <1>k, <2>1, <2>2, FreshRespond
  <2>3. CASE \E p : pc' = [pc EXCEPT ![w] = p]
    BY <1>k, <1>w, <2>1, <2>3
  <2> QED BY <1>4, <2>2, <2>3
          DEF WorkerStep, IterDir, ListNext, ListDone, ListGot, GetDone, AudioDone, CreateDone, DeleteDone, Goto
<1>5. CASE TurnStep
  <2>m. ASSUME NEW p, Goto(Loop, p), pc[Loop] \in FreshPCs, UNCHANGED turnNo PROVE FreshStep
    BY <1>0, <2>m, FreshGoto DEF Goto
  <2>1. CASE RefuseBlank \/ PipelineFails \/ TurnDone
    BY <1>0, <1>k, <2>1, FreshRespond DEF RefuseBlank, PipelineFails, TurnDone, history
  <2>2. CASE Upload \/ Transcode \/ Speak
    <3>1. /\ pc[Loop] \in FreshPCs /\ UNCHANGED <<heap, json, turnNo>>
          /\ \E k \in {"user", "reply"}, p \in PCs : WriteAudio(k, p)
      BY <2>2 DEF Upload, Transcode, Speak, history, FreshPCs
    <3>2. CASE Respond(Loop, "error")
      BY <1>0, <1>k, <3>1, <3>2, FreshRespond
    <3>3. CASE \E p \in PCs : Goto(Loop, p)
      BY <1>0, <1>k, <2>m, <3>1, <3>3
    <3> QED BY <3>1, <3>2, <3>3 DEF WriteAudio
  <2>3. CASE Prepare \/ MakeDir \/ Generate
    <3>1. PICK p \in PCs : Goto(Loop, p)
      BY <2>3 DEF Prepare, MakeDir, Generate
    <3>2. pc[Loop] \in FreshPCs /\ UNCHANGED <<heap, json, turnNo>>
      BY <2>3 DEF Prepare, MakeDir, Generate, history, FreshPCs
    <3> QED BY <1>k, <2>m, <3>1, <3>2
  <2>4. CASE Remember
    <3>1. FreshStep
      BY <1>0, <2>4 DEF Remember, FreshStep, history
    <3>2. /\ Remembering(session, turnNo).turns = session.turns /\ obj[Loop] \in DOMAIN heap
          /\ heap' = [heap EXCEPT ![obj[Loop]] = Remembering(session, turnNo)] /\ UNCHANGED json
      BY <2>4 DEF Remember, Remembering, IInv, RefsValid, UsesObj
    <3>3. \A o \in DOMAIN heap' : o \in DOMAIN heap /\ heap'[o].turns = heap[o].turns
      BY <1>0, <3>2 DEF session
    <3> QED BY <1>j, <3>1, <3>2, <3>3, CopyKeeps DEF Recorded
  <2>5. CASE AppendTurn
    BY <2>5, AppendKeeps
  <2> QED BY <1>5, <2>1, <2>2, <2>3, <2>4, <2>5 DEF TurnStep
<1>6. CASE Crash
  <2>1. FreshStep
    BY <1>0, <1>6 DEF Crash, StoreCrash, FreshStep, FreshPCs
  <2>2. heap' = <<>> /\ UNCHANGED json
    BY <1>6 DEF Crash, StoreCrash
  <2> QED BY <1>j, <2>1, <2>2, CopyKeeps
<1>7. CASE UNCHANGED vars
  <2>1. FreshStep /\ UNCHANGED <<heap, json>>
    BY <1>0, <1>7 DEF vars, history, FreshStep
  <2> QED BY <1>k, <2>1
<1> QED BY <1>1, <1>2, <1>3, <1>4, <1>5, <1>6, <1>7 DEF Next

\* The inductive invariant of the order holds throughout.
LEMMA OrderHolds == Spec => []HistInv
<1>1. Init => HistInv
  <2> SUFFICES ASSUME Init PROVE HistInv
    OBVIOUS
  <2>1. MissingFile.turns = <<>>
    BY DEF MissingFile
  <2>2. OldTurns(<<>>)
    BY DEF OldTurns, Ordered
  <2>3. pc[Loop] \notin FreshPCs
    BY ServerAssumption DEF Init, StoreInit, FreshPCs
  <2> QED BY <2>1, <2>2, <2>3 DEF Init, StoreInit, HistInv
<1>2. IInv /\ IInv' /\ HistInv /\ [Next]_vars => HistInv'
  BY NextHist
<1> QED BY <1>1, <1>2, InvariantHolds, PTL DEF Spec

\* The turns of a session are numbered 1, 2, ... in the order in which they were
\* asked, in every object and every session.json: no interleaving of loads, saves,
\* deletes and restarts duplicates, renumbers or reorders them.
THEOREM TurnsInOrder == Spec => []HistoryOrdered
<1>1. HistInv => HistoryOrdered
  BY DEF HistInv, OldTurns, HistoryOrdered
<1> QED BY <1>1, OrderHolds, PTL

=============================================================================
