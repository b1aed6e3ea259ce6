-------------------------- MODULE VoiceServer_proofs --------------------------
(***************************************************************************)
(* Proofs about VoiceServer, for every set of sessions and threads, every  *)
(* bound and every set of requests.                                        *)
(***************************************************************************)
EXTENDS VoiceServer, TLAPS

\* The inductive invariant behind type correctness: an object reference or a
\* session id that a step dereferences is a real one.
IInv == TypeOK /\ RefsValid /\ SidsIssued

\* The codes at which a thread has no session.
Unbound == {"idle", "iterdir", "next"}

\* The initial state satisfies the inductive invariant.
LEMMA InitIInv == Init => IInv
<1> SUFFICES ASSUME Init PROVE IInv
  OBVIOUS
<1> USE StoreAssumption, ServerAssumption DEF Init, StoreInit, NoObj
<1>1. TypeOK
  <2>1. json \in [Sids -> JsonFile]
    BY DEF MissingFile, JsonFile
  <2>2. heap \in Seq(Session)
    OBVIOUS
  <2>3. reply \in [op : Ops, sid : Sids \cup {NoSid}, code : Codes]
    BY DEF NoReply, Ops, Codes
  <2> QED BY <2>1, <2>2, <2>3
          DEF TypeOK, StoreTypeOK, ControlTypeOK, DataTypeOK, ServerTypeOK, PCs, HandlerPCs, Ops
<1>2. RefsValid /\ SidsIssued
  BY DEF RefsValid, SidsIssued, UsesObj, SavePCs, LockedPCs
<1> QED BY <1>1, <1>2 DEF IInv

\* A directory listing consists of file names.
LEMMA FilesTyped ==
  ASSUME DataTypeOK, NEW s \in Sids
  PROVE  FilesIn(s) \subseteq FileName
<1>1. \A a \in AudioFile : NameOf(a) \in FileName
  BY DEF AudioFile, NameOf, FileName
<1>2. SessionJson \in FileName
  BY DEF SessionJson, FileName
<1>3. audio[s] \subseteq AudioFile
  BY DEF DataTypeOK
<1> QED BY <1>1, <1>2, <1>3 DEF FilesIn

\* A thread that goes on with the session and the object it has.
LEMMA Moves ==
  ASSUME IInv, NEW t \in Threads, NEW p \in PCs,
         pc[t] \notin Unbound,
         p \in UsesObj => pc[t] \in UsesObj,
         pc' = [pc EXCEPT ![t] = p],
         UNCHANGED <<op, sid, obj, rest, heap, cache, issued>>,
         todo' \in [Threads -> SUBSET FileName],
         dirs' \subseteq issued
  PROVE  ControlTypeOK' /\ RefsValid' /\ SidsIssued'
<1>1. ControlTypeOK'
  BY DEF IInv, TypeOK, StoreTypeOK, ControlTypeOK
<1>2. RefsValid'
  BY DEF IInv, TypeOK, StoreTypeOK, ControlTypeOK, RefsValid
<1>3. SidsIssued'
  BY DEF IInv, TypeOK, StoreTypeOK, ControlTypeOK, SidsIssued, Unbound
<1> QED BY <1>1, <1>2, <1>3

USE DEF PCs, HandlerPCs, UsesObj, SavePCs, LockedPCs, GetPCs, DeletePCs, Returned, NoObj

\* A step of the store preserves the inductive invariant.
LEMMA StoreIInv ==
  ASSUME IInv, NEW t \in Threads, Store(t)
  PROVE  IInv'
<1> USE StoreAssumption, ServerAssumption
<1>0. /\ ControlTypeOK /\ DataTypeOK /\ ServerTypeOK /\ RefsValid /\ SidsIssued
      /\ ServerTypeOK' /\ UNCHANGED issued
  BY DEF Store, Continue, history, NoReply, IInv, TypeOK, ServerTypeOK, StoreTypeOK, Ops, Codes
<1>s. pc[t] \notin Unbound => sid[t] \in issued /\ sid[t] \in Sids
  BY <1>0 DEF ServerTypeOK, SidsIssued, Unbound
<1>q. SUFFICES ControlTypeOK' /\ DataTypeOK' /\ RefsValid' /\ SidsIssued'
  BY <1>0 DEF IInv, TypeOK, StoreTypeOK
<1>1. CASE Lookup(t)
  <2>1. cache[sid[t]] \in Nat
    BY <1>0, <1>s, <1>1 DEF Lookup, DataTypeOK, Unbound
  <2>2. DataTypeOK'
    BY <1>0, <1>1 DEF Lookup, DataTypeOK
  <2>3. ControlTypeOK'
    BY <1>0, <1>1, <2>1 DEF Lookup, GotoWith, ControlTypeOK
  <2>4. RefsValid'
    BY <1>0, <1>s, <1>1, <2>1 DEF Lookup, GotoWith, ControlTypeOK, RefsValid, Unbound
  <2>5. SidsIssued'
    BY <1>0, <1>1 DEF Lookup, GotoWith, ControlTypeOK, SidsIssued
  <2> QED BY <2>2, <2>3, <2>4, <2>5
<1>2. CASE IsFile(t)
  <2>1. DataTypeOK'
    BY <1>0, <1>s, <1>2 DEF IsFile, DataTypeOK, Unbound
  <2>2. todo' \in [Threads -> SUBSET FileName] /\ dirs' \subseteq issued
    BY <1>0, <1>s, <1>2 DEF IsFile, Goto, request, ControlTypeOK, SidsIssued, Unbound
  <2>3. UNCHANGED <<op, sid, obj, rest, heap, cache>>
    BY <1>2 DEF IsFile, Goto, request
  <2>4. \E p \in PCs : /\ pc' = [pc EXCEPT ![t] = p]
                       /\ p \in UsesObj => pc[t] \in UsesObj
    <3> DEFINE p == IF json[sid[t]].state = "missing" THEN "absent" ELSE "read"
    <3>1. pc' = [pc EXCEPT ![t] = p]
      BY <1>2 DEF IsFile, Goto
    <3>2. p \in PCs /\ p \notin UsesObj
      OBVIOUS
    <3> HIDE DEF p
    <3> QED BY <3>1, <3>2
  <2>5. pc[t] \notin Unbound
    BY <1>2 DEF IsFile, Unbound
  <2> QED BY <1>0, <2>1, <2>2, <2>3, <2>4, <2>5, Moves
<1>3. CASE ReadJson(t)
  <2> DEFINE f == json[sid[t]]
  <2>1. CASE f.state # "whole"
    <3>1. DataTypeOK' /\ UNCHANGED <<op, sid, obj, rest, heap, cache, todo, dirs>>
      BY <1>0, <1>3, <2>1 DEF ReadJson, Goto, request, DataTypeOK
    <3>2. pc' = [pc EXCEPT ![t] = "raised"] /\ pc[t] \notin Unbound
      BY <1>3, <2>1 DEF ReadJson, Goto, Unbound
    <3>3. todo' \in [Threads -> SUBSET FileName] /\ dirs' \subseteq issued
      BY <1>0, <3>1 DEF ControlTypeOK, SidsIssued
    <3> QED BY <1>0, <3>1, <3>2, <3>3, Moves
  <2>2. CASE f.state = "whole"
    <3> DEFINE x == FromJson(sid[t], f)
    <3>1. x \in Session /\ x.sid = sid[t]
      BY <1>0, <1>s, <1>3 DEF ReadJson, FromJson, Session, JsonFile, DataTypeOK, Unbound
    <3>2. /\ pc[t] = "read" /\ heap' = Append(heap, x)
          /\ GotoWith(t, "install", Len(heap) + 1)
          /\ UNCHANGED <<lock, cache, dirs, json, audio>>
      BY <1>3, <2>2 DEF ReadJson
    <3> HIDE DEF x
    <3>3. /\ heap \in Seq(Session) /\ heap' \in Seq(Session) /\ Len(heap) + 1 \in Nat
          /\ Len(heap) + 1 \in DOMAIN heap' /\ heap'[Len(heap) + 1] = x
          /\ \A o \in DOMAIN heap : o \in DOMAIN heap' /\ heap'[o] = heap[o]
      BY <1>0, <3>1, <3>2 DEF DataTypeOK
    <3>4. DataTypeOK' /\ ControlTypeOK'
      BY <1>0, <3>2, <3>3 DEF DataTypeOK, ControlTypeOK, GotoWith
    <3>5. RefsValid'
      BY <1>0, <3>1, <3>2, <3>3 DEF ControlTypeOK, RefsValid, GotoWith
    <3>6. SidsIssued'
      BY <1>0, <3>2 DEF ControlTypeOK, SidsIssued, GotoWith
    <3> QED BY <3>4, <3>5, <3>6
  <2> QED BY <2>1, <2>2
<1>4. CASE Install(t)
  <2>1. DataTypeOK' /\ ControlTypeOK'
    BY <1>0, <1>4 DEF Install, Goto, request, DataTypeOK, ControlTypeOK
  <2>2. RefsValid'
    BY <1>0, <1>4 DEF Install, Goto, request, DataTypeOK, ControlTypeOK, RefsValid
  <2>3. SidsIssued'
    BY <1>0, <1>4 DEF Install, Goto, request, ControlTypeOK, SidsIssued
  <2> QED BY <2>1, <2>2, <2>3
<1>5. CASE Acquire(t)
  <2>1. DataTypeOK' /\ ControlTypeOK'
    BY <1>0, <1>5 DEF Acquire, Goto, request, DataTypeOK, ControlTypeOK
  <2>2. RefsValid'
    BY <1>0, <1>5 DEF Acquire, Goto, request, DataTypeOK, ControlTypeOK, RefsValid
  <2>3. SidsIssued'
    BY <1>0, <1>5 DEF Acquire, Goto, request, ControlTypeOK, SidsIssued
  <2> QED BY <2>1, <2>2, <2>3
<1>6. CASE Pop(t)
  <2>1. DataTypeOK' /\ ControlTypeOK'
    BY <1>0, <1>6 DEF Pop, Goto, request, DataTypeOK, ControlTypeOK
  <2>2. RefsValid'
    BY <1>0, <1>6 DEF Pop, Goto, request, DataTypeOK, ControlTypeOK, RefsValid
  <2>3. SidsIssued'
    BY <1>0, <1>6 DEF Pop, Goto, request, ControlTypeOK, SidsIssued
  <2> QED BY <2>1, <2>2, <2>3
<1>7. CASE Mkdir(t)
  <2>1. DataTypeOK'
    BY <1>0, <1>s, <1>7 DEF Mkdir, DataTypeOK, Unbound
  <2>2. todo' \in [Threads -> SUBSET FileName] /\ dirs' \subseteq issued
    BY <1>0, <1>s, <1>7 DEF Mkdir, Goto, request, ControlTypeOK, SidsIssued, Unbound
  <2>3. UNCHANGED <<op, sid, obj, rest, heap, cache>>
    BY <1>7 DEF Mkdir, Goto, request
  <2>4. \E p \in PCs : /\ pc' = [pc EXCEPT ![t] = p]
                       /\ p \in UsesObj => pc[t] \in UsesObj
    BY <1>7 DEF Mkdir, Goto
  <2>5. pc[t] \notin Unbound
    BY <1>7 DEF Mkdir, Unbound
  <2> QED BY <1>0, <2>1, <2>2, <2>3, <2>4, <2>5, Moves
<1>8. CASE OpenJson(t)
  <2>1. DataTypeOK'
    <3>1. TornFile \in JsonFile
      BY DEF TornFile, JsonFile
    <3> QED BY <1>0, <1>8, <3>1 DEF OpenJson, DataTypeOK
  <2>2. todo' \in [Threads -> SUBSET FileName] /\ dirs' \subseteq issued
    BY <1>0, <1>s, <1>8 DEF OpenJson, Goto, request, ControlTypeOK, SidsIssued, Unbound
  <2>3. UNCHANGED <<op, sid, obj, rest, heap, cache>>
    BY <1>8 DEF OpenJson, Goto, request
  <2>4. \E p \in PCs : /\ pc' = [pc EXCEPT ![t] = p]
                       /\ p \in UsesObj => pc[t] \in UsesObj
    BY <1>8 DEF OpenJson, Goto
  <2>5. pc[t] \notin Unbound
    BY <1>8 DEF OpenJson, Unbound
  <2> QED BY <1>0, <2>1, <2>2, <2>3, <2>4, <2>5, Moves
<1>9. CASE WriteJson(t)
  <2>1. DataTypeOK'
    <3>1. heap[obj[t]] \in Session
      BY <1>0, <1>9 DEF WriteJson, RefsValid, DataTypeOK
    <3>2. ToJson(heap[obj[t]]) \in JsonFile
      BY <3>1 DEF ToJson, JsonFile, Session
    <3> QED BY <1>0, <1>9, <3>2 DEF WriteJson, DataTypeOK
  <2>2. todo' \in [Threads -> SUBSET FileName] /\ dirs' \subseteq issued
    BY <1>0, <1>s, <1>9 DEF WriteJson, Goto, request, ControlTypeOK, SidsIssued, Unbound
  <2>3. UNCHANGED <<op, sid, obj, rest, heap, cache>>
    BY <1>9 DEF WriteJson, Goto, request
  <2>4. \E p \in PCs : /\ pc' = [pc EXCEPT ![t] = p]
                       /\ p \in UsesObj => pc[t] \in UsesObj
    BY <1>9 DEF WriteJson, Goto
  <2>5. pc[t] \notin Unbound
    BY <1>9 DEF WriteJson, Unbound
  <2> QED BY <1>0, <2>1, <2>2, <2>3, <2>4, <2>5, Moves
<1>10. CASE Glob(t)
  <2>1. DataTypeOK'
    BY <1>0, <1>s, <1>10 DEF Glob, DataTypeOK, Unbound
  <2>2. todo' \in [Threads -> SUBSET FileName] /\ dirs' \subseteq issued
    <3>1. FilesIn(sid[t]) \subseteq FileName
      BY <1>0, <1>s, <1>10, FilesTyped DEF Glob, Unbound
    <3> QED BY <1>0, <1>10, <3>1 DEF Glob, Goto, GotoFiles, request, ControlTypeOK, SidsIssued
  <2>3. UNCHANGED <<op, sid, obj, rest, heap, cache>>
    BY <1>10 DEF Glob, Goto, GotoFiles, request
  <2>4. \E p \in PCs : /\ pc' = [pc EXCEPT ![t] = p]
                       /\ p \in UsesObj => pc[t] \in UsesObj
    BY <1>10 DEF Glob, Goto, GotoFiles
  <2>5. pc[t] \notin Unbound
    BY <1>10 DEF Glob, Unbound
  <2> QED BY <1>0, <2>1, <2>2, <2>3, <2>4, <2>5, Moves
<1>11. CASE CheckFile(t)
  <2>1. DataTypeOK'
    BY <1>0, <1>s, <1>11 DEF CheckFile, DataTypeOK, Unbound
  <2>2. todo' \in [Threads -> SUBSET FileName] /\ dirs' \subseteq issued
    BY <1>0, <1>s, <1>11 DEF CheckFile, Goto, GotoFiles, request, ControlTypeOK, SidsIssued, Unbound
  <2>3. UNCHANGED <<op, sid, obj, rest, heap, cache>>
    BY <1>11 DEF CheckFile, Goto, GotoFiles, request
  <2>4. \E p \in PCs : /\ pc' = [pc EXCEPT ![t] = p]
                       /\ p \in UsesObj => pc[t] \in UsesObj
    BY <1>11 DEF CheckFile, Goto, GotoFiles
  <2>5. pc[t] \notin Unbound
    BY <1>11 DEF CheckFile, Unbound
  <2> QED BY <1>0, <2>1, <2>2, <2>3, <2>4, <2>5, Moves
<1>12. CASE Unlink(t)
  <2>1. DataTypeOK'
    <3>1. MissingFile \in JsonFile
      BY DEF MissingFile, JsonFile
    <3>2. json' \in [Sids -> JsonFile]
      BY <1>0, <1>12, <3>1 DEF Unlink, DataTypeOK
    <3>3. audio' \in [Sids -> SUBSET AudioFile]
      BY <1>0, <1>12, SMTT(40) DEF Unlink, DataTypeOK
    <3> QED BY <1>0, <1>12, <3>2, <3>3 DEF Unlink, DataTypeOK
  <2>2. todo' \in [Threads -> SUBSET FileName] /\ dirs' \subseteq issued
    BY <1>0, <1>s, <1>12 DEF Unlink, Goto, GotoFiles, request, ControlTypeOK, SidsIssued, Unbound
  <2>3. UNCHANGED <<op, sid, obj, rest, heap, cache>>
    BY <1>12 DEF Unlink, Goto, GotoFiles, request
  <2>4. \E p \in PCs : /\ pc' = [pc EXCEPT ![t] = p]
                       /\ p \in UsesObj => pc[t] \in UsesObj
    BY <1>12 DEF Unlink, Goto, GotoFiles
  <2>5. pc[t] \notin Unbound
    BY <1>12 DEF Unlink, Unbound
  <2> QED BY <1>0, <2>1, <2>2, <2>3, <2>4, <2>5, Moves
<1>13. CASE Rmdir(t)
  <2>1. DataTypeOK'
    BY <1>0, <1>s, <1>13 DEF Rmdir, DataTypeOK, Unbound
  <2>2. todo' \in [Threads -> SUBSET FileName] /\ dirs' \subseteq issued
    BY <1>0, <1>s, <1>13 DEF Rmdir, Goto, request, ControlTypeOK, SidsIssued, Unbound
  <2>3. UNCHANGED <<op, sid, obj, rest, heap, cache>>
    BY <1>13 DEF Rmdir, Goto, request
  <2>4. \E p \in PCs : /\ pc' = [pc EXCEPT ![t] = p]
                       /\ p \in UsesObj => pc[t] \in UsesObj
    BY <1>13 DEF Rmdir, Goto
  <2>5. pc[t] \notin Unbound
    BY <1>13 DEF Rmdir, Unbound
  <2> QED BY <1>0, <2>1, <2>2, <2>3, <2>4, <2>5, Moves
<1> QED
  BY <1>1, <1>2, <1>3, <1>4, <1>5, <1>6, <1>7, <1>8, <1>9, <1>10, <1>11, <1>12, <1>13
     DEF Store, StoreStep

\* The answer of a thread, and the arrival of a request at an idle one.
LEMMA ServeIInv ==
  ASSUME IInv, NEW t \in Threads, NEW k \in Ops, NEW p \in PCs,
         NEW s \in Sids \cup {NoSid}, NEW o \in Nat,
         Serve(t, k, p, s, o),
         p \notin UsesObj,
         p \notin Unbound => s \in issued',
         UNCHANGED <<heap, cache>>, dirs' \subseteq issued', issued \subseteq issued'
  PROVE  ControlTypeOK' /\ RefsValid' /\ SidsIssued'
<1>1. ControlTypeOK'
  BY DEF Serve, IInv, TypeOK, StoreTypeOK, ControlTypeOK
<1>2. RefsValid'
  BY DEF Serve, IInv, TypeOK, StoreTypeOK, ControlTypeOK, RefsValid
<1>3. SidsIssued'
  BY DEF Serve, IInv, TypeOK, StoreTypeOK, ControlTypeOK, SidsIssued, Unbound
<1> QED BY <1>1, <1>2, <1>3

\* An answer leaves the inductive invariant alone, whatever else the handler has
\* recorded.
LEMMA RespondIInv ==
  ASSUME IInv, NEW t \in Threads, NEW code \in Codes, Respond(t, code),
         UNCHANGED <<lock, heap, cache, json, audio, issued, turnNo, deletes, crashes>>,
         dirs' \subseteq issued, known' \subseteq issued, deleted' \subseteq issued,
         acked' \subseteq [sid : Sids, id : Nat, fact : BOOLEAN]
  PROVE  IInv'
<1>1. reply' \in [op : Ops, sid : Sids \cup {NoSid}, code : Codes]
  BY DEF Respond, IInv, TypeOK, StoreTypeOK, ControlTypeOK
<1>2. ServerTypeOK' /\ DataTypeOK'
  BY <1>1 DEF IInv, TypeOK, StoreTypeOK, DataTypeOK, ServerTypeOK
<1>3. ControlTypeOK' /\ RefsValid' /\ SidsIssued'
  BY ServeIInv DEF Respond, Unbound, Ops
<1> QED BY <1>2, <1>3 DEF IInv, TypeOK, StoreTypeOK

\* An arrival that makes no object.
LEMMA DispatchIInv ==
  ASSUME IInv, NEW t \in Threads, NEW k \in Ops, NEW p \in PCs \ UsesObj,
         NEW s \in issued \cup {NoSid},
         Dispatch(t, k, p, s, NoObj), p \notin Unbound => s \in issued,
         UNCHANGED <<lock, heap, cache, dirs, json, audio, issued, known, acked, deleted, crashes>>,
         turnNo' \in 0..MaxTurns, deletes' \in 0..MaxDeletes
  PROVE  IInv'
<1>1. reply' \in [op : Ops, sid : Sids \cup {NoSid}, code : Codes]
  BY DEF Dispatch, Continue, NoReply, Ops, Codes
<1>2. ServerTypeOK' /\ DataTypeOK'
  BY <1>1 DEF IInv, TypeOK, StoreTypeOK, DataTypeOK, ServerTypeOK
<1>3. dirs' \subseteq issued' /\ s \in Sids \cup {NoSid}
  BY DEF IInv, TypeOK, SidsIssued, ServerTypeOK
<1>4. ControlTypeOK' /\ RefsValid' /\ SidsIssued'
  BY <1>3, ServeIInv DEF Dispatch
<1> QED BY <1>2, <1>4 DEF IInv, TypeOK, StoreTypeOK

\* A request arrives.
LEMMA ArrivalIInv ==
  ASSUME IInv, Arrival
  PROVE  IInv'
<1> USE StoreAssumption, ServerAssumption
<1>0. /\ ControlTypeOK /\ DataTypeOK /\ ServerTypeOK /\ RefsValid /\ SidsIssued
      /\ known \subseteq issued /\ Workers \subseteq Threads /\ Loop \in Threads
  BY DEF IInv, TypeOK, StoreTypeOK, ServerTypeOK
<1>1. ASSUME NEW w \in Workers, StartList(w) PROVE IInv'
  BY <1>0, <1>1, DispatchIInv DEF StartList, history, Unbound, Ops, ServerTypeOK
<1>2. ASSUME NEW w \in Workers, NEW s \in Sids, StartCreate(w, s) PROVE IInv'
  <2> DEFINE x == [sid |-> s, turns |-> <<>>, memory |-> {}]
  <2>1. x \in Session /\ x.sid = s
    BY DEF Session
  <2>2. /\ heap' = Append(heap, x) /\ issued' = issued \cup {s}
        /\ Serve(w, "create", "acquire", s, Len(heap) + 1) /\ reply' = NoReply
        /\ UNCHANGED <<lock, cache, dirs, json, audio, known, turnNo, acked, deleted, deletes, crashes>>
    BY <1>2 DEF StartCreate, Dispatch, Continue
  <2> HIDE DEF x
  <2>3. /\ heap \in Seq(Session) /\ heap' \in Seq(Session) /\ Len(heap) + 1 \in Nat
        /\ Len(heap) + 1 \in DOMAIN heap' /\ heap'[Len(heap) + 1] = x
        /\ \A o \in DOMAIN heap : o \in DOMAIN heap' /\ heap'[o] = heap[o]
    BY <1>0, <2>1, <2>2 DEF DataTypeOK
  <2>4. DataTypeOK' /\ ControlTypeOK'
    BY <1>0, <2>2, <2>3 DEF DataTypeOK, ControlTypeOK, Serve, Ops
  <2>5. ServerTypeOK'
    BY <1>0, <2>2 DEF ServerTypeOK, NoReply, Ops, Codes
  <2>6. RefsValid'
    BY <1>0, <2>1, <2>2, <2>3 DEF ControlTypeOK, RefsValid, Serve
  <2>7. SidsIssued'
    BY <1>0, <2>2 DEF ControlTypeOK, SidsIssued, Serve
  <2> QED BY <2>4, <2>5, <2>6, <2>7 DEF IInv, TypeOK, StoreTypeOK
<1>3. ASSUME NEW w \in Workers, NEW s \in Sids, StartDelete(w, s) PROVE IInv'
  <2>1. deletes' \in 0..MaxDeletes
    BY <1>0, <1>3 DEF StartDelete, ServerTypeOK
  <2> QED BY <1>0, <1>3, <2>1, DispatchIInv DEF StartDelete, Unbound, Ops, ServerTypeOK
<1>4. ASSUME NEW w \in Workers, NEW s \in Sids, NEW k \in {"get", "audio"}, StartGet(w, s, k)
      PROVE  IInv'
  BY <1>0, <1>4, DispatchIInv DEF StartGet, history, Unbound, Ops, ServerTypeOK
<1>5. ASSUME NEW s \in Sids, NEW kind \in TurnKinds, StartTurn(s, kind) PROVE IInv'
  <2>1. turnNo' \in 0..MaxTurns
    BY <1>0, <1>5 DEF StartTurn, ServerTypeOK
  <2> QED BY <1>0, <1>5, <2>1, DispatchIInv DEF StartTurn, Unbound, Ops, ServerTypeOK, TurnKinds
<1> QED BY <1>1, <1>2, <1>3, <1>4, <1>5 DEF Arrival

\* A step of a pool thread's handler.
LEMMA WorkerIInv ==
  ASSUME IInv, NEW w \in Workers, WorkerStep(w)
  PROVE  IInv'
<1> USE StoreAssumption, ServerAssumption
<1>0. /\ ControlTypeOK /\ DataTypeOK /\ ServerTypeOK /\ RefsValid /\ SidsIssued
      /\ known \subseteq issued /\ deleted \subseteq issued /\ dirs \subseteq issued
      /\ issued \subseteq Sids /\ w \in Threads
      /\ acked \subseteq [sid : Sids, id : Nat, fact : BOOLEAN]
      /\ pc[w] \notin Unbound => sid[w] \in issued
  BY DEF IInv, TypeOK, StoreTypeOK, ServerTypeOK, SidsIssued, Unbound
<1>c. Continue => reply' \in [op : Ops, sid : Sids \cup {NoSid}, code : Codes]
  BY DEF Continue, NoReply, Ops, Codes
<1>1. CASE IterDir(w)
  <2>1. DataTypeOK' /\ ServerTypeOK'
    BY <1>0, <1>1, <1>c DEF IterDir, history, DataTypeOK, ServerTypeOK
  <2>2. ControlTypeOK' /\ RefsValid' /\ SidsIssued'
    BY <1>0, <1>1 DEF IterDir, history, ControlTypeOK, RefsValid, SidsIssued
  <2> QED BY <2>1, <2>2 DEF IInv, TypeOK, StoreTypeOK
<1>2. CASE ListNext(w)
  <2>1. PICK s \in rest[w] :
          /\ pc' = [pc EXCEPT ![w] = IF s \in dirs THEN "lookup" ELSE "next"]
          /\ sid' = [sid EXCEPT ![w] = s]
          /\ rest' = [rest EXCEPT ![w] = @ \ {s}]
    BY <1>2 DEF ListNext
  <2>2. DataTypeOK' /\ ServerTypeOK'
    BY <1>0, <1>2, <1>c DEF ListNext, history, DataTypeOK, ServerTypeOK
  <2>3. s \in issued /\ UNCHANGED <<op, obj, todo, heap, cache, dirs, issued>>
    BY <1>0, <1>2 DEF ListNext, history, SidsIssued
  <2>4. ControlTypeOK'
    BY <1>0, <2>1, <2>3 DEF ControlTypeOK
  <2>5. RefsValid'
    BY <1>0, <2>1, <2>3 DEF ControlTypeOK, RefsValid
  <2>6. SidsIssued'
    BY <1>0, <2>1, <2>3 DEF ControlTypeOK, SidsIssued
  <2> QED BY <2>2, <2>4, <2>5, <2>6 DEF IInv, TypeOK, StoreTypeOK
<1>3. CASE ListGot(w)
  <2>1. DataTypeOK' /\ ServerTypeOK'
    BY <1>0, <1>3, <1>c DEF ListGot, DataTypeOK, ServerTypeOK, Unbound
  <2>2. pc' = [pc EXCEPT ![w] = "next"] /\ pc[w] \notin Unbound
    BY <1>3 DEF ListGot, Goto, Unbound
  <2>3. /\ UNCHANGED <<op, sid, obj, todo, rest, heap, cache, dirs, issued>>
        /\ todo' \in [Threads -> SUBSET FileName]
    BY <1>0, <1>3 DEF ListGot, Goto, request, ControlTypeOK
  <2>4. ControlTypeOK' /\ RefsValid' /\ SidsIssued'
    BY <1>0, <2>2, <2>3, Moves
  <2> QED BY <2>1, <2>4 DEF IInv, TypeOK, StoreTypeOK
<1>4. CASE ListDone(w)
  BY <1>0, <1>4, RespondIInv DEF ListDone, history, Codes
<1>5. CASE GetDone(w)
  BY <1>0, <1>5, RespondIInv DEF GetDone, history, Codes
<1>6. CASE AudioDone(w)
  <2>1. dirs' \subseteq issued
    BY <1>0, <1>6 DEF AudioDone, Unbound
  <2>2. PICK code \in Codes : Respond(w, code)
    BY <1>6 DEF AudioDone, Codes
  <2> QED BY <1>0, <1>6, <2>1, <2>2, RespondIInv DEF AudioDone, history
<1>7. CASE CreateDone(w)
  <2>1. known' \subseteq issued
    BY <1>0, <1>7 DEF CreateDone, Unbound
  <2> QED BY <1>0, <1>7, <2>1, RespondIInv DEF CreateDone, Codes
<1>8. CASE DeleteDone(w)
  <2>1. deleted' \subseteq issued
    BY <1>0, <1>8 DEF DeleteDone, Unbound
  <2> QED BY <1>0, <1>8, <2>1, RespondIInv DEF DeleteDone, Codes
<1> QED BY <1>1, <1>2, <1>3, <1>4, <1>5, <1>6, <1>7, <1>8 DEF WorkerStep

\* An audio file written by a turn.
LEMMA WriteAudioIInv ==
  ASSUME IInv, NEW kind \in {"user", "reply"}, NEW p \in PCs,
         pc[Loop] \in {"upload", "transcode", "speak"},
         WriteAudio(kind, p), UNCHANGED <<lock, heap, cache, dirs, json, history>>
  PROVE  IInv'
<1> USE StoreAssumption, ServerAssumption
<1>0. /\ ControlTypeOK /\ DataTypeOK /\ ServerTypeOK /\ RefsValid /\ SidsIssued /\ Loop \in Threads
      /\ known \subseteq issued /\ deleted \subseteq issued /\ dirs \subseteq issued
      /\ acked \subseteq [sid : Sids, id : Nat, fact : BOOLEAN]
  BY DEF IInv, TypeOK, StoreTypeOK, ServerTypeOK, SidsIssued
<1>1. CASE Respond(Loop, "error") /\ UNCHANGED audio
  BY <1>0, <1>1, RespondIInv DEF history, Codes
<1>2. CASE /\ audio' = [audio EXCEPT ![sid[Loop]] = PutAudio(@, TurnIndex, kind, turnNo)]
           /\ Goto(Loop, p) /\ Continue
  <2>1. session \in Session
    BY <1>0 DEF RefsValid, DataTypeOK, session
  <2>2. TurnIndex \in Nat /\ turnNo \in Nat
    BY <1>0, <2>1 DEF TurnIndex, Session, ServerTypeOK
  <2>3. [index |-> TurnIndex, kind |-> kind, by |-> turnNo] \in AudioFile
    BY <2>2 DEF AudioFile
  <2>4. \A F \in SUBSET AudioFile : PutAudio(F, TurnIndex, kind, turnNo) \in SUBSET AudioFile
    BY <2>3 DEF PutAudio
  <2>5. audio' \in [Sids -> SUBSET AudioFile]
    BY <1>0, <1>2, <2>4 DEF DataTypeOK
  <2>6. DataTypeOK' /\ ServerTypeOK'
    BY <1>0, <1>2, <2>5 DEF DataTypeOK, ServerTypeOK, history, Continue, NoReply, Ops, Codes
  <2>7. /\ pc' = [pc EXCEPT ![Loop] = p] /\ pc[Loop] \notin Unbound /\ pc[Loop] \in UsesObj
        /\ UNCHANGED <<op, sid, obj, todo, rest, heap, cache, dirs, issued>>
        /\ todo' \in [Threads -> SUBSET FileName]
    BY <1>0, <1>2 DEF Goto, request, history, Unbound, ControlTypeOK
  <2>8. ControlTypeOK' /\ RefsValid' /\ SidsIssued'
    BY <1>0, <2>7, Moves
  <2> QED BY <2>6, <2>8 DEF IInv, TypeOK, StoreTypeOK
<1> QED BY <1>1, <1>2 DEF WriteAudio

\* A step of the event-loop thread that replaces the turn's object.
LEMMA HeapIInv ==
  ASSUME IInv, NEW p \in PCs, NEW x \in Session, x.sid = session.sid,
         pc[Loop] \in {"run", "append"},
         heap' = [heap EXCEPT ![obj[Loop]] = x],
         pc' = [pc EXCEPT ![Loop] = p], p \in UsesObj, UNCHANGED request, Continue,
         UNCHANGED <<lock, cache, dirs, json, audio, history>>
  PROVE  IInv'
<1> USE StoreAssumption, ServerAssumption
<1>0. /\ ControlTypeOK /\ DataTypeOK /\ ServerTypeOK /\ RefsValid /\ SidsIssued /\ Loop \in Threads
      /\ obj[Loop] \in DOMAIN heap /\ heap[obj[Loop]].sid = sid[Loop] /\ pc[Loop] \notin Unbound
  BY DEF IInv, TypeOK, StoreTypeOK, RefsValid, Unbound
<1>1. /\ heap' \in Seq(Session) /\ DOMAIN heap' = DOMAIN heap
      /\ \A o \in DOMAIN heap : heap'[o].sid = heap[o].sid
  BY <1>0 DEF DataTypeOK, session
<1>2. DataTypeOK' /\ ServerTypeOK'
  BY <1>0, <1>1 DEF DataTypeOK, ServerTypeOK, history, Continue, NoReply, Ops, Codes
<1>3. ControlTypeOK'
  BY <1>0 DEF ControlTypeOK, request
<1>4. RefsValid'
  BY <1>0, <1>1 DEF ControlTypeOK, RefsValid, request
<1>5. SidsIssued'
  BY <1>0 DEF ControlTypeOK, SidsIssued, request, history, Unbound
<1> QED BY <1>2, <1>3, <1>4, <1>5 DEF IInv, TypeOK, StoreTypeOK

\* A step of a turn.
LEMMA TurnIInv ==
  ASSUME IInv, TurnStep
  PROVE  IInv'
<1> USE StoreAssumption, ServerAssumption
<1>0. /\ ControlTypeOK /\ DataTypeOK /\ ServerTypeOK /\ RefsValid /\ SidsIssued /\ Loop \in Threads
      /\ known \subseteq issued /\ deleted \subseteq issued /\ dirs \subseteq issued
      /\ issued \subseteq Sids /\ turnNo \in Nat
      /\ acked \subseteq [sid : Sids, id : Nat, fact : BOOLEAN]
      /\ pc[Loop] \notin Unbound => sid[Loop] \in issued
      /\ pc[Loop] \in {"run", "append"} => session \in Session
  BY DEF IInv, TypeOK, StoreTypeOK, ServerTypeOK, DataTypeOK, SidsIssued, RefsValid, Unbound, session
<1>m. ASSUME NEW p \in PCs, Goto(Loop, p), Continue, pc[Loop] \in UsesObj,
             dirs' \subseteq issued, UNCHANGED <<lock, heap, cache, json, audio, history>>
      PROVE  IInv'
  <2>1. DataTypeOK' /\ ServerTypeOK'
    BY <1>0, <1>m DEF DataTypeOK, ServerTypeOK, history, Continue, NoReply, Ops, Codes
  <2>2. /\ pc' = [pc EXCEPT ![Loop] = p] /\ pc[Loop] \notin Unbound /\ pc[Loop] \in UsesObj
        /\ UNCHANGED <<op, sid, obj, todo, rest, heap, cache, issued>>
        /\ todo' \in [Threads -> SUBSET FileName]
    BY <1>0, <1>m DEF Goto, request, history, Unbound, ControlTypeOK
  <2>3. ControlTypeOK' /\ RefsValid' /\ SidsIssued'
    BY <1>0, <1>m, <2>2, Moves
  <2> QED BY <2>1, <2>3 DEF IInv, TypeOK, StoreTypeOK
<1>1. CASE RefuseBlank
  BY <1>0, <1>1, RespondIInv DEF RefuseBlank, history, Codes
<1>2. CASE Prepare
  <2>1. dirs' \subseteq issued
    BY <1>0, <1>2 DEF Prepare, Unbound
  <2>2. CASE op[Loop] = "voice"
    BY <1>2, <1>m, <2>1, <2>2 DEF Prepare
  <2>3. CASE op[Loop] # "voice"
    BY <1>2, <1>m, <2>1, <2>3 DEF Prepare
  <2> QED BY <2>2, <2>3
<1>3. CASE Upload
  BY <1>3, WriteAudioIInv DEF Upload
<1>4. CASE Transcode
  BY <1>4, WriteAudioIInv DEF Transcode
<1>5. CASE Remember
  <2>1. Remembering(session, turnNo) \in Session /\ Remembering(session, turnNo).sid = session.sid
    BY <1>0, <1>5 DEF Remember, Remembering, Session
  <2>2. pc' = [pc EXCEPT ![Loop] = "run"]
    BY <1>0, <1>5 DEF Remember, ControlTypeOK
  <2> QED BY <1>5, <2>1, <2>2, HeapIInv DEF Remember
<1>6. CASE Generate
  <2>1. CASE op[Loop] = "text"
    BY <1>0, <1>6, <1>m, <2>1 DEF Generate
  <2>2. CASE op[Loop] # "text"
    BY <1>0, <1>6, <1>m, <2>2 DEF Generate
  <2> QED BY <2>1, <2>2
<1>7. CASE Speak
  BY <1>7, WriteAudioIInv DEF Speak
<1>8. CASE PipelineFails
  BY <1>0, <1>8, RespondIInv DEF PipelineFails, history, Codes
<1>9. CASE AppendTurn
  <2> DEFINE r == [index |-> TurnIndex, id |-> turnNo, user |-> op[Loop] = "voice",
                   reply |-> op[Loop] # "text"]
  <2>1. session \in Session /\ r \in Turn
    BY <1>0, <1>9 DEF AppendTurn, TurnIndex, Session, Turn
  <2> HIDE DEF r
  <2>2. [sid |-> session.sid, memory |-> session.memory, turns |-> Append(session.turns, r)] \in Session
    BY <2>1 DEF Session
  <2>3. Extended(session, TurnIndex) \in Session /\ Extended(session, TurnIndex).sid = session.sid
    BY <2>2 DEF Extended, r
  <2> QED BY <1>9, <2>3, HeapIInv DEF AppendTurn, Goto
<1>11. CASE MakeDir
  <2>1. dirs' \subseteq issued
    BY <1>0, <1>11 DEF MakeDir, Unbound
  <2>2. CASE pc[Loop] = "convert"
    BY <1>11, <1>m, <2>1, <2>2 DEF MakeDir
  <2>3. CASE pc[Loop] = "outdir"
    BY <1>11, <1>m, <2>1, <2>3 DEF MakeDir
  <2> QED BY <1>11, <2>2, <2>3 DEF MakeDir
<1>10. CASE TurnDone
  <2>1. [sid |-> sid[Loop], id |-> turnNo, fact |-> turnNo \in session.memory]
            \in [sid : Sids, id : Nat, fact : BOOLEAN]
    BY <1>0, <1>10 DEF TurnDone, Unbound
  <2>2. acked' \subseteq [sid : Sids, id : Nat, fact : BOOLEAN]
    BY <1>0, <1>10, <2>1 DEF TurnDone
  <2> QED BY <1>0, <1>10, <2>2, RespondIInv DEF TurnDone, Codes
<1> QED
  BY <1>1, <1>2, <1>3, <1>4, <1>5, <1>6, <1>7, <1>8, <1>9, <1>10, <1>11 DEF TurnStep

\* The process dies.
LEMMA CrashIInv ==
  ASSUME IInv, Crash
  PROVE  IInv'
<1> USE StoreAssumption, ServerAssumption DEF Crash, StoreCrash
<1>0. DataTypeOK /\ ServerTypeOK /\ SidsIssued
  BY DEF IInv, TypeOK, StoreTypeOK
<1>1. ControlTypeOK'
  BY DEF ControlTypeOK, Ops
<1>2. DataTypeOK'
  BY <1>0 DEF DataTypeOK
<1>3. ServerTypeOK'
  BY <1>0 DEF ServerTypeOK, Continue, NoReply, Ops, Codes
<1>4. RefsValid' /\ SidsIssued'
  BY <1>0 DEF RefsValid, SidsIssued
<1> QED BY <1>1, <1>2, <1>3, <1>4 DEF IInv, TypeOK, StoreTypeOK

\* Every step preserves the inductive invariant.
LEMMA NextIInv == IInv /\ [Next]_vars => IInv'
<1> SUFFICES ASSUME IInv, [Next]_vars PROVE IInv'
  OBVIOUS
<1> USE StoreAssumption, ServerAssumption
<1>0. /\ known \subseteq issued /\ deleted \subseteq issued /\ dirs \subseteq issued
      /\ acked \subseteq [sid : Sids, id : Nat, fact : BOOLEAN]
  BY DEF IInv, TypeOK, ServerTypeOK, SidsIssued
<1>1. ASSUME NEW t \in Threads, NotFound(t) \/ Raised(t) PROVE IInv'
  BY <1>0, <1>1, RespondIInv DEF NotFound, Raised, history, Codes
<1>2. CASE UNCHANGED vars
  BY <1>2 DEF vars, history, request, IInv, TypeOK, StoreTypeOK, ControlTypeOK, DataTypeOK,
              ServerTypeOK, RefsValid, SidsIssued
<1> QED BY <1>1, <1>2, ArrivalIInv, StoreIInv, WorkerIInv, TurnIInv, CrashIInv DEF Next

\* The inductive invariant holds throughout.
LEMMA InvariantHolds == Spec => []IInv
<1>1. Init => IInv
  BY InitIInv
<1>2. IInv /\ [Next]_vars => IInv'
  BY NextIInv
<1> QED BY <1>1, <1>2, PTL DEF Spec

\* The variables of the store and of the handlers always have their types: what
\* session.json is parsed into, what the handlers keep and what they answer.
THEOREM TypeCorrect == Spec => []TypeOK
<1>1. IInv => TypeOK
  BY DEF IInv
<1> QED BY <1>1, InvariantHolds, PTL

\* No thread ever follows a dangling reference or one to another session's
\* object, whatever loads, deletes and restarts race with it.
THEOREM ReferencesValid == Spec => []RefsValid
<1>1. IInv => RefsValid
  BY DEF IInv
<1> QED BY <1>1, InvariantHolds, PTL
=============================================================================
