------------------------ MODULE VoiceServerLog_proofs ------------------------
(***************************************************************************)
(* What the voice server promises about answered turns, and that it        *)
(* implements ConversationLog.  The promises hold as long as no session is *)
(* deleted and, after a death of the process, only turns load sessions     *)
(* from disk: the run stale_reload shows what a get may do otherwise.      *)
(***************************************************************************)
EXTENDS VoiceServerSafety_proofs

\* The circumstances of these theorems.
Undisturbed ==
    /\ MaxDeletes = 0
    /\ MaxCrashes = 0 \/ Requests \cap {"get", "audio", "list"} = {}

LoadPCs  == {"isfile", "read", "install"}

\* A thread here has not looked its session up.
EarlyPCs == {"idle", "iterdir", "next", "lookup"}

\* The thread of a create_session that has not saved its session.
Creating(t) == op[t] = "create" /\ pc[t] \in SavePCs

\* Where a thread may be: only the event loop loads from disk, and only after
\* a death of the process; the object of a turn is the cached one.
Route(t) ==
    /\ pc[t] \notin DeletePCs \cup {"deleted"}
    /\ t = Loop =>
         /\ op[t] \in TurnKinds \cup {"none"}
         /\ pc[t] # "idle" => sid[t] \in known
         /\ pc[t] \in UsesObj \ {"install"} => cache[sid[t]] = obj[t]
    /\ t # Loop =>
         /\ pc[t] \notin LoadPCs
         /\ pc[t] \in SavePCs => op[t] = "create"
    /\ MaxCrashes = 0 =>
         /\ pc[t] \notin LoadPCs
         /\ pc[t] \in {"lookup", "found", "saved"} => cache[sid[t]] # NoObj
    /\ MaxCrashes # 0 /\ t # Loop =>
         /\ op[t] \in {"none", "create"}
         /\ pc[t] \in SavePCs \cup {"idle", "saved", "raised"}

\* A session that is being created is nobody else's.
Owner(t) ==
    Creating(t) =>
        /\ sid[t] \notin known
        /\ \A u \in Threads \ {t} : sid[u] = sid[t] => pc[u] \in EarlyPCs
        /\ cache[sid[t]] = IF pc[t] = "acquire" THEN NoObj ELSE obj[t]

RInv ==
    /\ \A t \in Threads : Route(t) /\ Owner(t)
    /\ MaxCrashes = 0 => \A s \in known \cup dirs : cache[s] # NoObj
    /\ \A s \in Sids \ issued : cache[s] = NoObj
    /\ \A a \in acked : a.sid \in known

\* A save replaces a file that exists.
Replacing == \A t \in Threads : pc[t] = "write" => json[sid[t]].state # "missing"

\* The object that a turn saves has the turn, then session.json has it too; an
\* object that a turn has just loaded has all that was answered before.
TurnKept ==
    /\ pc[Loop] \in SavePCs \cup {"saved"} =>
         \E i \in DOMAIN heap[obj[Loop]].turns : heap[obj[Loop]].turns[i].id = turnNo
    /\ pc[Loop] = "saved" => json[sid[Loop]] = ToJson(heap[obj[Loop]])
    /\ pc[Loop] = "install" =>
         \A a \in acked : a.sid = sid[Loop] => Keeps(heap[obj[Loop]], a)

\* What has been answered is kept through the next save and the next load.
KeptInv == AckedTurnsKept /\ Replacing /\ TurnKept

\* The files of the turns of session s are theirs.
Sound(s, turns) ==
    \A i \in DOMAIN turns :
        /\ turns[i].user  => [index |-> i, kind |-> "user", by |-> turns[i].id] \in audio[s]
        /\ turns[i].reply => [index |-> i, kind |-> "reply", by |-> turns[i].id] \in audio[s]

\* x, an object that may be saved as session s: its files are there, and the
\* next turn of it uses names that no turn on disk uses.
Savable(s, x) == Sound(s, x.turns) /\ Len(json[s].turns) <= Len(x.turns)

\* On disk and in the cache.
FilesKept ==
    /\ \A s \in Sids : Sound(s, json[s].turns)
    /\ \A s \in Sids : cache[s] # NoObj => Savable(s, heap[cache[s]])

\* A new session has no turns yet.
NewEmpty ==
    /\ \A t \in Threads : Creating(t) =>
         /\ heap[obj[t]].turns = <<>>
         /\ pc[t] = "acquire" => json[sid[t]].turns = <<>>
    /\ \A s \in Sids \ issued : json[s].turns = <<>>

\* The file of the turn that is being made.
MyFile(kind) == [index |-> TurnIndex, kind |-> kind, by |-> turnNo] \in audio[sid[Loop]]

\* A turn past the conversion has its recording, and one that will be appended
\* its reply.
FilePCs == {"run", "outdir", "speak", "append"}

TurnFiles ==
    /\ pc[Loop] = "install" => Savable(sid[Loop], heap[obj[Loop]])
    /\ pc[Loop] \in FilePCs /\ op[Loop] = "voice" => MyFile("user")
    /\ pc[Loop] = "append" /\ op[Loop] # "text" => MyFile("reply")

SoundInv == FilesKept /\ NewEmpty /\ TurnFiles

USE DEF PCs, HandlerPCs, SavePCs, LockedPCs, GetPCs, DeletePCs, Returned

-----------------------------------------------------------------------------
(* Where threads are.                                                      *)

\* What the invariants of this module are proved from.
Base == IInv /\ SavesExclude /\ Undisturbed

\* A step of thread t that leaves the cache alone.
LEMMA RouteStep ==
  ASSUME Base, RInv, NEW t \in Threads, NEW p, NEW k, NEW z, NEW o,
         pc' = [pc EXCEPT ![t] = p], op' = [op EXCEPT ![t] = k],
         sid' = [sid EXCEPT ![t] = z], obj' = [obj EXCEPT ![t] = o],
         UNCHANGED <<cache, issued>>,
         Route(t)',
         \/ p \in EarlyPCs
         \/ z = sid[t] /\ pc[t] \notin EarlyPCs
         \/ \A u \in Threads : Creating(u) => sid[u] # z,
         \/ k # "create" \/ p \notin SavePCs
         \/ Creating(t) /\ z = sid[t] /\ o = obj[t] /\ pc[t] # "acquire" /\ p # "acquire" /\ known' = known,
         known' = known \/ (known' = known \cup {sid[t]} /\ pc[t] \notin EarlyPCs),
         MaxCrashes = 0 => \A s \in (known' \ known) \cup (dirs' \ dirs) : cache[s] # NoObj,
         \A a \in acked' : a.sid \in known'
  PROVE  RInv'
<1>0. ControlTypeOK
  BY DEF Base, IInv, TypeOK, StoreTypeOK
<1>1. ASSUME NEW u \in Threads, u # t PROVE Route(u)'
  <2>1. pc'[u] = pc[u] /\ op'[u] = op[u] /\ sid'[u] = sid[u] /\ obj'[u] = obj[u] /\ known \subseteq known'
    BY <1>0, <1>1 DEF ControlTypeOK
  <2> QED BY <2>1 DEF RInv, Route
<1>2. ASSUME NEW u \in Threads, u # t PROVE Owner(u)'
  <2>1. /\ pc'[u] = pc[u] /\ op'[u] = op[u] /\ sid'[u] = sid[u] /\ obj'[u] = obj[u]
        /\ pc'[t] = p /\ sid'[t] = z
    BY <1>0, <1>2 DEF ControlTypeOK
  <2>2. \A v \in Threads : v # t => pc'[v] = pc[v] /\ sid'[v] = sid[v]
    BY <1>0 DEF ControlTypeOK
  <2> SUFFICES ASSUME Creating(u)' PROVE Owner(u)'
    BY DEF Owner
  <2>3. Creating(u) /\ Owner(u)
    BY <2>1 DEF Creating, RInv
  <2>4. sid'[u] \notin known'
    BY <2>1, <2>3, <1>2 DEF Owner
  <2>5. \A v \in Threads \ {u} : sid'[v] = sid'[u] => pc'[v] \in EarlyPCs
    BY <1>2, <2>1, <2>2, <2>3 DEF Owner
  <2> QED BY <2>1, <2>3, <2>4, <2>5 DEF Owner
<1>3. Owner(t)'
  <2>1. /\ pc'[t] = p /\ sid'[t] = z /\ op'[t] = k /\ obj'[t] = o
    BY <1>0 DEF ControlTypeOK
  <2>2. \A v \in Threads : v # t => pc'[v] = pc[v] /\ sid'[v] = sid[v]
    BY <1>0 DEF ControlTypeOK
  <2> QED BY <2>1, <2>2 DEF Owner, RInv, Creating
<1> QED BY <1>1, <1>2, <1>3 DEF RInv

\* A thread that goes on with its request.
LEMMA RouteGoto ==
  ASSUME Base, RInv, NEW t \in Threads, NEW p, pc' = [pc EXCEPT ![t] = p],
         UNCHANGED <<op, sid, obj, cache, issued, acked>>,
         Route(t)',
         pc[t] \in EarlyPCs => p \in EarlyPCs,
         op[t] # "create" \/ p \notin SavePCs \/ (pc[t] \in LockedPCs /\ p # "acquire" /\ known' = known),
         known' = known \/ (known' = known \cup {sid[t]} /\ pc[t] \notin EarlyPCs),
         MaxCrashes = 0 => \A s \in (known' \ known) \cup (dirs' \ dirs) : cache[s] # NoObj
  PROVE  RInv'
<1>0. ControlTypeOK
  BY DEF Base, IInv, TypeOK, StoreTypeOK
<1>1. op' = [op EXCEPT ![t] = op[t]] /\ sid' = [sid EXCEPT ![t] = sid[t]] /\ obj' = [obj EXCEPT ![t] = obj[t]]
  BY <1>0 DEF ControlTypeOK
<1>2. \A a \in acked' : a.sid \in known'
  BY DEF RInv
<1>3. \/ op[t] # "create" \/ p \notin SavePCs
      \/ Creating(t) /\ pc[t] # "acquire" /\ p # "acquire" /\ known' = known
  BY DEF Creating
<1>4. p \in EarlyPCs \/ pc[t] \notin EarlyPCs
  OBVIOUS
<1> QED BY <1>1, <1>2, <1>3, <1>4, RouteStep

\* A thread that answers and is free.
LEMMA RouteRespond ==
  ASSUME Base, RInv, NEW t \in Threads, NEW code, Respond(t, code),
         UNCHANGED <<cache, issued>>,
         known' = known \/ (known' = known \cup {sid[t]} /\ pc[t] \notin EarlyPCs),
         MaxCrashes = 0 => \A s \in (known' \ known) \cup (dirs' \ dirs) : cache[s] # NoObj,
         \A a \in acked' : a.sid \in known'
  PROVE  RInv'
<1>0. ControlTypeOK
  BY DEF Base, IInv, TypeOK, StoreTypeOK
<1>1. pc' = [pc EXCEPT ![t] = "idle"] /\ op' = [op EXCEPT ![t] = "none"] /\ sid' = [sid EXCEPT ![t] = NoSid]
      /\ obj' = [obj EXCEPT ![t] = NoObj]
  BY DEF Respond, Serve
<1>2. pc'[t] = "idle" /\ op'[t] = "none"
  BY <1>0, <1>1 DEF ControlTypeOK
<1>3. Route(t)'
  BY <1>2 DEF Route, UsesObj, LoadPCs
<1>4. "idle" \in EarlyPCs
  BY DEF EarlyPCs
<1> QED BY <1>1, <1>3, <1>4, RouteStep

\* The arrival of a request that works on known sessions.
LEMMA RouteDispatch ==
  ASSUME Base, RInv, NEW t \in Threads, NEW k, NEW p \in {"lookup", "iterdir"}, NEW s,
         Dispatch(t, k, p, s, NoObj), p = "lookup" => s \in known,
         k # "create",
         t = Loop => k \in TurnKinds /\ p = "lookup", t # Loop => k \in {"get", "audio", "list"},
         UNCHANGED <<cache, issued, known, dirs, acked>>
  PROVE  RInv'
<1>0. ControlTypeOK
  BY DEF Base, IInv, TypeOK, StoreTypeOK
<1>1. pc' = [pc EXCEPT ![t] = p] /\ op' = [op EXCEPT ![t] = k] /\ sid' = [sid EXCEPT ![t] = s]
      /\ obj' = [obj EXCEPT ![t] = NoObj] /\ k \in Requests
  BY DEF Dispatch, Serve
<1>2. pc'[t] = p /\ op'[t] = k /\ sid'[t] = s
  BY <1>0, <1>1 DEF ControlTypeOK
<1>3. MaxCrashes = 0 \/ t = Loop
  BY <1>1 DEF Base, Undisturbed
<1>4. Route(t)'
  BY <1>2, <1>3 DEF Route, UsesObj, LoadPCs, RInv
<1>5. p \in EarlyPCs /\ p \notin SavePCs
  BY DEF EarlyPCs
<1>6. \A a \in acked' : a.sid \in known'
  BY DEF RInv
<1> QED BY <1>1, <1>4, <1>5, <1>6, RouteStep

\* create_session: the new session belongs to the thread that makes it.
LEMMA RouteCreate ==
  ASSUME Base, RInv, NEW w \in Workers, NEW s \in Sids, StartCreate(w, s)
  PROVE  RInv'
<1>0. /\ ControlTypeOK /\ SidsIssued /\ w \in Threads /\ w # Loop /\ s \notin issued /\ known \subseteq issued
      /\ dirs \subseteq issued
  BY ServerAssumption DEF Base, IInv, TypeOK, StoreTypeOK, ServerTypeOK, SidsIssued, StartCreate
<1>1. /\ pc' = [pc EXCEPT ![w] = "acquire"] /\ op' = [op EXCEPT ![w] = "create"]
      /\ sid' = [sid EXCEPT ![w] = s] /\ issued' = issued \cup {s} /\ UNCHANGED <<cache, known, dirs, acked>>
      /\ obj' = [obj EXCEPT ![w] = Len(heap) + 1]
  BY DEF StartCreate, Dispatch, Serve
<1>2. /\ pc'[w] = "acquire" /\ op'[w] = "create" /\ sid'[w] = s /\ obj'[w] = Len(heap) + 1
      /\ \A u \in Threads \ {w} : pc'[u] = pc[u] /\ op'[u] = op[u] /\ sid'[u] = sid[u] /\ obj'[u] = obj[u]
  BY <1>0, <1>1 DEF ControlTypeOK
<1>3. Route(w)'
  BY <1>0, <1>2 DEF Route, LoadPCs
<1>4. ASSUME NEW u \in Threads, u # w PROVE Route(u)'
  BY <1>1, <1>2, <1>4 DEF Route, RInv
<1>5. \A u \in Threads : u # w /\ sid[u] = s => pc[u] \in EarlyPCs
  BY <1>0 DEF SidsIssued, EarlyPCs
<1>6. Owner(w)'
  BY <1>0, <1>1, <1>2, <1>5 DEF Owner, RInv
<1>7. ASSUME NEW u \in Threads, u # w PROVE Owner(u)'
  <2>1. Creating(u) => sid[u] # s
    BY <1>0 DEF SidsIssued, Creating
  <2> QED BY <1>1, <1>2, <1>7, <2>1 DEF Owner, RInv, Creating
<1>8. (\A a \in acked : a.sid \in known)' /\ (\A r \in Sids \ issued : cache[r] = NoObj)'
      /\ (MaxCrashes = 0 => \A r \in known \cup dirs : cache[r] # NoObj)'
  BY <1>1 DEF RInv
<1> QED BY <1>3, <1>4, <1>6, <1>7, <1>8 DEF RInv

\* The process dies, and every thread is idle.
LEMMA RouteCrash ==
  ASSUME Base, RInv, Crash
  PROVE  RInv'
<1>0. MaxCrashes # 0
  BY ServerAssumption DEF Crash, Base, IInv, TypeOK, ServerTypeOK
<1>1. \A t \in Threads : pc'[t] = "idle" /\ op'[t] = "none"
  BY DEF Crash, StoreCrash
<1>2. \A t \in Threads : Route(t)' /\ Owner(t)'
  BY <1>0, <1>1 DEF Route, Owner, Creating, UsesObj, LoadPCs
<1>3. (\A a \in acked : a.sid \in known)' /\ (\A r \in Sids \ issued : cache[r] = NoObj)'
  BY DEF RInv, Crash, StoreCrash
<1> QED BY <1>0, <1>2, <1>3 DEF RInv

\* A step of the store.
LEMMA RouteStore ==
  ASSUME Base, RInv, NEW t \in Threads, Store(t)
  PROVE  RInv'
<1> USE StoreAssumption, ServerAssumption
<1>0. /\ ControlTypeOK /\ DataTypeOK /\ Loop \in Threads /\ known \subseteq issued
      /\ UNCHANGED <<issued, known, acked>> /\ Route(t) /\ Owner(t)
      /\ \A a \in acked' : a.sid \in known'
  BY DEF Base, IInv, TypeOK, StoreTypeOK, ServerTypeOK, Store, history, RInv
<1>o. pc[t] \in UsesObj => obj[t] # NoObj
  BY <1>0 DEF Base, IInv, RefsValid, DataTypeOK, NoObj
<1>i. pc[t] \notin Unbound => sid[t] \in issued /\ sid[t] \in Sids
  BY DEF Base, IInv, TypeOK, ServerTypeOK, SidsIssued, Unbound
<1>1. CASE Lookup(t)
  <2>1. pc[t] = "lookup" /\ lock = NoThread /\ UNCHANGED <<cache, dirs, op, sid>>
    BY <1>1 DEF Lookup, GotoWith
  <2>2. PICK p : /\ p = IF cache[sid[t]] = NoObj THEN "isfile" ELSE "found"
                 /\ pc' = [pc EXCEPT ![t] = p] /\ obj' = [obj EXCEPT ![t] = cache[sid[t]]]
    BY <1>1 DEF Lookup, GotoWith
  <2>3. op' = [op EXCEPT ![t] = op[t]] /\ sid' = [sid EXCEPT ![t] = sid[t]]
    BY <1>0, <2>1 DEF ControlTypeOK
  <2>4. pc'[t] = p /\ op'[t] = op[t] /\ sid'[t] = sid[t] /\ obj'[t] = cache[sid[t]]
    BY <1>0, <2>2, <2>3 DEF ControlTypeOK
  <2>5. t # Loop => MaxCrashes = 0
    BY <1>0, <2>1 DEF Route
  <2>6. MaxCrashes = 0 => p = "found" /\ cache[sid[t]] # NoObj
    BY <1>0, <2>1, <2>2 DEF Route
  <2>7. Route(t)'
    BY <1>0, <2>1, <2>2, <2>4, <2>5, <2>6 DEF Route, LoadPCs, UsesObj
  <2>8. ASSUME NEW u \in Threads, Creating(u) PROVE sid[u] # sid[t]
    <3>1. Owner(u) /\ pc[u] = "acquire" /\ cache[sid[u]] = NoObj /\ sid[u] \notin known
      BY <2>1, <2>8 DEF RInv, Owner, Creating, Base, SavesExclude
    <3>2. t = Loop => sid[t] \in known
      BY <1>0, <2>1 DEF Route
    <3> QED BY <2>5, <2>6, <3>1, <3>2
  <2>9. p \notin SavePCs
    BY <2>2
  <2> QED BY <1>0, <2>1, <2>2, <2>3, <2>7, <2>8, <2>9, RouteStep
<1>2. CASE IsFile(t)
  <2>1. PICK p \in {"absent", "read"} : pc' = [pc EXCEPT ![t] = p]
    BY <1>2 DEF IsFile, Goto
  <2>2. pc[t] = "isfile" /\ UNCHANGED <<op, sid, obj, cache, dirs>>
    BY <1>2 DEF IsFile, Goto, request
  <2>3. pc'[t] = p
    BY <1>0, <2>1 DEF ControlTypeOK
  <2>4. Route(t)'
    BY <1>0, <2>1, <2>2, <2>3 DEF Route, LoadPCs, UsesObj
  <2> QED BY <1>0, <2>1, <2>2, <2>4, RouteGoto DEF EarlyPCs
<1>3. CASE ReadJson(t)
  <2>1. PICK p \in {"install", "raised"} : pc' = [pc EXCEPT ![t] = p]
    BY <1>3 DEF ReadJson, Goto, GotoWith
  <2>o. PICK o : obj' = [obj EXCEPT ![t] = o]
    <3>1. obj = [obj EXCEPT ![t] = obj[t]]
      BY <1>0 DEF ControlTypeOK
    <3> QED BY <1>3, <3>1 DEF ReadJson, Goto, GotoWith, request
  <2>2. pc[t] = "read" /\ UNCHANGED <<op, sid, cache, dirs>>
    BY <1>3 DEF ReadJson, Goto, GotoWith, request
  <2>3. op' = [op EXCEPT ![t] = op[t]] /\ sid' = [sid EXCEPT ![t] = sid[t]] /\ pc'[t] = p
    BY <1>0, <2>1, <2>2 DEF ControlTypeOK
  <2>4. Route(t)'
    BY <1>0, <2>1, <2>2, <2>3 DEF Route, LoadPCs, UsesObj
  <2>5. p \notin SavePCs /\ pc[t] \notin EarlyPCs
    BY <2>1, <2>2 DEF EarlyPCs
  <2> QED BY <1>0, <2>1, <2>o, <2>2, <2>3, <2>4, <2>5, RouteStep
<1>4. CASE Install(t)
  <2>1. /\ t = Loop /\ MaxCrashes # 0 /\ pc[t] = "install" /\ sid[t] \in known /\ sid[t] \in Sids
        /\ UNCHANGED <<op, sid, obj, dirs>> /\ pc' = [pc EXCEPT ![t] = "found"]
        /\ cache' = [cache EXCEPT ![sid[t]] = obj[t]]
    BY <1>0, <1>4, <1>i DEF Install, Route, LoadPCs, Goto, request, Unbound
  <2>2. pc'[t] = "found" /\ cache'[sid[t]] = obj[t] /\ \A u \in Threads \ {t} : pc'[u] = pc[u]
    BY <1>0, <2>1 DEF ControlTypeOK, DataTypeOK
  <2>3. Route(t)' /\ Owner(t)'
    BY <1>0, <2>1, <2>2 DEF Route, LoadPCs, Owner, Creating
  <2>4. ASSUME NEW u \in Threads, u # t PROVE Route(u)' /\ Owner(u)'
    <3>1. Route(u) /\ Owner(u)
      BY DEF RInv
    <3>2. Route(u)'
      BY <1>0, <2>1, <2>2, <2>4, <3>1 DEF Route
    <3>3. Owner(u)'
      <4>1. Creating(u) => cache'[sid[u]] = cache[sid[u]]
        BY <1>0, <2>1, <3>1 DEF Owner, DataTypeOK
      <4>2. \A v \in Threads \ {u} : pc[v] \notin EarlyPCs \/ pc'[v] = pc[v]
        BY <2>1, <2>2 DEF EarlyPCs
      <4>3. t # u => (Creating(u) => sid[u] # sid[t])
        BY <2>1, <3>1 DEF Owner
      <4> QED BY <1>0, <2>1, <2>2, <2>4, <3>1, <4>1, <4>2, <4>3 DEF Owner, Creating
    <3> QED BY <3>2, <3>3
  <2>5. \A s \in Sids \ issued' : cache'[s] = NoObj
    BY <1>0, <1>i, <2>1 DEF RInv, DataTypeOK, Unbound
  <2> QED BY <1>0, <2>1, <2>3, <2>4, <2>5 DEF RInv
<1>5. CASE Acquire(t)
  <2>1. /\ pc[t] = "acquire" /\ UNCHANGED <<op, sid, obj, dirs>> /\ pc' = [pc EXCEPT ![t] = "mkdir"]
        /\ cache' = [cache EXCEPT ![sid[t]] = obj[t]] /\ sid[t] \in issued /\ sid[t] \in Sids /\ obj[t] # NoObj
    BY <1>5, <1>i, <1>o DEF Acquire, Goto, request, UsesObj, Unbound
  <2>2. /\ pc'[t] = "mkdir" /\ cache'[sid[t]] = obj[t] /\ \A u \in Threads \ {t} : pc'[u] = pc[u]
        /\ \A s \in Sids : s # sid[t] => cache'[s] = cache[s]
    BY <1>0, <2>1 DEF ControlTypeOK, DataTypeOK
  <2>3. CASE t = Loop
    <3>1. cache[sid[t]] = obj[t] /\ op[t] # "create"
      BY <1>0, <2>1, <2>3 DEF Route, UsesObj, TurnKinds
    <3>2. UNCHANGED cache
      BY <1>0, <2>1, <3>1 DEF DataTypeOK
    <3>3. Route(t)'
      BY <1>0, <2>1, <2>2, <2>3, <3>1, <3>2 DEF Route, UsesObj, LoadPCs
    <3> QED BY <1>0, <2>1, <3>1, <3>2, <3>3, RouteGoto DEF EarlyPCs
  <2>4. CASE t # Loop
    <3>1. Creating(t) /\ Creating(t)' /\ sid[t] \notin known
          /\ \A u \in Threads \ {t} : sid[u] = sid[t] => pc[u] \in EarlyPCs
      BY <1>0, <2>1, <2>2, <2>4 DEF Route, Creating, Owner
    <3>2. Route(t)' /\ Owner(t)'
      BY <1>0, <2>1, <2>2, <2>4, <3>1 DEF Route, LoadPCs, Owner
    <3>3. ASSUME NEW u \in Threads, u # t PROVE Route(u)'
      <4>1. Route(u)
        BY DEF RInv
      <4>2. u = Loop /\ pc[u] # "idle" => sid[u] # sid[t] /\ sid[u] \in Sids
        BY <1>0, <3>1, <4>1 DEF Route, Base, IInv, TypeOK, ServerTypeOK
      <4>3. pc[u] \in {"lookup", "found", "saved"} => sid[u] \in Sids
        BY DEF Base, IInv, SidsIssued, TypeOK, ServerTypeOK
      <4> QED BY <1>0, <2>1, <2>2, <3>3, <4>1, <4>2, <4>3 DEF Route, UsesObj
    <3>4. ASSUME NEW u \in Threads, u # t PROVE Owner(u)'
      <4>1. Owner(u) /\ (Creating(u) => sid[u] # sid[t] /\ sid[u] \in Sids)
        BY <3>1, <3>4 DEF RInv, Creating, EarlyPCs, Base, IInv, SidsIssued, TypeOK, ServerTypeOK
      <4> QED BY <1>0, <2>1, <2>2, <3>4, <4>1 DEF Owner, Creating
    <3>5. /\ \A s \in Sids \ issued' : cache'[s] = NoObj
          /\ MaxCrashes = 0 => \A s \in known' \cup dirs' : cache'[s] # NoObj
      <4>1. known \cup dirs \subseteq Sids
        BY <1>0 DEF Base, IInv, TypeOK, ServerTypeOK, DataTypeOK
      <4> QED BY <1>0, <2>1, <2>2, <4>1 DEF RInv
    <3> QED BY <1>0, <3>2, <3>3, <3>4, <3>5 DEF RInv
  <2> QED BY <2>3, <2>4
<1>6. CASE Mkdir(t) \/ OpenJson(t) \/ WriteJson(t)
  <2>1. PICK p \in {"open", "write", "raised", "saved"} : pc' = [pc EXCEPT ![t] = p]
    BY <1>6 DEF Mkdir, OpenJson, WriteJson, Goto
  <2>2. pc[t] \in LockedPCs /\ UNCHANGED <<op, sid, obj, cache>> /\ dirs' \subseteq dirs \cup {sid[t]}
    BY <1>6 DEF Mkdir, OpenJson, WriteJson, Goto, request
  <2>3. pc'[t] = p
    BY <1>0, <2>1 DEF ControlTypeOK
  <2>4. cache[sid[t]] = obj[t] /\ obj[t] # NoObj
    BY <1>0, <1>o, <2>2 DEF Route, Owner, Creating, UsesObj
  <2>5. Route(t)'
    BY <1>0, <2>1, <2>2, <2>3, <2>4 DEF Route, LoadPCs, UsesObj
  <2> QED BY <1>0, <2>1, <2>2, <2>4, <2>5, RouteGoto DEF EarlyPCs
<1>7. ASSUME Pop(t) \/ Glob(t) \/ CheckFile(t) \/ Unlink(t) \/ Rmdir(t) PROVE FALSE
  BY <1>0, <1>7 DEF Pop, Glob, CheckFile, Unlink, Rmdir, Route
<1> QED BY <1>1, <1>2, <1>3, <1>4, <1>5, <1>6, <1>7 DEF Store, StoreStep

\* A step of a handler on a pool thread.
LEMMA RouteWorker ==
  ASSUME Base, RInv, NEW w \in Workers, WorkerStep(w)
  PROVE  RInv'
<1> USE StoreAssumption, ServerAssumption
<1>0. /\ ControlTypeOK /\ DataTypeOK /\ w \in Threads /\ w # Loop
      /\ UNCHANGED <<cache, issued, acked>> /\ Route(w)
  BY DEF Base, IInv, TypeOK, StoreTypeOK, RInv,
         WorkerStep, IterDir, ListNext, ListDone, ListGot, GetDone, AudioDone, CreateDone, DeleteDone, history
<1>a. UNCHANGED known => \A a \in acked' : a.sid \in known'
  BY <1>0 DEF RInv
<1>1. CASE IterDir(w)
  <2>1. /\ pc[w] = "iterdir" /\ pc' = [pc EXCEPT ![w] = "next"]
        /\ UNCHANGED <<op, sid, obj, known, dirs>>
    BY <1>1 DEF IterDir, history
  <2>2. pc'[w] = "next"
    BY <1>0, <2>1 DEF ControlTypeOK
  <2>3. Route(w)'
    BY <1>0, <2>1, <2>2 DEF Route, LoadPCs
  <2> QED BY <1>0, <2>1, <2>3, RouteGoto DEF EarlyPCs
<1>2. CASE ListNext(w)
  <2>1. PICK s \in Sids : /\ pc' = [pc EXCEPT ![w] = IF s \in dirs THEN "lookup" ELSE "next"]
                          /\ sid' = [sid EXCEPT ![w] = s]
    BY <1>0, <1>2 DEF ListNext, ControlTypeOK
  <2>2. PICK p \in {"lookup", "next"} : pc' = [pc EXCEPT ![w] = p] /\ (p = "lookup" => s \in dirs)
    BY <2>1
  <2>3. pc[w] = "next" /\ UNCHANGED <<op, obj, known, dirs>>
    BY <1>2 DEF ListNext, history
  <2>4. op' = [op EXCEPT ![w] = op[w]] /\ obj' = [obj EXCEPT ![w] = obj[w]] /\ pc'[w] = p /\ sid'[w] = s
    BY <1>0, <2>1, <2>2, <2>3 DEF ControlTypeOK
  <2>5. Route(w)'
    BY <1>0, <2>2, <2>3, <2>4 DEF Route, LoadPCs, RInv
  <2>6. p \in EarlyPCs /\ p \notin SavePCs
    BY <2>2 DEF EarlyPCs
  <2> QED BY <1>0, <1>a, <2>1, <2>2, <2>3, <2>4, <2>5, <2>6, RouteStep
<1>3. CASE ListGot(w)
  <2>1. /\ pc[w] \in {"found", "absent"} /\ pc' = [pc EXCEPT ![w] = "next"]
        /\ UNCHANGED <<op, sid, obj, dirs>>
        /\ known' = IF pc[w] = "found" THEN known \cup {sid[w]} ELSE known
    BY <1>3 DEF ListGot, Goto, request
  <2>2. pc'[w] = "next"
    BY <1>0, <2>1 DEF ControlTypeOK
  <2>3. MaxCrashes = 0
    BY <1>0, <2>1 DEF Route
  <2>4. Route(w)'
    BY <1>0, <2>1, <2>2, <2>3 DEF Route, LoadPCs
  <2>5. pc[w] \notin EarlyPCs /\ \A s \in known' \ known : cache[s] # NoObj
    BY <1>0, <2>1, <2>3 DEF Route, EarlyPCs
  <2> QED BY <1>0, <2>1, <2>4, <2>5, RouteGoto
<1>4. CASE ListDone(w) \/ GetDone(w) \/ DeleteDone(w)
  <2>1. UNCHANGED <<known, dirs>> /\ Respond(w, "ok")
    BY <1>4 DEF ListDone, GetDone, DeleteDone, history
  <2> QED BY <1>0, <1>a, <2>1, RouteRespond
<1>5. CASE AudioDone(w)
  <2>1. UNCHANGED known /\ dirs' = dirs \cup {sid[w]} /\ pc[w] = "found" /\ \E code : Respond(w, code)
    BY <1>5 DEF AudioDone, history
  <2>2. MaxCrashes = 0 => cache[sid[w]] # NoObj
    BY <1>0, <2>1 DEF Route
  <2> QED BY <1>0, <1>a, <2>1, <2>2, RouteRespond
<1>6. CASE CreateDone(w)
  <2>1. UNCHANGED dirs /\ known' = known \cup {sid[w]} /\ pc[w] = "saved" /\ Respond(w, "ok")
    BY <1>6 DEF CreateDone
  <2>2. (MaxCrashes = 0 => cache[sid[w]] # NoObj) /\ pc[w] \notin EarlyPCs
    BY <1>0, <2>1 DEF Route, EarlyPCs
  <2>3. \A a \in acked' : a.sid \in known'
    BY <1>0, <2>1 DEF RInv
  <2> QED BY <1>0, <2>1, <2>2, <2>3, RouteRespond
<1> QED BY <1>1, <1>2, <1>3, <1>4, <1>5, <1>6 DEF WorkerStep

\* A step of a turn.
LEMMA RouteTurn ==
  ASSUME Base, RInv, TurnStep
  PROVE  RInv'
<1> USE StoreAssumption, ServerAssumption
<1>0. /\ ControlTypeOK /\ DataTypeOK /\ Loop \in Threads
      /\ UNCHANGED <<cache, issued, known>> /\ Route(Loop)
      /\ pc[Loop] \in UsesObj \ {"install"} /\ pc[Loop] \notin SavePCs /\ pc[Loop] \notin EarlyPCs
      /\ sid[Loop] \in known /\ op[Loop] # "create"
  BY DEF Base, IInv, TypeOK, StoreTypeOK, RInv, Route, UsesObj, EarlyPCs, TurnKinds,
         TurnStep, RefuseBlank, Prepare, Upload, MakeDir, Transcode, Remember, Generate, Speak, PipelineFails,
         AppendTurn, TurnDone, history
<1>c. MaxCrashes = 0 => cache[sid[Loop]] # NoObj
  BY <1>0 DEF RInv
<1>a. UNCHANGED acked => \A a \in acked' : a.sid \in known'
  BY <1>0 DEF RInv
<1>g. ASSUME NEW p \in {"upload", "run", "convert", "transcode", "speak", "append", "outdir", "acquire"},
             Goto(Loop, p), UNCHANGED acked, dirs' \subseteq dirs \cup {sid[Loop]}
      PROVE  RInv'
  <2>1. pc' = [pc EXCEPT ![Loop] = p] /\ pc'[Loop] = p /\ UNCHANGED <<op, sid, obj>>
    BY <1>0, <1>g DEF Goto, request, ControlTypeOK
  <2>2. Route(Loop)'
    BY <1>0, <2>1 DEF Route, LoadPCs
  <2> QED BY <1>0, <1>c, <1>g, <2>1, <2>2, RouteGoto
<1>1. CASE RefuseBlank \/ PipelineFails
  <2>1. UNCHANGED <<dirs, acked>> /\ Respond(Loop, "error")
    BY <1>1 DEF RefuseBlank, PipelineFails, history
  <2> QED BY <1>0, <1>a, <2>1, RouteRespond
<1>2. CASE TurnDone
  <2>1. /\ UNCHANGED dirs /\ Respond(Loop, "ok")
        /\ acked' = acked \cup {[sid |-> sid[Loop], id |-> turnNo, fact |-> turnNo \in session.memory]}
    BY <1>2 DEF TurnDone
  <2>2. \A a \in acked' : a.sid \in known'
    BY <1>0, <2>1 DEF RInv
  <2> QED BY <1>0, <2>1, <2>2, RouteRespond
<1>3. CASE Upload \/ Transcode \/ Speak
  <2>1. /\ UNCHANGED <<dirs, acked>>
        /\ \E k \in {"user", "reply"}, p \in {"convert", "run", "append"} : WriteAudio(k, p)
    BY <1>3 DEF Upload, Transcode, Speak, history
  <2>2. CASE Respond(Loop, "error")
    BY <1>0, <1>a, <2>1, <2>2, RouteRespond
  <2>3. CASE \E p \in {"convert", "run", "append"} : Goto(Loop, p)
    BY <1>g, <2>1, <2>3
  <2> QED BY <2>1, <2>2, <2>3 DEF WriteAudio
<1>4. CASE Prepare \/ MakeDir \/ Generate \/ AppendTurn
  <2>1. /\ UNCHANGED acked /\ dirs' \subseteq dirs \cup {sid[Loop]}
        /\ \E p \in {"upload", "run", "transcode", "speak", "append", "outdir", "acquire"} : Goto(Loop, p)
    BY <1>4 DEF Prepare, MakeDir, Generate, AppendTurn, history
  <2> QED BY <1>g, <2>1
<1>5. CASE Remember
  <2>1. UNCHANGED <<pc, op, sid, obj, dirs, acked>>
    BY <1>5 DEF Remember, request, history
  <2> QED BY <1>0, <2>1 DEF RInv, Route, Owner, Creating
<1> QED BY <1>1, <1>2, <1>3, <1>4, <1>5 DEF TurnStep

\* Every step keeps the threads where they belong.
LEMMA NextRoute == Base /\ RInv /\ [Next]_vars => RInv'
<1> SUFFICES ASSUME Base, RInv, [Next]_vars PROVE RInv'
  OBVIOUS
<1> USE StoreAssumption, ServerAssumption
<1>0. Loop \in Threads /\ Workers \subseteq Threads /\ Loop \notin Workers
  OBVIOUS
<1>1. CASE Arrival
  <2>1. ASSUME NEW w \in Workers, StartList(w) PROVE RInv'
    BY <1>0, <2>1, RouteDispatch DEF StartList, history
  <2>2. ASSUME NEW w \in Workers, NEW s \in Sids, StartDelete(w, s) PROVE FALSE
    BY <2>2 DEF StartDelete, Base, Undisturbed, IInv, TypeOK, ServerTypeOK
  <2>3. ASSUME NEW w \in Workers, NEW s \in Sids, NEW k \in {"get", "audio"}, StartGet(w, s, k) PROVE RInv'
    BY <1>0, <2>3, RouteDispatch DEF StartGet, history
  <2>4. ASSUME NEW s \in Sids, NEW kind \in TurnKinds, StartTurn(s, kind) PROVE RInv'
    <3>1. kind # "create"
      BY DEF TurnKinds
    <3> QED BY <1>0, <2>4, <3>1, RouteDispatch DEF StartTurn
  <2>5. ASSUME NEW w \in Workers, NEW s \in Sids, StartCreate(w, s) PROVE RInv'
    BY <2>5, RouteCreate
  <2> QED BY <1>1, <2>1, <2>2, <2>3, <2>4, <2>5 DEF Arrival
<1>2. ASSUME NEW t \in Threads, NotFound(t) \/ Raised(t) PROVE RInv'
  <2>1. UNCHANGED <<cache, issued, known, dirs, acked>> /\ \E code : Respond(t, code)
    BY <1>2 DEF NotFound, Raised, history
  <2>2. \A a \in acked' : a.sid \in known'
    BY <2>1 DEF RInv
  <2> QED BY <2>1, <2>2, RouteRespond
<1>3. CASE UNCHANGED vars
  BY <1>3 DEF vars, history, request, RInv, Route, Owner, Creating
<1> QED BY <1>1, <1>2, <1>3, RouteStore, RouteWorker, RouteTurn, RouteCrash DEF Next

\* The threads are where they belong throughout.
LEMMA RouteHolds ==
  ASSUME Undisturbed
  PROVE  Spec => []RInv
<1>1. Init => RInv
  BY StoreAssumption, ServerAssumption DEF Init, StoreInit, RInv, Route, Owner, Creating, LoadPCs, UsesObj
<1>2. IInv /\ SavesExclude /\ RInv /\ [Next]_vars => RInv'
  BY NextRoute DEF Base
<1> QED BY <1>1, <1>2, InvariantHolds, MutualExclusion, PTL DEF Spec

-----------------------------------------------------------------------------
(* Answered turns are kept.                                                *)

\* y has everything that x has.
Grown(x, y) ==
    /\ \A i \in DOMAIN x.turns : i \in DOMAIN y.turns /\ y.turns[i] = x.turns[i]
    /\ x.memory \subseteq y.memory

\* The objects of the process stay, and lose nothing.
HeapGrows == \A o \in DOMAIN heap : o \in DOMAIN heap' /\ Grown(heap[o], heap'[o])

\* An untouched heap loses nothing.
LEMMA SameHeapGrows == UNCHANGED heap => HeapGrows
BY DEF HeapGrows, Grown

\* A new object leaves the others alone.
LEMMA NewObject ==
  ASSUME IInv, NEW x, heap' = Append(heap, x)
  PROVE  /\ HeapGrows
         /\ \A o \in DOMAIN heap : o \in DOMAIN heap' /\ heap'[o] = heap[o]
         /\ Len(heap) + 1 \in DOMAIN heap' /\ heap'[Len(heap) + 1] = x
         /\ \A o \in DOMAIN heap' : o \in DOMAIN heap \/ o = Len(heap) + 1
<1>0. heap \in Seq(Session)
  BY DEF IInv, TypeOK, StoreTypeOK, DataTypeOK
<1>1. /\ \A o \in DOMAIN heap : o \in DOMAIN heap' /\ heap'[o] = heap[o]
      /\ Len(heap) + 1 \in DOMAIN heap' /\ heap'[Len(heap) + 1] = x
      /\ \A o \in DOMAIN heap' : o \in DOMAIN heap \/ o = Len(heap) + 1
  BY <1>0
<1> QED BY <1>1 DEF HeapGrows, Grown

\* A changed object is no other.
LEMMA ChangedObject ==
  ASSUME IInv, NEW o \in DOMAIN heap, NEW x, heap' = [heap EXCEPT ![o] = x]
  PROVE  /\ heap'[o] = x /\ DOMAIN heap' = DOMAIN heap
         /\ \A r \in DOMAIN heap : r # o => heap'[r] = heap[r]
         /\ Grown(heap[o], x) => HeapGrows
<1>0. heap \in Seq(Session)
  BY DEF IInv, TypeOK, StoreTypeOK, DataTypeOK
<1>1. /\ heap'[o] = x /\ DOMAIN heap' = DOMAIN heap
      /\ \A r \in DOMAIN heap : r # o => heap'[r] = heap[r]
  BY <1>0
<1> QED BY <1>1 DEF HeapGrows, Grown

\* The remember tool changes no turn.
LEMMA RememberObject ==
  ASSUME IInv, Remember
  PROVE  /\ HeapGrows /\ obj[Loop] \in DOMAIN heap /\ DOMAIN heap' = DOMAIN heap
         /\ \A o \in DOMAIN heap : heap'[o].turns = heap[o].turns
<1>0. obj[Loop] \in DOMAIN heap /\ heap' = [heap EXCEPT ![obj[Loop]] = Remembering(session, turnNo)]
  BY ServerAssumption DEF IInv, RefsValid, UsesObj, Remember
<1>1. Remembering(session, turnNo).turns = heap[obj[Loop]].turns
      /\ heap[obj[Loop]].memory \subseteq Remembering(session, turnNo).memory
  BY DEF Remembering, session
<1>2. Grown(heap[obj[Loop]], Remembering(session, turnNo))
  BY <1>1 DEF Grown
<1> QED BY <1>0, <1>1, <1>2, ChangedObject

\* _save_turn_and_respond adds one turn at the end of one object.
LEMMA AppendObject ==
  ASSUME IInv, AppendTurn
  PROVE  /\ HeapGrows /\ obj[Loop] \in DOMAIN heap /\ DOMAIN heap' = DOMAIN heap
         /\ \A o \in DOMAIN heap : o # obj[Loop] => heap'[o] = heap[o]
         /\ heap[obj[Loop]].turns \in Seq(Turn)
         /\ heap'[obj[Loop]].turns =
               Append(heap[obj[Loop]].turns,
                      [index |-> TurnIndex, id |-> turnNo, user |-> op[Loop] = "voice",
                       reply |-> op[Loop] # "text"])
<1>0. /\ obj[Loop] \in DOMAIN heap /\ heap' = [heap EXCEPT ![obj[Loop]] = Extended(session, TurnIndex)]
      /\ heap \in Seq(Session)
  BY ServerAssumption DEF IInv, RefsValid, UsesObj, AppendTurn, TypeOK, StoreTypeOK, DataTypeOK
<1> DEFINE r == [index |-> TurnIndex, id |-> turnNo, user |-> op[Loop] = "voice", reply |-> op[Loop] # "text"]
<1>1. Extended(session, TurnIndex).turns = Append(heap[obj[Loop]].turns, r)
      /\ heap[obj[Loop]].memory = Extended(session, TurnIndex).memory
  BY DEF Extended, session
<1> HIDE DEF r
<1>2. heap[obj[Loop]].turns \in Seq(Turn)
  <2>1. \A x \in Session : x.turns \in Seq(Turn)
    BY DEF Session
  <2> QED BY <1>0, <2>1
<1>3. Grown(heap[obj[Loop]], Extended(session, TurnIndex))
  BY <1>1, <1>2 DEF Grown
<1>4. /\ heap'[obj[Loop]] = Extended(session, TurnIndex) /\ DOMAIN heap' = DOMAIN heap
      /\ \A o \in DOMAIN heap : o # obj[Loop] => heap'[o] = heap[o]
      /\ HeapGrows
  BY <1>0, <1>3, ChangedObject
<1> QED BY <1>0, <1>1, <1>2, <1>4 DEF r

\* A step that forgets nothing of the sessions that clients know.
LEMMA KeptFrame ==
  ASSUME Base, RInv, AckedTurnsKept, UNCHANGED acked, HeapGrows,
         \A s \in known : cache'[s] = cache[s],
         \A s \in known : \/ json'[s] = json[s]
                          \/ json'[s].state = "torn"
                          \/ cache[s] # NoObj /\ json'[s] = ToJson(heap[cache[s]])
  PROVE  AckedTurnsKept'
<1>1. ASSUME NEW x, NEW y, NEW a, Keeps(x, a), Grown(x, y) PROVE Keeps(y, a)
  BY <1>1 DEF Keeps, Grown
<1>2. ASSUME NEW x, NEW a, Keeps(x, a) PROVE Keeps(ToJson(x), a)
  BY <1>2 DEF Keeps, ToJson
<1>3. \A x : ToJson(x).state = "whole"
  BY DEF ToJson
<1>4. ASSUME NEW a \in acked
      PROVE  /\ json'[a.sid].state # "missing"
             /\ json'[a.sid].state = "whole" => Keeps(json'[a.sid], a)
             /\ cache'[a.sid] # NoObj => Keeps(heap'[cache'[a.sid]], a)
  <2>1. a.sid \in known /\ a.sid \in Sids
    BY DEF RInv, Base, IInv, TypeOK, ServerTypeOK
  <2>2. cache[a.sid] # NoObj => cache[a.sid] \in DOMAIN heap
    BY <2>1 DEF Base, IInv, RefsValid
  <2> QED BY <1>1, <1>2, <1>3, <2>1, <2>2 DEF AckedTurnsKept, AckedTurnsSaved, HeapGrows
<1>5. ASSUME NEW a \in acked'
      PROVE  /\ json'[a.sid].state # "missing"
             /\ json'[a.sid].state = "whole" => Keeps(json'[a.sid], a)
             /\ cache'[a.sid] # NoObj => Keeps(heap'[cache'[a.sid]], a)
  BY <1>4, <1>5
<1> QED BY <1>5 DEF AckedTurnsKept, AckedTurnsSaved, Keeps

\* A step of thread t that changes nothing of the store and saves nothing.
LEMMA KeptQuiet ==
  ASSUME Base, RInv, KeptInv, NEW t \in Threads, NEW p, NEW z, NEW o,
         pc' = [pc EXCEPT ![t] = p], sid' = [sid EXCEPT ![t] = z], obj' = [obj EXCEPT ![t] = o],
         UNCHANGED <<heap, cache, json, acked>>,
         p \notin {"write", "install", "acquire"},
         p \in {"mkdir", "open"} => pc[t] \in SavePCs /\ o = obj[t],
         t = Loop => p # "saved",
         turnNo' = turnNo \/ (t = Loop /\ p \notin SavePCs)
  PROVE  KeptInv'
<1>0. ControlTypeOK /\ Loop \in Threads
  BY ServerAssumption DEF Base, IInv, TypeOK, StoreTypeOK
<1>1. AckedTurnsKept'
  BY KeptFrame, SameHeapGrows DEF KeptInv
<1>2. \A u \in Threads : pc'[u] = "write" => pc[u] = "write" /\ sid'[u] = sid[u]
  BY <1>0 DEF ControlTypeOK
<1>3. Replacing'
  BY <1>2 DEF KeptInv, Replacing
<1>4. /\ pc'[Loop] \in {"saved", "install"} => pc[Loop] = pc'[Loop] /\ sid'[Loop] = sid[Loop] /\ obj'[Loop] = obj[Loop]
                                               /\ turnNo' = turnNo
      /\ pc'[Loop] \in SavePCs => pc[Loop] \in SavePCs /\ obj'[Loop] = obj[Loop] /\ turnNo' = turnNo
  BY <1>0 DEF ControlTypeOK
<1>5. TurnKept'
  BY <1>4 DEF KeptInv, TurnKept, Keeps
<1> QED BY <1>1, <1>3, <1>5 DEF KeptInv

\* The same for a thread that goes on with its session and object.
LEMMA KeptGoto ==
  ASSUME Base, RInv, KeptInv, NEW t \in Threads, NEW p, pc' = [pc EXCEPT ![t] = p],
         UNCHANGED <<sid, obj, heap, cache, json, acked, turnNo>>,
         p \notin {"write", "install", "acquire"},
         p \in {"mkdir", "open"} => pc[t] \in SavePCs,
         t = Loop => p # "saved"
  PROVE  KeptInv'
<1>0. ControlTypeOK
  BY DEF Base, IInv, TypeOK, StoreTypeOK
<1>1. sid' = [sid EXCEPT ![t] = sid[t]] /\ obj' = [obj EXCEPT ![t] = obj[t]]
  BY <1>0 DEF ControlTypeOK
<1>2. UNCHANGED <<heap, cache, json, acked>> /\ turnNo' = turnNo
  OBVIOUS
<1>3. PICK z, o : z = sid[t] /\ o = obj[t]
  OBVIOUS
<1>4. p \in {"mkdir", "open"} => pc[t] \in SavePCs /\ o = obj[t]
  BY <1>3
<1>5. sid' = [sid EXCEPT ![t] = z] /\ obj' = [obj EXCEPT ![t] = o] /\ t \in Threads
  BY <1>1, <1>3
<1>6. (t = Loop => p # "saved") /\ p # "write" /\ p # "install" /\ p # "acquire"
  OBVIOUS
<1> HIDE DEF PCs, HandlerPCs, SavePCs, LockedPCs, GetPCs, DeletePCs, Returned
<1> QED BY ONLY Base, RInv, KeptInv, pc' = [pc EXCEPT ![t] = p], <1>2, <1>4, <1>5, <1>6, KeptQuiet

\* An answer.
LEMMA KeptRespond ==
  ASSUME Base, RInv, KeptInv, NEW t \in Threads, NEW code, Respond(t, code),
         UNCHANGED <<heap, cache, json, acked, turnNo>>
  PROVE  KeptInv'
BY KeptQuiet DEF Respond, Serve

\* The arrival of a request.
LEMMA KeptDispatch ==
  ASSUME Base, RInv, KeptInv, NEW t \in Threads, NEW k, NEW p \in {"lookup", "iterdir"}, NEW s,
         Dispatch(t, k, p, s, NoObj),
         UNCHANGED <<heap, cache, json, acked>>, turnNo' = turnNo \/ t = Loop
  PROVE  KeptInv'
BY KeptQuiet DEF Dispatch, Serve

\* A new object, which no turn refers to.
LEMMA KeptCreate ==
  ASSUME Base, RInv, KeptInv, NEW w \in Workers, NEW s \in Sids, StartCreate(w, s)
  PROVE  KeptInv'
<1> DEFINE x == [sid |-> s, turns |-> <<>>, memory |-> {}]
<1>0. ControlTypeOK /\ w \in Threads /\ Loop \in Threads /\ w # Loop
  BY ServerAssumption DEF Base, IInv, TypeOK, StoreTypeOK
<1>1. /\ heap' = Append(heap, x) /\ pc' = [pc EXCEPT ![w] = "acquire"] /\ sid' = [sid EXCEPT ![w] = s]
      /\ obj' = [obj EXCEPT ![w] = Len(heap) + 1] /\ UNCHANGED <<cache, json, acked, turnNo>>
  BY DEF StartCreate, Dispatch, Serve
<1> HIDE DEF x
<1>2. HeapGrows /\ \A o \in DOMAIN heap : heap'[o] = heap[o]
  BY <1>1, NewObject DEF Base
<1>3. AckedTurnsKept'
  BY <1>1, <1>2, KeptFrame DEF KeptInv
<1>4. /\ \A u \in Threads \ {w} : pc'[u] = pc[u] /\ sid'[u] = sid[u] /\ obj'[u] = obj[u]
      /\ pc'[w] = "acquire"
  BY <1>0, <1>1 DEF ControlTypeOK
<1>5. Replacing'
  BY <1>1, <1>4 DEF KeptInv, Replacing
<1>6. pc[Loop] \in UsesObj => obj[Loop] \in DOMAIN heap
  BY <1>0 DEF Base, IInv, RefsValid
<1>7. TurnKept'
  BY <1>0, <1>1, <1>2, <1>4, <1>6 DEF KeptInv, TurnKept, Keeps, UsesObj
<1> QED BY <1>3, <1>5, <1>7 DEF KeptInv

\* A step of the store.
LEMMA KeptStore ==
  ASSUME Base, RInv, KeptInv, NEW t \in Threads, Store(t)
  PROVE  KeptInv'
<1> USE StoreAssumption, ServerAssumption
<1>0. /\ ControlTypeOK /\ DataTypeOK /\ Loop \in Threads /\ known \subseteq Sids
      /\ UNCHANGED <<issued, known, acked, turnNo>> /\ Route(t) /\ Owner(t)
  BY DEF Base, IInv, TypeOK, StoreTypeOK, ServerTypeOK, Store, history, RInv
<1>o. pc[t] \in UsesObj => obj[t] # NoObj /\ obj[t] \in DOMAIN heap
  BY <1>0 DEF Base, IInv, RefsValid, DataTypeOK, NoObj
<1>i. pc[t] \notin Unbound => sid[t] \in issued /\ sid[t] \in Sids
  BY DEF Base, IInv, TypeOK, ServerTypeOK, SidsIssued, Unbound
<1>s. pc[t] \in SavePCs => t = Loop \/ sid[t] \notin known
  BY <1>0 DEF Route, Owner, Creating
<1>l. t # Loop /\ pc[t] \in SavePCs /\ pc[Loop] \in UsesObj => sid[Loop] # sid[t]
  <2>1. Route(Loop)
    BY <1>0 DEF RInv
  <2> QED BY <1>s, <2>1 DEF Route, UsesObj
<1>1. CASE Lookup(t) \/ IsFile(t)
  <2>1. \E p \in {"found", "isfile", "absent", "read"} : pc' = [pc EXCEPT ![t] = p]
    BY <1>1 DEF Lookup, IsFile, Goto, GotoWith
  <2>2. UNCHANGED <<heap, cache, json>> /\ \E o : obj' = [obj EXCEPT ![t] = o]
    <3>1. obj = [obj EXCEPT ![t] = obj[t]]
      BY <1>0 DEF ControlTypeOK
    <3> QED BY <1>1, <3>1 DEF Lookup, IsFile, Goto, GotoWith, request
  <2>3. sid' = [sid EXCEPT ![t] = sid[t]]
    BY <1>0, <1>1 DEF Lookup, IsFile, Goto, GotoWith, request, ControlTypeOK
  <2> QED BY <1>0, <2>1, <2>2, <2>3, KeptQuiet
<1>2. CASE ReadJson(t)
  <2>1. CASE json[sid[t]].state # "whole"
    <3>1. pc' = [pc EXCEPT ![t] = "raised"] /\ UNCHANGED <<sid, obj, heap, cache, json>>
      BY <1>2, <2>1 DEF ReadJson, Goto, request
    <3> QED BY <1>0, <3>1, KeptGoto
  <2>2. CASE json[sid[t]].state = "whole"
    <3> DEFINE x == FromJson(sid[t], json[sid[t]])
    <3>1. /\ t = Loop /\ pc[t] = "read" /\ heap' = Append(heap, x) /\ UNCHANGED <<sid, cache, json>>
          /\ pc' = [pc EXCEPT ![t] = "install"] /\ obj' = [obj EXCEPT ![t] = Len(heap) + 1]
      BY <1>0, <1>2, <2>2 DEF ReadJson, GotoWith, Route, LoadPCs
    <3>2. x.turns = json[sid[t]].turns /\ x.memory = json[sid[t]].memory
      BY DEF FromJson
    <3>3. \A a \in acked : a.sid = sid[t] => Keeps(x, a)
      <4>1. \A a \in acked : a.sid = sid[t] => Keeps(json[sid[t]], a)
        BY <2>2 DEF KeptInv, AckedTurnsKept, AckedTurnsSaved
      <4> QED BY <3>2, <4>1 DEF Keeps
    <3> HIDE DEF x
    <3>4. HeapGrows /\ heap'[Len(heap) + 1] = x
      BY <3>1, NewObject DEF Base
    <3>5. AckedTurnsKept'
      BY <1>0, <3>1, <3>4, KeptFrame DEF KeptInv
    <3>6. \A u \in Threads : pc'[u] = "write" => pc[u] = "write"
      BY <1>0, <3>1 DEF ControlTypeOK
    <3>7. Replacing'
      BY <3>1, <3>6 DEF KeptInv, Replacing
    <3>8. pc'[Loop] = "install" /\ obj'[Loop] = Len(heap) + 1
      BY <1>0, <3>1 DEF ControlTypeOK
    <3>9. TurnKept'
      BY <1>0, <3>1, <3>3, <3>4, <3>8 DEF TurnKept, Keeps
    <3> QED BY <3>5, <3>7, <3>9 DEF KeptInv
  <2> QED BY <2>1, <2>2
<1>3. CASE Install(t)
  <2>1. /\ t = Loop /\ pc[t] = "install" /\ UNCHANGED <<sid, obj, heap, json>> /\ sid[t] \in Sids
        /\ cache' = [cache EXCEPT ![sid[t]] = obj[t]] /\ pc' = [pc EXCEPT ![t] = "found"]
    BY <1>0, <1>i, <1>3 DEF Install, Goto, request, Route, LoadPCs, Unbound
  <2>2. /\ pc'[Loop] = "found" /\ \A u \in Threads : pc'[u] = "write" => pc[u] = "write"
        /\ cache'[sid[t]] = obj[t] /\ \A s \in Sids : s # sid[t] => cache'[s] = cache[s]
    BY <1>0, <2>1 DEF ControlTypeOK, DataTypeOK
  <2>3. AckedTurnsSaved'
    BY <1>0, <2>1 DEF KeptInv, AckedTurnsKept, AckedTurnsSaved, Keeps
  <2>4. ASSUME NEW a \in acked, cache'[a.sid] # NoObj PROVE Keeps(heap'[cache'[a.sid]], a)
    <3>1. a.sid \in Sids
      BY <1>0 DEF RInv
    <3>2. CASE a.sid = sid[t]
      BY <2>1, <2>2, <3>2 DEF KeptInv, TurnKept
    <3>3. CASE a.sid # sid[t]
      BY <2>1, <2>2, <2>4, <3>1, <3>3 DEF KeptInv, AckedTurnsKept
    <3> QED BY <3>2, <3>3
  <2>5. AckedTurnsKept'
    BY <1>0, <2>3, <2>4 DEF AckedTurnsKept, Keeps
  <2>6. Replacing' /\ TurnKept'
    BY <2>1, <2>2 DEF KeptInv, Replacing, TurnKept
  <2> QED BY <2>5, <2>6 DEF KeptInv
<1>4. CASE Acquire(t)
  <2>1. /\ pc[t] = "acquire" /\ UNCHANGED <<sid, obj, heap, json>> /\ sid[t] \in Sids
        /\ cache' = [cache EXCEPT ![sid[t]] = obj[t]] /\ pc' = [pc EXCEPT ![t] = "mkdir"]
    BY <1>i, <1>4 DEF Acquire, Goto, request, Unbound
  <2>2. \A s \in known : cache'[s] = cache[s]
    <3>1. t = Loop => cache[sid[t]] = obj[t]
      BY <1>0, <2>1 DEF Route, UsesObj
    <3> QED BY <1>0, <1>s, <2>1, <3>1 DEF DataTypeOK
  <2>3. AckedTurnsKept'
    BY <1>0, <2>1, <2>2, KeptFrame, SameHeapGrows DEF KeptInv
  <2>4. /\ \A u \in Threads : pc'[u] = "write" => pc[u] = "write"
        /\ pc'[Loop] \in {"saved", "install"} => pc'[Loop] = pc[Loop]
        /\ pc'[Loop] \in SavePCs => pc[Loop] \in SavePCs
    BY <1>0, <2>1 DEF ControlTypeOK
  <2>5. Replacing' /\ TurnKept'
    BY <1>0, <2>1, <2>4 DEF KeptInv, Replacing, TurnKept, Keeps
  <2> QED BY <2>3, <2>5 DEF KeptInv
<1>5. CASE Mkdir(t)
  <2>1. pc[t] \in SavePCs /\ pc' = [pc EXCEPT ![t] = "open"] /\ UNCHANGED <<sid, obj, heap, cache, json>>
    BY <1>5 DEF Mkdir, Goto, request
  <2> QED BY <1>0, <2>1, KeptGoto
<1>6. CASE OpenJson(t)
  <2>1. CASE sid[t] \notin dirs
    <3>1. pc' = [pc EXCEPT ![t] = "raised"] /\ UNCHANGED <<sid, obj, heap, cache, json>>
      BY <1>6, <2>1 DEF OpenJson, Goto, request
    <3> QED BY <1>0, <3>1, KeptGoto
  <2>2. CASE sid[t] \in dirs
    <3>1. /\ pc[t] = "open" /\ pc' = [pc EXCEPT ![t] = "write"] /\ UNCHANGED <<sid, obj, heap, cache>>
          /\ json' = [json EXCEPT ![sid[t]] = TornFile] /\ sid[t] \in Sids
      BY <1>6, <1>i, <2>2 DEF OpenJson, Goto, request, Unbound
    <3>2. json'[sid[t]].state = "torn" /\ \A s \in Sids : s # sid[t] => json'[s] = json[s]
      BY <1>0, <3>1 DEF DataTypeOK, TornFile
    <3>3. AckedTurnsKept'
      <4>1. \A s \in known : json'[s] = json[s] \/ json'[s].state = "torn"
        BY <1>0, <3>2
      <4> QED BY <1>0, <3>1, <4>1, KeptFrame, SameHeapGrows DEF KeptInv
    <3>4. /\ \A u \in Threads : u # t /\ pc'[u] = "write" => pc[u] = "write" /\ sid[u] \in Sids
          /\ pc'[Loop] \in {"saved", "install"} => pc'[Loop] = pc[Loop] /\ t # Loop
          /\ pc'[Loop] \in SavePCs => pc[Loop] \in SavePCs
      BY <1>0, <3>1 DEF ControlTypeOK, Base, IInv, SidsIssued, TypeOK, ServerTypeOK
    <3>5. Replacing'
      BY <3>1, <3>2, <3>4 DEF KeptInv, Replacing
    <3>6. pc'[Loop] = "saved" => json'[sid[Loop]] = json[sid[Loop]]
      <4>1. pc[Loop] \in UsesObj => sid[Loop] \in Sids
        BY <1>0 DEF Base, IInv, SidsIssued, TypeOK, ServerTypeOK, UsesObj
      <4> QED BY <1>l, <3>1, <3>2, <3>4, <4>1 DEF UsesObj
    <3>7. TurnKept'
      BY <1>0, <3>1, <3>4, <3>6 DEF KeptInv, TurnKept, Keeps
    <3> QED BY <3>3, <3>5, <3>7 DEF KeptInv
  <2> QED BY <2>1, <2>2
<1>7. CASE WriteJson(t)
  <2>1. /\ pc[t] = "write" /\ pc' = [pc EXCEPT ![t] = "saved"] /\ UNCHANGED <<sid, obj, heap, cache>>
        /\ json' = [json EXCEPT ![sid[t]] = ToJson(heap[obj[t]])] /\ sid[t] \in Sids
    BY <1>7, <1>i DEF WriteJson, Goto, request, Unbound, KeptInv, Replacing
  <2>2. /\ json'[sid[t]] = ToJson(heap[obj[t]]) /\ ToJson(heap[obj[t]]).state = "whole"
        /\ \A s \in Sids : s # sid[t] => json'[s] = json[s]
    BY <1>0, <2>1 DEF DataTypeOK, ToJson
  <2>3. AckedTurnsKept'
    <3>1. t = Loop => cache[sid[t]] = obj[t] /\ obj[t] # NoObj
      BY <1>0, <1>o, <2>1 DEF Route, UsesObj
    <3>2. \A s \in known : json'[s] = json[s] \/ (cache[s] # NoObj /\ json'[s] = ToJson(heap[cache[s]]))
      BY <1>0, <1>s, <2>1, <2>2, <3>1
    <3> QED BY <1>0, <2>1, <3>2, KeptFrame, SameHeapGrows DEF KeptInv
  <2>4. /\ \A u \in Threads : pc'[u] = "write" => pc[u] = "write" /\ sid[u] \in Sids
        /\ pc'[Loop] \in {"saved", "install"} /\ t # Loop => pc'[Loop] = pc[Loop]
        /\ pc'[Loop] \in SavePCs => pc[Loop] \in SavePCs
        /\ t = Loop => pc'[Loop] = "saved"
    BY <1>0, <2>1 DEF ControlTypeOK, Base, IInv, SidsIssued, TypeOK, ServerTypeOK
  <2>5. Replacing'
    BY <2>1, <2>2, <2>4 DEF KeptInv, Replacing
  <2>6. pc'[Loop] = "saved" /\ t # Loop => json'[sid[Loop]] = json[sid[Loop]]
    <3>1. pc[Loop] \in UsesObj => sid[Loop] \in Sids
      BY <1>0 DEF Base, IInv, SidsIssued, TypeOK, ServerTypeOK, UsesObj
    <3> QED BY <1>l, <2>1, <2>2, <2>4, <3>1 DEF UsesObj
  <2>7. TurnKept'
    BY <1>0, <2>1, <2>2, <2>4, <2>6 DEF KeptInv, TurnKept, Keeps
  <2> QED BY <2>3, <2>5, <2>7 DEF KeptInv
<1>8. ASSUME Pop(t) \/ Glob(t) \/ CheckFile(t) \/ Unlink(t) \/ Rmdir(t) PROVE FALSE
  BY <1>0, <1>8 DEF Pop, Glob, CheckFile, Unlink, Rmdir, Route
<1> QED BY <1>1, <1>2, <1>3, <1>4, <1>5, <1>6, <1>7, <1>8 DEF Store, StoreStep

\* A step of a turn.
LEMMA KeptTurn ==
  ASSUME Base, RInv, KeptInv, TurnStep
  PROVE  KeptInv'
<1> USE StoreAssumption, ServerAssumption
<1>0. /\ ControlTypeOK /\ DataTypeOK /\ Loop \in Threads
      /\ UNCHANGED <<cache, json, turnNo>> /\ Route(Loop)
      /\ pc[Loop] \in UsesObj \ {"install"} /\ pc[Loop] \notin SavePCs
      /\ sid[Loop] \in known /\ cache[sid[Loop]] = obj[Loop] /\ obj[Loop] \in DOMAIN heap
  BY DEF Base, IInv, TypeOK, StoreTypeOK, RefsValid, RInv, Route, UsesObj,
         TurnStep, RefuseBlank, Prepare, Upload, MakeDir, Transcode, Remember, Generate, Speak, PipelineFails,
         AppendTurn, TurnDone, history
<1>1. CASE RefuseBlank \/ PipelineFails
  <2>1. UNCHANGED <<heap, acked>> /\ Respond(Loop, "error")
    BY <1>1 DEF RefuseBlank, PipelineFails, history
  <2> QED BY <1>0, <2>1, KeptRespond
<1>2. CASE Upload \/ Transcode \/ Speak
  <2>1. /\ UNCHANGED <<heap, acked>>
        /\ \E k \in {"user", "reply"}, p \in {"convert", "run", "append"} : WriteAudio(k, p)
    BY <1>2 DEF Upload, Transcode, Speak, history
  <2>2. CASE Respond(Loop, "error")
    BY <1>0, <2>1, <2>2, KeptRespond
  <2>3. CASE \E p \in {"convert", "run", "append"} : Goto(Loop, p)
    BY <1>0, <2>1, <2>3, KeptGoto DEF Goto, request
  <2> QED BY <2>1, <2>2, <2>3 DEF WriteAudio
<1>3. CASE Prepare \/ MakeDir \/ Generate
  <2>1. /\ UNCHANGED <<heap, acked>>
        /\ \E p \in {"upload", "run", "transcode", "speak", "append", "outdir"} : Goto(Loop, p)
    BY <1>3 DEF Prepare, MakeDir, Generate, history
  <2> QED BY <1>0, <2>1, KeptGoto DEF Goto, request
<1>4. CASE Remember
  <2>1. UNCHANGED <<pc, sid, acked>> /\ HeapGrows /\ pc[Loop] = "run"
    BY <1>4, RememberObject DEF Base, Remember, request, history
  <2>2. AckedTurnsKept'
    BY <1>0, <2>1, KeptFrame DEF KeptInv
  <2>3. Replacing' /\ TurnKept'
    BY <1>0, <2>1 DEF KeptInv, Replacing, TurnKept
  <2> QED BY <2>2, <2>3 DEF KeptInv
<1>5. CASE AppendTurn
  <2>1. /\ pc' = [pc EXCEPT ![Loop] = "acquire"] /\ UNCHANGED <<sid, obj, acked>>
    BY <1>5 DEF AppendTurn, Goto, request, history
  <2> DEFINE turns == heap[obj[Loop]].turns
             r == [index |-> TurnIndex, id |-> turnNo, user |-> op[Loop] = "voice", reply |-> op[Loop] # "text"]
  <2>2. HeapGrows /\ turns \in Seq(Turn) /\ heap'[obj[Loop]].turns = Append(turns, r) /\ r.id = turnNo
    BY <1>5, AppendObject DEF Base
  <2> HIDE DEF turns, r
  <2>3. \E i \in DOMAIN heap'[obj[Loop]].turns : heap'[obj[Loop]].turns[i].id = turnNo
    <3>1. Len(turns) + 1 \in DOMAIN Append(turns, r) /\ Append(turns, r)[Len(turns) + 1] = r
      BY <2>2
    <3> QED BY <2>2, <3>1
  <2>4. AckedTurnsKept'
    BY <1>0, <2>1, <2>2, KeptFrame DEF KeptInv
  <2>5. pc'[Loop] = "acquire" /\ \A u \in Threads : pc'[u] = "write" => pc[u] = "write"
    BY <1>0, <2>1 DEF ControlTypeOK
  <2>6. Replacing' /\ TurnKept'
    BY <1>0, <2>1, <2>3, <2>5 DEF KeptInv, Replacing, TurnKept
  <2> QED BY <2>4, <2>6 DEF KeptInv
<1>6. CASE TurnDone
  <2> DEFINE b == [sid |-> sid[Loop], id |-> turnNo, fact |-> turnNo \in session.memory]
  <2>1. acked' = acked \cup {b} /\ pc[Loop] = "saved" /\ UNCHANGED heap
        /\ pc' = [pc EXCEPT ![Loop] = "idle"] /\ sid' = [sid EXCEPT ![Loop] = NoSid]
    BY <1>6 DEF TurnDone, Respond, Serve
  <2>2. Keeps(session, b)
    BY <2>1 DEF KeptInv, TurnKept, Keeps, session
  <2>3. json[sid[Loop]] = ToJson(session) /\ ToJson(session).state = "whole" /\ Keeps(ToJson(session), b)
    BY <2>1, <2>2 DEF KeptInv, TurnKept, session, ToJson, Keeps
  <2>4. b.sid = sid[Loop]
    OBVIOUS
  <2> HIDE DEF b
  <2>5. ASSUME NEW a \in acked'
        PROVE  /\ json'[a.sid].state # "missing"
               /\ json'[a.sid].state = "whole" => Keeps(json'[a.sid], a)
               /\ cache'[a.sid] # NoObj => Keeps(heap'[cache'[a.sid]], a)
    BY <1>0, <2>1, <2>2, <2>3, <2>4 DEF KeptInv, AckedTurnsKept, AckedTurnsSaved, session
  <2>6. AckedTurnsKept'
    BY <2>5 DEF AckedTurnsKept, AckedTurnsSaved, Keeps
  <2>7. pc'[Loop] = "idle" /\ \A u \in Threads : pc'[u] = "write" => pc[u] = "write" /\ sid'[u] = sid[u]
    BY <1>0, <2>1 DEF ControlTypeOK
  <2>8. Replacing' /\ TurnKept'
    BY <1>0, <2>7 DEF KeptInv, Replacing, TurnKept
  <2> QED BY <2>6, <2>8 DEF KeptInv
<1> QED BY <1>1, <1>2, <1>3, <1>4, <1>5, <1>6 DEF TurnStep

\* A step of a handler on a pool thread changes nothing that is kept.
LEMMA KeptWorker ==
  ASSUME Base, RInv, KeptInv, NEW w \in Workers, WorkerStep(w)
  PROVE  KeptInv'
<1> USE ServerAssumption
<1>0. ControlTypeOK /\ w \in Threads /\ w # Loop /\ UNCHANGED <<heap, cache, json, acked, turnNo>>
  BY DEF Base, IInv, TypeOK, StoreTypeOK,
         WorkerStep, IterDir, ListNext, ListDone, ListGot, GetDone, AudioDone, CreateDone, DeleteDone, history
<1>1. CASE IterDir(w) \/ ListGot(w)
  <2>1. pc' = [pc EXCEPT ![w] = "next"] /\ UNCHANGED <<sid, obj>>
    BY <1>1 DEF IterDir, ListGot, Goto, request
  <2> QED BY <1>0, <2>1, KeptGoto
<1>2. CASE ListNext(w)
  <2>1. \E p \in {"lookup", "next"} : pc' = [pc EXCEPT ![w] = p]
    BY <1>2 DEF ListNext
  <2>2. \E s : sid' = [sid EXCEPT ![w] = s]
    BY <1>2 DEF ListNext
  <2>3. obj' = [obj EXCEPT ![w] = obj[w]]
    BY <1>0, <1>2 DEF ListNext, ControlTypeOK
  <2> QED BY <1>0, <2>1, <2>2, <2>3, KeptQuiet
<1>3. CASE \E code : Respond(w, code)
  BY <1>0, <1>3, KeptRespond
<1> QED BY <1>1, <1>2, <1>3 DEF WorkerStep, ListDone, GetDone, AudioDone, CreateDone, DeleteDone

\* Every step keeps what was answered.
LEMMA NextKept == Base /\ RInv /\ KeptInv /\ [Next]_vars => KeptInv'
<1> SUFFICES ASSUME Base, RInv, KeptInv, [Next]_vars PROVE KeptInv'
  OBVIOUS
<1> USE StoreAssumption, ServerAssumption
<1>0. Loop \in Threads /\ Workers \subseteq Threads /\ Loop \notin Workers
  OBVIOUS
<1>1. CASE Arrival
  <2>1. ASSUME NEW w \in Workers, StartList(w) PROVE KeptInv'
    BY <1>0, <2>1, KeptDispatch DEF StartList, history
  <2>2. ASSUME NEW w \in Workers, NEW s \in Sids, StartDelete(w, s) PROVE FALSE
    BY <2>2 DEF StartDelete, Base, Undisturbed, IInv, TypeOK, ServerTypeOK
  <2>3. ASSUME NEW w \in Workers, NEW s \in Sids, NEW k, StartGet(w, s, k) PROVE KeptInv'
    BY <1>0, <2>3, KeptDispatch DEF StartGet, history
  <2>4. ASSUME NEW s \in Sids, NEW kind \in TurnKinds, StartTurn(s, kind) PROVE KeptInv'
    BY <1>0, <2>4, KeptDispatch DEF StartTurn
  <2>5. ASSUME NEW w \in Workers, NEW s \in Sids, StartCreate(w, s) PROVE KeptInv'
    BY <2>5, KeptCreate
  <2> QED BY <1>1, <2>1, <2>2, <2>3, <2>4, <2>5 DEF Arrival
<1>2. ASSUME NEW t \in Threads, NotFound(t) \/ Raised(t) PROVE KeptInv'
  <2>1. UNCHANGED <<heap, cache, json, acked, turnNo>> /\ \E code : Respond(t, code)
    BY <1>2 DEF NotFound, Raised, history
  <2> QED BY <2>1, KeptRespond
<1>3. CASE UNCHANGED vars
  BY <1>3 DEF vars, history, request, KeptInv, AckedTurnsKept, AckedTurnsSaved, Keeps, Replacing, TurnKept
<1>4. CASE Crash
  <2>1. /\ UNCHANGED <<json, acked>> /\ \A s \in Sids : cache'[s] = NoObj
        /\ \A t \in Threads : pc'[t] = "idle"
    BY <1>4 DEF Crash, StoreCrash
  <2>2. \A a \in acked : a.sid \in Sids
    BY DEF Base, IInv, TypeOK, ServerTypeOK
  <2>3. AckedTurnsKept'
    BY <2>1, <2>2 DEF KeptInv, AckedTurnsKept, AckedTurnsSaved, Keeps
  <2>4. Replacing' /\ TurnKept'
    BY <1>0, <2>1 DEF Replacing, TurnKept
  <2> QED BY <2>3, <2>4 DEF KeptInv
<1> QED BY <1>1, <1>2, <1>3, <1>4, KeptStore, KeptWorker, KeptTurn DEF Next

\* What was answered is kept throughout, with the rest of its invariant.
LEMMA KeptHolds ==
  ASSUME Undisturbed
  PROVE  Spec => []KeptInv
<1>1. Init => KeptInv
  <2> SUFFICES ASSUME Init PROVE KeptInv
    OBVIOUS
  <2>1. acked = {} /\ \A t \in Threads : pc[t] = "idle"
    BY DEF Init, StoreInit
  <2> QED BY <2>1, ServerAssumption DEF KeptInv, AckedTurnsKept, AckedTurnsSaved, Replacing, TurnKept
<1>2. IInv /\ SavesExclude /\ RInv /\ KeptInv /\ [Next]_vars => KeptInv'
  BY NextKept DEF Base
<1>4. Spec => []RInv
  BY RouteHolds
<1> QED BY <1>1, <1>2, <1>4, InvariantHolds, MutualExclusion, PTL DEF Spec

\* "Current session stays saved on the server": as long as no session is deleted
\* and only turns load sessions after a restart, a turn answered with 200 and what
\* the agent remembered in it are in session.json whenever that can be read, and
\* in the object that the cache serves, across any number of restarts.
THEOREM AnsweredTurnsKept ==
  ASSUME Undisturbed
  PROVE  Spec => []AckedTurnsKept
<1>1. KeptInv => AckedTurnsKept
  BY DEF KeptInv
<1>2. Spec => []KeptInv
  BY KeptHolds
<1> QED BY <1>1, <1>2, PTL

-----------------------------------------------------------------------------
(* The audio files of saved turns.                                         *)

\* The lists of turns of files and objects are sequences.
LEMMA TurnsTyped ==
  ASSUME IInv
  PROVE  /\ \A s \in Sids : json[s].turns \in Seq(Turn)
         /\ \A o \in DOMAIN heap : heap[o].turns \in Seq(Turn)
         /\ \A s \in Sids : cache[s] # NoObj => cache[s] \in DOMAIN heap
<1>1. \A x \in Session : x.turns \in Seq(Turn)
  BY DEF Session
<1>2. \A x \in JsonFile : x.turns \in Seq(Turn)
  BY DEF JsonFile
<1> QED BY <1>1, <1>2 DEF IInv, RefsValid, TypeOK, StoreTypeOK, DataTypeOK

\* A step that loads no object, and writes only files of turns to come.
LEMMA FilesFrame ==
  ASSUME Base, FilesKept, UNCHANGED cache,
         \A o \in DOMAIN heap : o \in DOMAIN heap' /\ heap'[o].turns = heap[o].turns,
         \A s \in Sids : \/ json'[s].turns = json[s].turns
                         \/ json'[s].turns = <<>>
                         \/ cache[s] # NoObj /\ json'[s].turns = heap[cache[s]].turns,
         \A s \in Sids : \A f \in audio[s] :
            f \in audio'[s] \/ (cache[s] # NoObj /\ f.index > Len(heap[cache[s]].turns))
  PROVE  FilesKept'
<1>1. /\ \A s \in Sids : json[s].turns \in Seq(Turn)
      /\ \A o \in DOMAIN heap : heap[o].turns \in Seq(Turn)
      /\ \A s \in Sids : cache[s] # NoObj => cache[s] \in DOMAIN heap
  BY TurnsTyped DEF Base
<1>2. ASSUME NEW s \in Sids, NEW turns \in Seq(Turn), Sound(s, turns),
             cache[s] # NoObj => Len(turns) <= Len(heap[cache[s]].turns)
      PROVE  Sound(s, turns)'
  <2>1. \A i \in DOMAIN turns : i \in Nat /\ i <= Len(turns)
    OBVIOUS
  <2>2. cache[s] # NoObj => Len(heap[cache[s]].turns) \in Nat
    BY <1>1
  <2>3. ASSUME NEW i \in DOMAIN turns, NEW kind,
               [index |-> i, kind |-> kind, by |-> turns[i].id] \in audio[s]
        PROVE  [index |-> i, kind |-> kind, by |-> turns[i].id] \in audio'[s]
    <3> DEFINE f == [index |-> i, kind |-> kind, by |-> turns[i].id]
    <3>1. f.index = i /\ f \in audio[s]
      BY <2>3
    <3> HIDE DEF f
    <3>2. Len(turns) \in Nat
      OBVIOUS
    <3>3. f \in audio'[s]
      BY <1>2, <2>1, <2>2, <3>1, <3>2
    <3> QED BY <3>3 DEF f
  <2> QED BY <1>2, <2>3 DEF Sound
<1>3. ASSUME NEW s \in Sids PROVE Sound(s, json[s].turns)'
  <2>1. CASE json'[s].turns = json[s].turns
    <3>1. Sound(s, json[s].turns) /\ (cache[s] # NoObj => Len(json[s].turns) <= Len(heap[cache[s]].turns))
      BY DEF FilesKept, Savable
    <3>2. ASSUME NEW turns, turns = json[s].turns PROVE Sound(s, turns)'
      BY <1>1, <1>2, <3>1, <3>2
    <3> QED BY <2>1, <3>2 DEF Sound
  <2>2. CASE json'[s].turns = <<>>
    BY <2>2 DEF Sound
  <2>3. CASE cache[s] # NoObj /\ json'[s].turns = heap[cache[s]].turns
    <3>1. Sound(s, heap[cache[s]].turns) /\ heap[cache[s]].turns \in Seq(Turn)
      BY <1>1, <2>3 DEF FilesKept, Savable
    <3>2. ASSUME NEW turns, turns = heap[cache[s]].turns PROVE Sound(s, turns)'
      BY <1>2, <3>1, <3>2
    <3> QED BY <2>3, <3>2 DEF Sound
  <2> QED BY <2>1, <2>2, <2>3
<1>4. ASSUME NEW s \in Sids, cache[s] # NoObj PROVE Savable(s, heap[cache[s]])'
  <2>1. /\ Sound(s, heap[cache[s]].turns) /\ Len(json[s].turns) <= Len(heap[cache[s]].turns)
        /\ heap[cache[s]].turns \in Seq(Turn) /\ heap'[cache[s]].turns = heap[cache[s]].turns
    BY <1>1, <1>4 DEF FilesKept, Savable
  <2>2. ASSUME NEW turns, turns = heap[cache[s]].turns PROVE Sound(s, turns)'
    BY <1>2, <2>1, <2>2
  <2>3. Len(json'[s].turns) <= Len(heap[cache[s]].turns)
    BY <2>1
  <2> QED BY <2>1, <2>2, <2>3 DEF Savable, Sound
<1> QED BY <1>3, <1>4 DEF FilesKept

\* A step of thread t that changes no object, file or cache entry.
LEMMA SoundQuiet ==
  ASSUME Base, RInv, SoundInv, NEW t \in Threads, NEW p, NEW k, NEW z, NEW o,
         pc' = [pc EXCEPT ![t] = p], op' = [op EXCEPT ![t] = k],
         sid' = [sid EXCEPT ![t] = z], obj' = [obj EXCEPT ![t] = o],
         UNCHANGED <<heap, cache, json, audio, issued>>,
         k = "create" => p # "acquire",
         p \in {"mkdir", "open", "write"} => pc[t] \in SavePCs /\ o = obj[t] /\ k = op[t] /\ z = sid[t],
         p # "install",
         t = Loop /\ p \in FilePCs =>
           /\ z = sid[t] /\ o = obj[t] /\ turnNo' = turnNo
           /\ k = "voice" => MyFile("user")
           /\ p = "append" /\ k # "text" => MyFile("reply"),
         t = Loop \/ turnNo' = turnNo
  PROVE  SoundInv'
<1>0. ControlTypeOK /\ Loop \in Threads
  BY ServerAssumption DEF Base, IInv, TypeOK, StoreTypeOK
<1>1. FilesKept'
  BY FilesFrame DEF SoundInv
<1>2. NewEmpty'
  <2>1. ASSUME NEW u \in Threads, Creating(u)'
        PROVE  Creating(u) /\ obj'[u] = obj[u] /\ sid'[u] = sid[u] /\ (pc'[u] = "acquire" => pc[u] = "acquire")
    BY <1>0, <2>1 DEF ControlTypeOK, Creating
  <2> QED BY <2>1 DEF SoundInv, NewEmpty
<1>3. TurnFiles'
  <2>1. CASE t = Loop
    <3>1. pc'[Loop] = p /\ op'[Loop] = k /\ sid'[Loop] = z /\ obj'[Loop] = o
      BY <1>0, <2>1 DEF ControlTypeOK
    <3> QED BY <2>1, <3>1 DEF TurnFiles, MyFile, TurnIndex, session, FilePCs
  <2>2. CASE t # Loop
    <3>1. pc'[Loop] = pc[Loop] /\ op'[Loop] = op[Loop] /\ sid'[Loop] = sid[Loop] /\ obj'[Loop] = obj[Loop]
      BY <1>0, <2>2 DEF ControlTypeOK
    <3> QED BY <2>2, <3>1 DEF SoundInv, TurnFiles, MyFile, TurnIndex, session, Savable, Sound
  <2> QED BY <2>1, <2>2
<1> QED BY <1>1, <1>2, <1>3 DEF SoundInv

\* The same for a thread that goes on with its request.
LEMMA SoundGoto ==
  ASSUME Base, RInv, SoundInv, NEW t \in Threads, NEW p, pc' = [pc EXCEPT ![t] = p],
         UNCHANGED <<op, sid, obj, heap, cache, json, audio, issued, turnNo>>,
         p \notin {"acquire", "install"},
         p \in {"mkdir", "open", "write"} => pc[t] \in SavePCs,
         t = Loop /\ p \in FilePCs =>
           /\ op[t] = "voice" => MyFile("user")
           /\ p = "append" /\ op[t] # "text" => MyFile("reply")
  PROVE  SoundInv'
<1>0. ControlTypeOK
  BY DEF Base, IInv, TypeOK, StoreTypeOK
<1>1. PICK k, z, o : k = op[t] /\ z = sid[t] /\ o = obj[t]
  OBVIOUS
<1>2. op' = [op EXCEPT ![t] = k] /\ sid' = [sid EXCEPT ![t] = z] /\ obj' = [obj EXCEPT ![t] = o] /\ t \in Threads
  BY <1>0, <1>1 DEF ControlTypeOK
<1>3. /\ UNCHANGED <<heap, cache, json, audio, issued>> /\ turnNo' = turnNo
      /\ p # "acquire" /\ p # "install"
      /\ p \in {"mkdir", "open", "write"} => pc[t] \in SavePCs /\ o = obj[t] /\ k = op[t] /\ z = sid[t]
      /\ t = Loop /\ p \in FilePCs =>
           /\ z = sid[t] /\ o = obj[t] /\ turnNo' = turnNo
           /\ k = "voice" => MyFile("user")
           /\ p = "append" /\ k # "text" => MyFile("reply")
  BY <1>1
<1> HIDE DEF PCs, HandlerPCs, SavePCs, LockedPCs, GetPCs, DeletePCs, Returned
<1> QED BY ONLY Base, RInv, SoundInv, pc' = [pc EXCEPT ![t] = p], <1>2, <1>3, SoundQuiet

\* An answer.
LEMMA SoundRespond ==
  ASSUME Base, RInv, SoundInv, NEW t \in Threads, NEW code, Respond(t, code),
         UNCHANGED <<heap, cache, json, audio, issued, turnNo>>
  PROVE  SoundInv'
<1>1. "idle" \notin FilePCs
  BY DEF FilePCs
<1> QED BY <1>1, SoundQuiet DEF Respond, Serve

\* The arrival of a request.
LEMMA SoundDispatch ==
  ASSUME Base, RInv, SoundInv, NEW t \in Threads, NEW k, NEW p \in {"lookup", "iterdir"}, NEW s,
         Dispatch(t, k, p, s, NoObj),
         UNCHANGED <<heap, cache, json, audio, issued>>, turnNo' = turnNo \/ t = Loop
  PROVE  SoundInv'
<1>1. p \notin FilePCs
  BY DEF FilePCs
<1> QED BY <1>1, SoundQuiet DEF Dispatch, Serve

\* A new session has no turns, on disk or in memory.
LEMMA SoundCreate ==
  ASSUME Base, RInv, SoundInv, NEW w \in Workers, NEW s \in Sids, StartCreate(w, s)
  PROVE  SoundInv'
<1> DEFINE x == [sid |-> s, turns |-> <<>>, memory |-> {}]
<1>0. ControlTypeOK /\ w \in Threads /\ Loop \in Threads /\ w # Loop /\ s \notin issued
  BY ServerAssumption DEF Base, IInv, TypeOK, StoreTypeOK, StartCreate
<1>1. /\ heap' = Append(heap, x) /\ pc' = [pc EXCEPT ![w] = "acquire"] /\ sid' = [sid EXCEPT ![w] = s]
      /\ obj' = [obj EXCEPT ![w] = Len(heap) + 1] /\ op' = [op EXCEPT ![w] = "create"]
      /\ issued' = issued \cup {s} /\ UNCHANGED <<cache, json, audio, turnNo>>
  BY DEF StartCreate, Dispatch, Serve
<1>x. x.turns = <<>>
  OBVIOUS
<1> HIDE DEF x
<1>2. /\ \A o \in DOMAIN heap : o \in DOMAIN heap' /\ heap'[o] = heap[o]
      /\ heap'[Len(heap) + 1] = x
  BY <1>1, NewObject DEF Base
<1>3. FilesKept'
  BY <1>1, <1>2, FilesFrame DEF SoundInv
<1>4. /\ \A u \in Threads \ {w} : pc'[u] = pc[u] /\ op'[u] = op[u] /\ sid'[u] = sid[u] /\ obj'[u] = obj[u]
      /\ pc'[w] = "acquire" /\ sid'[w] = s /\ obj'[w] = Len(heap) + 1
  BY <1>0, <1>1 DEF ControlTypeOK
<1>5. \A u \in Threads : pc[u] \in UsesObj => obj[u] \in DOMAIN heap
  BY <1>0 DEF Base, IInv, RefsValid
<1>6. NewEmpty'
  <2>1. ASSUME NEW u \in Threads, Creating(u)', u # w
        PROVE  /\ heap'[obj'[u]].turns = <<>>
               /\ pc'[u] = "acquire" => json'[sid'[u]].turns = <<>>
    <3>1. Creating(u) /\ obj[u] \in DOMAIN heap
      BY <1>4, <1>5, <2>1 DEF Creating, UsesObj
    <3> QED BY <1>1, <1>2, <1>4, <2>1, <3>1 DEF SoundInv, NewEmpty
  <2>2. heap'[obj'[w]].turns = <<>> /\ json'[sid'[w]].turns = <<>>
    BY <1>0, <1>1, <1>2, <1>4, <1>x DEF SoundInv, NewEmpty
  <2>3. \A r \in Sids \ issued' : json'[r].turns = <<>>
    BY <1>1 DEF SoundInv, NewEmpty
  <2> QED BY <2>1, <2>2, <2>3 DEF NewEmpty
<1>7. TurnFiles'
  <2>1. pc[Loop] \in FilePCs \cup {"install"} => obj[Loop] \in DOMAIN heap
    BY <1>0, <1>5 DEF UsesObj, FilePCs
  <2>2. /\ pc'[Loop] = pc[Loop] /\ op'[Loop] = op[Loop] /\ sid'[Loop] = sid[Loop] /\ obj'[Loop] = obj[Loop]
        /\ obj[Loop] \in DOMAIN heap => heap'[obj[Loop]] = heap[obj[Loop]]
    BY <1>0, <1>2, <1>4
  <2> QED BY <1>1, <2>1, <2>2 DEF SoundInv, TurnFiles, MyFile, TurnIndex, session, Savable, Sound, FilePCs
<1> QED BY <1>3, <1>6, <1>7 DEF SoundInv

\* A step of the store.
LEMMA SoundStore ==
  ASSUME Base, RInv, KeptInv, SoundInv, NEW t \in Threads, Store(t)
  PROVE  SoundInv'
<1> USE StoreAssumption, ServerAssumption
<1>0. /\ ControlTypeOK /\ DataTypeOK /\ Loop \in Threads /\ known \subseteq Sids
      /\ UNCHANGED <<issued, known, acked, turnNo>> /\ Route(t) /\ Owner(t)
  BY DEF Base, IInv, TypeOK, StoreTypeOK, ServerTypeOK, Store, history, RInv
<1>o. pc[t] \in UsesObj => obj[t] # NoObj /\ obj[t] \in DOMAIN heap
  BY <1>0 DEF Base, IInv, RefsValid, DataTypeOK, NoObj
<1>i. pc[t] \notin Unbound => sid[t] \in issued /\ sid[t] \in Sids
  BY DEF Base, IInv, TypeOK, ServerTypeOK, SidsIssued, Unbound
<1>s. pc[t] \in SavePCs => t = Loop \/ (Creating(t) /\ sid[t] \notin known)
  BY <1>0 DEF Route, Owner, Creating
<1>c. pc[t] \in LockedPCs => cache[sid[t]] = obj[t]
  BY <1>0 DEF Route, Owner, Creating, UsesObj
<1>l. t # Loop /\ pc[t] \in SavePCs /\ pc[Loop] \in UsesObj => sid[Loop] # sid[t]
  <2>1. Route(Loop)
    BY <1>0 DEF RInv
  <2> QED BY <1>s, <2>1 DEF Route, UsesObj
<1>j. \A s \in Sids : json[s].turns \in Seq(Turn)
  BY TurnsTyped DEF Base
<1>f. "absent" \notin FilePCs /\ "found" \notin FilePCs /\ "isfile" \notin FilePCs /\ "read" \notin FilePCs
      /\ "raised" \notin FilePCs /\ "saved" \notin FilePCs
  BY DEF FilePCs
<1>g. ASSUME NEW p \in {"open", "raised"}, pc' = [pc EXCEPT ![t] = p], p = "open" => pc[t] \in SavePCs,
             UNCHANGED <<op, sid, obj, heap, cache, json, audio>>
      PROVE  SoundInv'
  <2>1. p \notin FilePCs /\ p \notin {"acquire", "install"} /\ (p \in {"mkdir", "open", "write"} => pc[t] \in SavePCs)
    BY <1>g DEF FilePCs
  <2>2. UNCHANGED <<op, sid, obj, heap, cache, json, audio, issued, turnNo>>
    BY <1>0, <1>g
  <2>3. t \in Threads
    OBVIOUS
  <2> HIDE DEF PCs, HandlerPCs, SavePCs, LockedPCs, GetPCs, DeletePCs, Returned
  <2> QED BY ONLY Base, RInv, SoundInv, <2>1, <2>2, <2>3, <1>g, SoundGoto
<1>1. CASE Lookup(t) \/ IsFile(t)
  <2>1. PICK p \in {"found", "isfile", "absent", "read"} : pc' = [pc EXCEPT ![t] = p]
    BY <1>1 DEF Lookup, IsFile, Goto, GotoWith
  <2>2. UNCHANGED <<heap, cache, json, audio>> /\ \E o : obj' = [obj EXCEPT ![t] = o]
    <3>1. obj = [obj EXCEPT ![t] = obj[t]]
      BY <1>0 DEF ControlTypeOK
    <3> QED BY <1>1, <3>1 DEF Lookup, IsFile, Goto, GotoWith, request
  <2>3. sid' = [sid EXCEPT ![t] = sid[t]] /\ op' = [op EXCEPT ![t] = op[t]]
    BY <1>0, <1>1 DEF Lookup, IsFile, Goto, GotoWith, request, ControlTypeOK
  <2>4. p \notin FilePCs
    BY <1>f, <2>1
  <2> QED BY <1>0, <2>1, <2>2, <2>3, <2>4, SoundQuiet
<1>2. CASE ReadJson(t)
  <2>1. CASE json[sid[t]].state # "whole"
    <3>1. pc' = [pc EXCEPT ![t] = "raised"] /\ UNCHANGED <<op, sid, obj, heap, cache, json, audio>>
      BY <1>2, <2>1 DEF ReadJson, Goto, request
    <3> QED BY <1>g, <3>1
  <2>2. CASE json[sid[t]].state = "whole"
    <3> DEFINE x == FromJson(sid[t], json[sid[t]])
    <3>1. /\ t = Loop /\ pc[t] = "read" /\ heap' = Append(heap, x) /\ UNCHANGED <<op, sid, cache, json, audio>>
          /\ pc' = [pc EXCEPT ![t] = "install"] /\ obj' = [obj EXCEPT ![t] = Len(heap) + 1] /\ sid[t] \in Sids
      BY <1>0, <1>i, <1>2, <2>2 DEF ReadJson, GotoWith, Route, LoadPCs, Unbound
    <3>2. x.turns = json[sid[t]].turns
      BY DEF FromJson
    <3> HIDE DEF x
    <3>3. /\ \A o \in DOMAIN heap : o \in DOMAIN heap' /\ heap'[o] = heap[o]
          /\ heap'[Len(heap) + 1] = x
      BY <3>1, NewObject DEF Base
    <3>4. FilesKept'
      BY <3>1, <3>3, FilesFrame DEF SoundInv
    <3>5. /\ pc'[Loop] = "install" /\ obj'[Loop] = Len(heap) + 1
          /\ \A u \in Threads \ {Loop} : pc'[u] = pc[u] /\ obj'[u] = obj[u]
      BY <1>0, <3>1 DEF ControlTypeOK
    <3>6. NewEmpty'
      <4>1. ASSUME NEW u \in Threads, Creating(u)'
            PROVE  Creating(u) /\ obj'[u] = obj[u] /\ obj[u] \in DOMAIN heap /\ pc'[u] = pc[u]
        BY <3>1, <3>5, <4>1 DEF Creating, UsesObj, Base, IInv, RefsValid
      <4> QED BY <1>0, <3>1, <3>3, <4>1 DEF SoundInv, NewEmpty
    <3>7. Savable(sid[Loop], x)
      BY <1>j, <3>1, <3>2 DEF Savable, SoundInv, FilesKept
    <3>8. TurnFiles'
      BY <3>1, <3>3, <3>5, <3>7 DEF TurnFiles, Savable, Sound, FilePCs
    <3> QED BY <3>4, <3>6, <3>8 DEF SoundInv
  <2> QED BY <2>1, <2>2
<1>3. CASE Install(t)
  <2>1. /\ t = Loop /\ pc[t] = "install" /\ UNCHANGED <<op, sid, obj, heap, json, audio>> /\ sid[t] \in Sids
        /\ cache' = [cache EXCEPT ![sid[t]] = obj[t]] /\ pc' = [pc EXCEPT ![t] = "found"]
    BY <1>0, <1>i, <1>3 DEF Install, Goto, request, Route, LoadPCs, Unbound
  <2>2. /\ pc'[Loop] = "found" /\ \A u \in Threads \ {Loop} : pc'[u] = pc[u]
        /\ cache'[sid[t]] = obj[t] /\ \A s \in Sids : s # sid[t] => cache'[s] = cache[s]
    BY <1>0, <2>1 DEF ControlTypeOK, DataTypeOK
  <2>3. FilesKept'
    BY <2>1, <2>2, SMTT(40) DEF SoundInv, FilesKept, TurnFiles, Savable, Sound
  <2>4. NewEmpty' /\ TurnFiles'
    BY <1>0, <2>1, <2>2 DEF SoundInv, NewEmpty, Creating, TurnFiles, FilePCs
  <2> QED BY <2>3, <2>4 DEF SoundInv
<1>4. CASE Acquire(t)
  <2>1. /\ pc[t] = "acquire" /\ UNCHANGED <<op, sid, obj, heap, json, audio>> /\ sid[t] \in Sids
        /\ cache' = [cache EXCEPT ![sid[t]] = obj[t]] /\ pc' = [pc EXCEPT ![t] = "mkdir"]
    BY <1>i, <1>4 DEF Acquire, Goto, request, Unbound
  <2>2. /\ pc'[t] = "mkdir" /\ \A u \in Threads \ {t} : pc'[u] = pc[u]
        /\ cache'[sid[t]] = obj[t] /\ \A s \in Sids : s # sid[t] => cache'[s] = cache[s]
    BY <1>0, <2>1 DEF ControlTypeOK, DataTypeOK
  <2>3. t = Loop => cache[sid[t]] = obj[t] /\ obj[t] # NoObj
    BY <1>0, <1>o, <2>1 DEF Route, UsesObj
  <2>4. t # Loop => Savable(sid[t], heap[obj[t]])
    <3>1. t # Loop => heap[obj[t]].turns = <<>> /\ json[sid[t]].turns = <<>>
      BY <1>s, <2>1 DEF SoundInv, NewEmpty
    <3> QED BY <3>1 DEF Savable, Sound
  <2>5. FilesKept'
    BY <2>1, <2>2, <2>3, <2>4 DEF SoundInv, FilesKept, Savable, Sound
  <2>6. NewEmpty'
    BY <1>0, <2>1, <2>2 DEF SoundInv, NewEmpty, Creating
  <2>7. TurnFiles'
    BY <1>0, <2>1, <2>2 DEF SoundInv, TurnFiles, MyFile, TurnIndex, session, Savable, Sound, FilePCs
  <2> QED BY <2>5, <2>6, <2>7 DEF SoundInv
<1>5. CASE Mkdir(t)
  <2>1. pc[t] \in SavePCs /\ pc' = [pc EXCEPT ![t] = "open"] /\ UNCHANGED <<op, sid, obj, heap, cache, json, audio>>
    BY <1>5 DEF Mkdir, Goto, request
  <2> QED BY <1>g, <2>1
<1>6. CASE OpenJson(t) /\ sid[t] \notin dirs
  <2>1. pc' = [pc EXCEPT ![t] = "raised"] /\ UNCHANGED <<op, sid, obj, heap, cache, json, audio>>
    BY <1>6 DEF OpenJson, Goto, request
  <2> QED BY <1>g, <2>1
<1>7. CASE (OpenJson(t) /\ sid[t] \in dirs) \/ WriteJson(t)
  <2>1. PICK f \in {TornFile, ToJson(heap[obj[t]])}, p \in {"write", "saved"} :
          /\ pc[t] \in LockedPCs /\ pc' = [pc EXCEPT ![t] = p] /\ UNCHANGED <<op, sid, obj, heap, cache, audio>>
          /\ json' = [json EXCEPT ![sid[t]] = f] /\ sid[t] \in Sids /\ sid[t] \in issued
    BY <1>7, <1>i DEF OpenJson, WriteJson, Goto, request, Unbound, KeptInv, Replacing
  <2>2. json'[sid[t]] = f /\ \A s \in Sids : s # sid[t] => json'[s] = json[s]
    BY <1>0, <2>1 DEF DataTypeOK
  <2>3. f.turns = <<>> \/ f.turns = heap[obj[t]].turns
    BY <2>1 DEF TornFile, ToJson
  <2>4. FilesKept'
    <3>1. cache[sid[t]] = obj[t] /\ obj[t] # NoObj
      BY <1>c, <1>o, <2>1 DEF UsesObj
    <3>2. \A s \in Sids : \/ json'[s].turns = json[s].turns
                          \/ json'[s].turns = <<>>
                          \/ cache[s] # NoObj /\ json'[s].turns = heap[cache[s]].turns
      BY <2>2, <2>3, <3>1
    <3> QED BY <2>1, <3>2, FilesFrame DEF SoundInv
  <2>5. pc'[t] = p /\ \A u \in Threads \ {t} : pc'[u] = pc[u]
    BY <1>0, <2>1 DEF ControlTypeOK
  <2>6. NewEmpty'
    <3>1. ASSUME NEW u \in Threads, Creating(u)'
          PROVE  /\ Creating(u) /\ (pc'[u] = "acquire" => pc[u] = "acquire" /\ sid[u] # sid[t] /\ sid[u] \in Sids)
      <4>1. Owner(u)
        BY DEF RInv
      <4>2. pc[u] = "acquire" => sid[u] \in Sids
        BY DEF Base, IInv, SidsIssued, TypeOK, ServerTypeOK
      <4> QED BY <2>1, <2>5, <3>1, <4>1, <4>2 DEF Creating, Owner, EarlyPCs
    <3> QED BY <1>0, <2>1, <2>2, <3>1 DEF SoundInv, NewEmpty
  <2>7. TurnFiles'
    <3>1. pc'[Loop] \in FilePCs \cup {"install"} => pc'[Loop] = pc[Loop] /\ sid[Loop] # sid[t] /\ sid[Loop] \in Sids
      BY <1>0, <1>l, <2>1, <2>5 DEF FilePCs, UsesObj, Base, IInv, SidsIssued, TypeOK, ServerTypeOK
    <3>2. pc'[Loop] \in FilePCs \cup {"install"} => json'[sid[Loop]] = json[sid[Loop]]
      BY <2>2, <3>1
    <3> QED BY <1>0, <2>1, <3>1, <3>2
            DEF SoundInv, TurnFiles, MyFile, TurnIndex, session, Savable, Sound, FilePCs
  <2> QED BY <2>4, <2>6, <2>7 DEF SoundInv
<1>8. ASSUME Pop(t) \/ Glob(t) \/ CheckFile(t) \/ Unlink(t) \/ Rmdir(t) PROVE FALSE
  BY <1>0, <1>8 DEF Pop, Glob, CheckFile, Unlink, Rmdir, Route
<1> QED BY <1>1, <1>2, <1>3, <1>4, <1>5, <1>6, <1>7, <1>8 DEF Store, StoreStep

\* Writing a file of the turn that is being made.
LEMMA SoundWrite ==
  ASSUME Base, RInv, SoundInv, NEW kind \in {"user", "reply"}, NEW p \in {"convert", "run", "append"},
         pc[Loop] \in {"upload", "transcode", "speak"},
         p = "run" => kind = "user",
         p = "append" => kind = "reply" /\ pc[Loop] = "speak",
         audio' = [audio EXCEPT ![sid[Loop]] = PutAudio(@, TurnIndex, kind, turnNo)],
         Goto(Loop, p), UNCHANGED <<heap, cache, json, issued, turnNo>>
  PROVE  SoundInv'
<1> USE StoreAssumption, ServerAssumption
<1>0. /\ ControlTypeOK /\ DataTypeOK /\ Loop \in Threads /\ sid[Loop] \in Sids
      /\ obj[Loop] \in DOMAIN heap /\ cache[sid[Loop]] = obj[Loop] /\ obj[Loop] # NoObj
  BY DEF Base, IInv, TypeOK, StoreTypeOK, DataTypeOK, ServerTypeOK, RefsValid, SidsIssued, RInv, Route, UsesObj, NoObj
<1>1. UNCHANGED <<op, sid, obj>> /\ pc'[Loop] = p /\ \A u \in Threads \ {Loop} : pc'[u] = pc[u]
  BY <1>0 DEF Goto, request, ControlTypeOK
<1> DEFINE s0 == sid[Loop]
           f0 == [index |-> TurnIndex, kind |-> kind, by |-> turnNo]
<1>2. /\ audio'[s0] = {a \in audio[s0] : a.index # TurnIndex \/ a.kind # kind} \cup {f0}
      /\ \A s \in Sids : s # s0 => audio'[s] = audio[s]
  BY <1>0 DEF DataTypeOK, PutAudio
<1>3. Len(heap[obj[Loop]].turns) \in Nat /\ TurnIndex = Len(heap[obj[Loop]].turns) + 1
  BY <1>0, TurnsTyped DEF Base, TurnIndex, session
<1> HIDE DEF f0
<1>4. ASSUME NEW s \in Sids, NEW f \in audio[s]
      PROVE  f \in audio'[s] \/ (cache[s] # NoObj /\ f.index > Len(heap[cache[s]].turns))
  <2>1. CASE s # s0
    BY <1>2, <2>1
  <2>2. CASE s = s0 /\ f.index # TurnIndex
    BY <1>2, <2>2
  <2>3. CASE s = s0 /\ f.index = TurnIndex
    BY <1>0, <1>3, <2>3
  <2> QED BY <2>1, <2>2, <2>3
<1>5. FilesKept'
  BY <1>4, FilesFrame DEF SoundInv
<1>6. NewEmpty'
  BY <1>1 DEF SoundInv, NewEmpty, Creating
<1>7. MyFile(kind)'
  <2>1. f0 \in audio'[s0] /\ TurnIndex' = TurnIndex /\ turnNo' = turnNo
    BY <1>1, <1>2 DEF TurnIndex, session
  <2> QED BY <1>1, <2>1 DEF f0, MyFile
<1>8. kind = "reply" /\ MyFile("user") => MyFile("user")'
  <2> DEFINE g == [index |-> TurnIndex, kind |-> "user", by |-> turnNo]
  <2>1. g.kind = "user" /\ TurnIndex' = TurnIndex /\ turnNo' = turnNo
    BY <1>1 DEF TurnIndex, session
  <2>2. kind = "reply" /\ g \in audio[s0] => g \in audio'[s0]
    BY <1>2, <2>1
  <2> QED BY <1>1, <2>1, <2>2 DEF MyFile
<1>9. TurnFiles'
  <2>1. pc'[Loop] \in FilePCs => p = "run" \/ p = "append"
    BY <1>1 DEF FilePCs
  <2>2. p = "append" /\ op[Loop] = "voice" => MyFile("user")
    BY DEF SoundInv, TurnFiles, FilePCs
  <2> QED BY <1>1, <1>7, <1>8, <2>1, <2>2 DEF TurnFiles
<1> QED BY <1>5, <1>6, <1>9 DEF SoundInv

\* The appended turn has its files, and its session is what the cache serves.
LEMMA SoundAppend ==
  ASSUME Base, RInv, SoundInv, AppendTurn
  PROVE  SoundInv'
<1> USE StoreAssumption, ServerAssumption
<1>0. /\ ControlTypeOK /\ DataTypeOK /\ Loop \in Threads /\ sid[Loop] \in Sids /\ sid[Loop] \in known
      /\ pc[Loop] = "append" /\ obj[Loop] \in DOMAIN heap /\ heap[obj[Loop]].sid = sid[Loop]
      /\ cache[sid[Loop]] = obj[Loop] /\ obj[Loop] # NoObj
  BY DEF Base, IInv, TypeOK, StoreTypeOK, DataTypeOK, ServerTypeOK, RefsValid, SidsIssued, RInv, Route, UsesObj, NoObj,
         AppendTurn
<1>1. /\ UNCHANGED <<op, sid, obj, cache, json, audio, issued, turnNo>> /\ pc'[Loop] = "acquire"
      /\ \A u \in Threads \ {Loop} : pc'[u] = pc[u]
  BY <1>0 DEF AppendTurn, Goto, request, history, ControlTypeOK
<1> DEFINE turns == heap[obj[Loop]].turns
           r == [index |-> TurnIndex, id |-> turnNo, user |-> op[Loop] = "voice", reply |-> op[Loop] # "text"]
<1>2. /\ \A o \in DOMAIN heap : o # obj[Loop] => heap'[o] = heap[o]
      /\ turns \in Seq(Turn) /\ heap'[obj[Loop]].turns = Append(turns, r)
  BY AppendObject DEF Base
<1>3. r.id = turnNo /\ (r.user => op[Loop] = "voice") /\ (r.reply => op[Loop] # "text")
  OBVIOUS
<1>4. TurnIndex = Len(turns) + 1
  BY DEF TurnIndex, session
<1>5. /\ r.user => [index |-> Len(turns) + 1, kind |-> "user", by |-> r.id] \in audio[sid[Loop]]
      /\ r.reply => [index |-> Len(turns) + 1, kind |-> "reply", by |-> r.id] \in audio[sid[Loop]]
  BY <1>0, <1>3, <1>4 DEF SoundInv, TurnFiles, MyFile, FilePCs
<1>6. Sound(sid[Loop], turns) /\ Len(json[sid[Loop]].turns) <= Len(turns)
  BY <1>0 DEF SoundInv, FilesKept, Savable
<1>j. Len(json[sid[Loop]].turns) \in Nat
  BY <1>0, TurnsTyped DEF Base
<1> HIDE DEF turns, r
<1>7. /\ DOMAIN Append(turns, r) = 1..(Len(turns) + 1) /\ Append(turns, r)[Len(turns) + 1] = r
      /\ \A i \in 1..(Len(turns) + 1) : i = Len(turns) + 1 \/ (i \in DOMAIN turns /\ Append(turns, r)[i] = turns[i])
      /\ Len(Append(turns, r)) = Len(turns) + 1 /\ Len(turns) \in Nat
  BY <1>2
<1>8. Sound(sid[Loop], Append(turns, r))
  BY <1>5, <1>6, <1>7 DEF Sound
<1>9. Savable(sid[Loop], heap[obj[Loop]])'
  BY <1>1, <1>2, <1>6, <1>7, <1>8, <1>j DEF Savable, Sound
<1>10. \A s \in Sids : cache[s] # NoObj /\ s # sid[Loop] => cache[s] \in DOMAIN heap /\ cache[s] # obj[Loop]
  BY <1>0 DEF Base, IInv, RefsValid
<1>11. FilesKept'
  BY <1>0, <1>1, <1>2, <1>9, <1>10, SMTT(40) DEF SoundInv, FilesKept, Savable, Sound
<1>12. NewEmpty'
  <2>1. ASSUME NEW u \in Threads, Creating(u)'
        PROVE  Creating(u) /\ pc'[u] = pc[u] /\ obj[u] \in DOMAIN heap /\ obj[u] # obj[Loop]
    <3>1. u # Loop
      BY <1>0, <1>1, <2>1 DEF Creating, RInv, Route, TurnKinds
    <3>2. Creating(u) /\ Owner(u) /\ pc'[u] = pc[u]
      BY <1>1, <2>1, <3>1 DEF Creating, RInv
    <3>3. obj[u] \in DOMAIN heap /\ heap[obj[u]].sid = sid[u]
      BY <3>2 DEF Creating, Base, IInv, RefsValid, UsesObj
    <3> QED BY <1>0, <3>2, <3>3 DEF Owner
  <2> QED BY <1>1, <1>2, <2>1 DEF SoundInv, NewEmpty
<1>13. TurnFiles'
  BY <1>1 DEF TurnFiles, FilePCs
<1> QED BY <1>11, <1>12, <1>13 DEF SoundInv

\* A step of a turn.
LEMMA SoundTurn ==
  ASSUME Base, RInv, SoundInv, TurnStep
  PROVE  SoundInv'
<1> USE StoreAssumption, ServerAssumption
<1>0. /\ ControlTypeOK /\ Loop \in Threads /\ UNCHANGED <<cache, json, turnNo, issued>> /\ Route(Loop)
  BY DEF Base, IInv, TypeOK, StoreTypeOK, RInv,
         TurnStep, RefuseBlank, Prepare, Upload, MakeDir, Transcode, Remember, Generate, Speak, PipelineFails,
         AppendTurn, TurnDone, history
<1>1. CASE RefuseBlank \/ PipelineFails \/ TurnDone
  <2>1. UNCHANGED <<heap, audio>> /\ \E code : Respond(Loop, code)
    BY <1>1 DEF RefuseBlank, PipelineFails, TurnDone
  <2> QED BY <1>0, <2>1, SoundRespond
<1>2. CASE Upload \/ Transcode \/ Speak
  <2>1. CASE Respond(Loop, "error") /\ UNCHANGED audio
    <3>1. UNCHANGED heap
      BY <1>2 DEF Upload, Transcode, Speak
    <3> QED BY <1>0, <2>1, <3>1, SoundRespond
  <2>2. CASE sid[Loop] \in dirs
    <3>1. PICK kind \in {"user", "reply"}, p \in {"convert", "run", "append"} :
            /\ pc[Loop] \in {"upload", "transcode", "speak"} /\ (p = "run" => kind = "user")
            /\ (p = "append" => kind = "reply" /\ pc[Loop] = "speak")
            /\ WriteAudio(kind, p) /\ UNCHANGED heap
      BY <1>2 DEF Upload, Transcode, Speak
    <3>2. audio' = [audio EXCEPT ![sid[Loop]] = PutAudio(@, TurnIndex, kind, turnNo)] /\ Goto(Loop, p)
      BY <2>2, <3>1 DEF WriteAudio
    <3> QED BY <1>0, <3>1, <3>2, SoundWrite
  <2> QED BY <1>2, <2>1, <2>2 DEF Upload, Transcode, Speak, WriteAudio
<1>3. CASE Prepare \/ MakeDir \/ Generate
  <2>1. PICK p \in {"upload", "run", "transcode", "speak", "append", "outdir"} :
           /\ Goto(Loop, p) /\ UNCHANGED <<heap, audio>>
           /\ (p = "append" => op[Loop] = "text")
           /\ (p = "run" => op[Loop] # "voice")
           /\ (p \in {"speak", "outdir", "append"} => pc[Loop] \in FilePCs)
    BY <1>3 DEF Prepare, MakeDir, Generate, FilePCs
  <2>2. p \in FilePCs /\ op[Loop] = "voice" => MyFile("user")
    BY <2>1 DEF FilePCs, SoundInv, TurnFiles
  <2>3. pc' = [pc EXCEPT ![Loop] = p] /\ UNCHANGED <<op, sid, obj, heap, cache, json, audio, issued, turnNo>>
    BY <1>0, <2>1 DEF Goto, request
  <2>4. /\ p \notin {"acquire", "install"} /\ (p \in {"mkdir", "open", "write"} => pc[Loop] \in SavePCs)
        /\ (p = "append" /\ op[Loop] # "text" => MyFile("reply"))
    BY <2>1
  <2> HIDE DEF PCs, HandlerPCs, SavePCs, LockedPCs, GetPCs, DeletePCs, Returned
  <2> QED BY ONLY Base, RInv, SoundInv, <1>0, <2>2, <2>3, <2>4, SoundGoto
<1>4. CASE Remember
  <2>1. /\ UNCHANGED <<pc, op, sid, obj, audio>> /\ pc[Loop] = "run"
        /\ obj[Loop] \in DOMAIN heap /\ DOMAIN heap' = DOMAIN heap
        /\ \A o \in DOMAIN heap : heap'[o].turns = heap[o].turns
    BY <1>4, RememberObject DEF Base, Remember, request
  <2>2. FilesKept'
    BY <1>0, <2>1, FilesFrame DEF SoundInv
  <2>3. NewEmpty'
    <3>1. \A u \in Threads : Creating(u) => obj[u] \in DOMAIN heap
      BY DEF Creating, UsesObj, Base, IInv, RefsValid
    <3> QED BY <1>0, <2>1, <3>1 DEF SoundInv, NewEmpty, Creating
  <2>4. TurnFiles'
    BY <1>0, <2>1 DEF SoundInv, TurnFiles, MyFile, TurnIndex, session
  <2> QED BY <2>2, <2>3, <2>4 DEF SoundInv
<1>5. CASE AppendTurn
  BY <1>5, SoundAppend
<1> QED BY <1>1, <1>2, <1>3, <1>4, <1>5 DEF TurnStep

\* A step of a handler on a pool thread changes no file that is recorded.
LEMMA SoundWorker ==
  ASSUME Base, RInv, SoundInv, NEW w \in Workers, WorkerStep(w)
  PROVE  SoundInv'
<1> USE ServerAssumption
<1>0. ControlTypeOK /\ w \in Threads /\ w # Loop /\ UNCHANGED <<heap, cache, json, audio, issued, turnNo>>
  BY DEF Base, IInv, TypeOK, StoreTypeOK,
         WorkerStep, IterDir, ListNext, ListDone, ListGot, GetDone, AudioDone, CreateDone, DeleteDone, history
<1>1. CASE IterDir(w) \/ ListGot(w) \/ ListNext(w)
  <2>1. \E p \in {"lookup", "next"} : pc' = [pc EXCEPT ![w] = p]
    BY <1>1 DEF IterDir, ListGot, ListNext, Goto
  <2>2. \E s : sid' = [sid EXCEPT ![w] = s]
    <3>1. sid = [sid EXCEPT ![w] = sid[w]]
      BY <1>0 DEF ControlTypeOK
    <3> QED BY <1>1, <3>1 DEF IterDir, ListGot, ListNext, Goto, request
  <2>3. obj' = [obj EXCEPT ![w] = obj[w]] /\ op' = [op EXCEPT ![w] = op[w]]
    BY <1>0, <1>1 DEF IterDir, ListGot, ListNext, Goto, request, ControlTypeOK
  <2> QED BY <1>0, <2>1, <2>2, <2>3, SoundQuiet
<1>3. CASE \E code : Respond(w, code)
  BY <1>0, <1>3, SoundRespond
<1> QED BY <1>1, <1>3 DEF WorkerStep, ListDone, GetDone, AudioDone, CreateDone, DeleteDone

\* Every step keeps the files of recorded turns.
LEMMA NextSound == Base /\ RInv /\ KeptInv /\ SoundInv /\ [Next]_vars => SoundInv'
<1> SUFFICES ASSUME Base, RInv, KeptInv, SoundInv, [Next]_vars PROVE SoundInv'
  OBVIOUS
<1> USE StoreAssumption, ServerAssumption
<1>0. Loop \in Threads /\ Workers \subseteq Threads /\ Loop \notin Workers
  OBVIOUS
<1>1. CASE Arrival
  <2>1. ASSUME NEW w \in Workers, StartList(w) PROVE SoundInv'
    BY <1>0, <2>1, SoundDispatch DEF StartList, history
  <2>2. ASSUME NEW w \in Workers, NEW s \in Sids, StartDelete(w, s) PROVE FALSE
    BY <2>2 DEF StartDelete, Base, Undisturbed, IInv, TypeOK, ServerTypeOK
  <2>3. ASSUME NEW w \in Workers, NEW s \in Sids, NEW k, StartGet(w, s, k) PROVE SoundInv'
    BY <1>0, <2>3, SoundDispatch DEF StartGet, history
  <2>4. ASSUME NEW s \in Sids, NEW kind \in TurnKinds, StartTurn(s, kind) PROVE SoundInv'
    BY <1>0, <2>4, SoundDispatch DEF StartTurn
  <2>5. ASSUME NEW w \in Workers, NEW s \in Sids, StartCreate(w, s) PROVE SoundInv'
    BY <2>5, SoundCreate
  <2> QED BY <1>1, <2>1, <2>2, <2>3, <2>4, <2>5 DEF Arrival
<1>2. ASSUME NEW t \in Threads, NotFound(t) \/ Raised(t) PROVE SoundInv'
  <2>1. UNCHANGED <<heap, cache, json, audio, issued, turnNo>> /\ \E code : Respond(t, code)
    BY <1>2 DEF NotFound, Raised, history
  <2> QED BY <2>1, SoundRespond
<1>3. CASE UNCHANGED vars
  BY <1>3 DEF vars, history, request, SoundInv, FilesKept, Savable, Sound, NewEmpty, Creating, TurnFiles, MyFile,
              TurnIndex, session
<1>4. CASE Crash
  <2>1. /\ UNCHANGED <<json, audio, issued>> /\ \A s \in Sids : cache'[s] = NoObj
        /\ \A t \in Threads : pc'[t] = "idle"
    BY <1>4 DEF Crash, StoreCrash
  <2>2. FilesKept'
    BY <2>1 DEF SoundInv, FilesKept, Sound
  <2>3. NewEmpty' /\ TurnFiles'
    BY <1>0, <2>1 DEF SoundInv, NewEmpty, Creating, TurnFiles, FilePCs
  <2> QED BY <2>2, <2>3 DEF SoundInv
<1> QED BY <1>1, <1>2, <1>3, <1>4, SoundStore, SoundWorker, SoundTurn DEF Next

\* The files of recorded turns are theirs throughout.
LEMMA SoundHolds ==
  ASSUME Undisturbed
  PROVE  Spec => []SoundInv
<1>1. Init => SoundInv
  <2> SUFFICES ASSUME Init PROVE SoundInv
    OBVIOUS
  <2>1. MissingFile.turns = <<>>
    BY DEF MissingFile
  <2>2. \A t \in Threads : pc[t] = "idle"
    BY DEF Init, StoreInit
  <2>3. FilesKept
    BY <2>1 DEF Init, StoreInit, FilesKept, Sound
  <2>4. NewEmpty /\ TurnFiles
    BY <2>1, <2>2, ServerAssumption DEF Init, StoreInit, NewEmpty, Creating, TurnFiles, FilePCs
  <2> QED BY <2>3, <2>4 DEF SoundInv
<1>2. IInv /\ SavesExclude /\ RInv /\ KeptInv /\ SoundInv /\ [Next]_vars => SoundInv'
  BY NextSound DEF Base
<1>3. (Spec => []RInv) /\ (Spec => []KeptInv)
  BY RouteHolds, KeptHolds
<1> QED BY <1>1, <1>2, <1>3, InvariantHolds, MutualExclusion, PTL DEF Spec

\* The audio URLs of a saved turn lead to the recording and the reply of that
\* turn: a failed turn, which leaves its files under the index that the next turn
\* uses, a restart or a torn session.json never gives a saved turn a file of
\* another one.
THEOREM AudioBelongsToTurn ==
  ASSUME Undisturbed
  PROVE  Spec => []AudioOfTurn
<1>1. SoundInv => AudioOfTurn
  BY DEF SoundInv, FilesKept, Sound, AudioOfTurn
<1>2. Spec => []SoundInv
  BY SoundHolds
<1> QED BY <1>1, <1>2, PTL

-----------------------------------------------------------------------------
(* The server implements ConversationLog.                                  *)

\* The ids of a list of turns.
IdsOf(turns) == [i \in DOMAIN turns |-> turns[i].id]

\* A conversation is served as before when its cached object keeps its turns.
LEMMA ServedSame ==
  ASSUME IInv, UNCHANGED cache, \A o \in DOMAIN heap : heap'[o].turns = heap[o].turns
  PROVE  UNCHANGED Log!logVars
<1>1. ASSUME NEW s \in Sids PROVE ServedLog(s)' = ServedLog(s)
  <2>1. cache[s] # NoObj => heap'[cache[s]].turns = heap[cache[s]].turns
    BY DEF IInv, RefsValid
  <2> QED BY <2>1 DEF ServedLog
<1> QED BY <1>1 DEF Log!logVars

\* The ids after one more turn.
LEMMA IdsAppend ==
  ASSUME NEW turns \in Seq(Turn), NEW r, r.id \in Nat
  PROVE  IdsOf(Append(turns, r)) = Append(IdsOf(turns), r.id)
<1>1. \A x \in Turn : x.id \in Nat
  BY DEF Turn
<1>2. IdsOf(turns) \in Seq(Nat) /\ Len(IdsOf(turns)) = Len(turns)
  BY <1>1 DEF IdsOf
<1>3. /\ DOMAIN Append(turns, r) = 1..(Len(turns) + 1) /\ Append(turns, r)[Len(turns) + 1] = r
      /\ \A i \in 1..Len(turns) : Append(turns, r)[i] = turns[i]
      /\ Len(turns) \in Nat /\ DOMAIN turns = 1..Len(turns)
  OBVIOUS
<1>4. /\ DOMAIN Append(IdsOf(turns), r.id) = 1..(Len(turns) + 1)
      /\ Append(IdsOf(turns), r.id)[Len(turns) + 1] = r.id
      /\ \A i \in 1..Len(turns) : Append(IdsOf(turns), r.id)[i] = turns[i].id
      /\ Append(IdsOf(turns), r.id) \in Seq(Nat)
  <2>1. \A i \in 1..Len(turns) : IdsOf(turns)[i] = turns[i].id
    BY <1>3 DEF IdsOf
  <2> HIDE DEF IdsOf
  <2> QED BY <1>2, <2>1
<1>5. \A i \in 1..(Len(turns) + 1) : Append(turns, r)[i].id = Append(IdsOf(turns), r.id)[i]
  BY <1>3, <1>4
<1>6. Append(IdsOf(turns), r.id) = [i \in 1..(Len(turns) + 1) |-> Append(IdsOf(turns), r.id)[i]]
  BY <1>4
<1> QED BY <1>3, <1>5, <1>6 DEF IdsOf

\* The circumstances of the refinement: the process lives, nothing is deleted.
Lasting == MaxDeletes = 0 /\ MaxCrashes = 0

\* _save of create_session opens a conversation, which is empty.
LEMMA AcquireOpens ==
  ASSUME Base, RInv, SoundInv, NEW t \in Threads, Acquire(t)
  PROVE  [Log!LogNext]_(Log!logVars)
<1>a. /\ DataTypeOK /\ pc[t] = "acquire" /\ Route(t) /\ Owner(t)
      /\ cache' = [cache EXCEPT ![sid[t]] = obj[t]] /\ UNCHANGED heap
  BY DEF Base, IInv, TypeOK, StoreTypeOK, RInv, Acquire
<1>b. sid[t] \in Sids
  BY <1>a DEF Base, IInv, TypeOK, ServerTypeOK, SidsIssued
<1>c. obj[t] # NoObj /\ obj[t] \in DOMAIN heap
  BY <1>a DEF Base, IInv, RefsValid, UsesObj, NoObj, DataTypeOK
<1>0. /\ DataTypeOK /\ pc[t] = "acquire" /\ sid[t] \in Sids /\ Route(t) /\ Owner(t)
      /\ obj[t] # NoObj /\ obj[t] \in DOMAIN heap
      /\ cache' = [cache EXCEPT ![sid[t]] = obj[t]] /\ UNCHANGED heap
  BY <1>a, <1>b, <1>c
<1>1. CASE t = Loop
  <2>1. UNCHANGED <<cache, heap>>
    BY <1>0, <1>1 DEF Route, UsesObj, DataTypeOK
  <2> QED BY <2>1, ServedSame DEF Base
<1>2. CASE t # Loop
  <2>1. cache[sid[t]] = NoObj /\ heap[obj[t]].turns = <<>>
    BY <1>0, <1>2 DEF Route, Owner, Creating, SoundInv, NewEmpty
  <2>2. cache'[sid[t]] = obj[t] /\ \A s \in Sids : s # sid[t] => cache'[s] = cache[s]
    BY <1>0 DEF DataTypeOK
  <2>3. ASSUME NEW s \in Sids PROVE ServedLog(s)' = ServedLog(s)
    <3>1. CASE s = sid[t]
      <4>1. ServedLog(s) = <<>>
        BY <2>1, <3>1 DEF ServedLog
      <4>2. ServedLog(s)' = [i \in DOMAIN heap[obj[t]].turns |-> heap[obj[t]].turns[i].id]
        BY <1>0, <2>2, <3>1 DEF ServedLog
      <4>3. ASSUME NEW turns, turns = <<>> PROVE [i \in DOMAIN turns |-> turns[i].id] = <<>>
        BY <4>3
      <4> QED BY <2>1, <4>1, <4>2, <4>3
    <3>2. CASE s # sid[t]
      BY <1>0, <2>2, <3>2 DEF ServedLog
    <3> QED BY <3>1, <3>2
  <2>4. {s \in Sids : cache'[s] # NoObj} = {s \in Sids : cache[s] # NoObj} \cup {sid[t]}
    BY <1>0, <2>2
  <2>5. PICK s \in Sids : s = sid[t]
    BY <1>0
  <2>6. Log!Open(s)
    BY <2>1, <2>3, <2>4, <2>5 DEF Log!Open
  <2> QED BY <2>6 DEF Log!LogNext
<1> QED BY <1>1, <1>2

\* _save_turn_and_respond adds one turn, younger than all others, to one
\* conversation.
LEMMA AppendAnswers ==
  ASSUME Base, RInv, HistInv, AppendTurn
  PROVE  Log!LogNext
<1> USE StoreAssumption, ServerAssumption
<1>0. /\ DataTypeOK /\ Loop \in Threads /\ sid[Loop] \in Sids /\ pc[Loop] = "append"
      /\ obj[Loop] \in DOMAIN heap /\ heap[obj[Loop]].sid = sid[Loop]
      /\ cache[sid[Loop]] = obj[Loop] /\ obj[Loop] # NoObj
      /\ UNCHANGED <<cache, turnNo, sid, obj>> /\ turnNo \in 0..MaxTurns
  BY SMTT(40) DEF Base, IInv, TypeOK, StoreTypeOK, DataTypeOK, ServerTypeOK, RefsValid, SidsIssued, RInv, Route, UsesObj, NoObj,
         AppendTurn, Goto, request, history
<1> DEFINE turns == heap[obj[Loop]].turns
           r == [index |-> TurnIndex, id |-> turnNo, user |-> op[Loop] = "voice", reply |-> op[Loop] # "text"]
<1>1. /\ \A o \in DOMAIN heap : o # obj[Loop] => heap'[o] = heap[o]
      /\ turns \in Seq(Turn) /\ heap'[obj[Loop]].turns = Append(turns, r) /\ r.id = turnNo
  BY AppendObject DEF Base
<1>2. turnNo \in 1..MaxTurns /\ turnNo \in Nat
  BY <1>0 DEF HistInv, FreshPCs
<1>c. \A s \in Sids : cache[s] # NoObj => cache[s] \in DOMAIN heap /\ (s # sid[Loop] => cache[s] # obj[Loop])
  BY <1>0 DEF Base, IInv, RefsValid
<1> HIDE DEF turns, r
<1>3. ServedLog(sid[Loop]) = IdsOf(turns)
  BY <1>0 DEF ServedLog, IdsOf, turns
<1>4. ServedLog(sid[Loop])' = IdsOf(Append(turns, r))
  BY <1>0, <1>1 DEF ServedLog, IdsOf
<1>5. ServedLog(sid[Loop])' = Append(ServedLog(sid[Loop]), turnNo)
  BY <1>1, <1>2, <1>3, <1>4, IdsAppend
<1>6. \A s \in Sids : s # sid[Loop] => ServedLog(s)' = ServedLog(s)
  BY <1>0, <1>1, <1>c DEF ServedLog
<1>7. ASSUME NEW s \in Sids, NEW i \in DOMAIN ServedLog(s) PROVE ServedLog(s)[i] < turnNo
  <2>1. CASE cache[s] = NoObj
    <3>1. DOMAIN ServedLog(s) = {}
      BY <2>1 DEF ServedLog
    <3> QED BY <1>7, <3>1
  <2>2. CASE cache[s] # NoObj
    <3>1. OldTurns(heap[cache[s]].turns)
      BY <1>c, <2>2 DEF HistInv
    <3>2. \A j \in DOMAIN heap[cache[s]].turns : heap[cache[s]].turns[j].id < turnNo
      BY <1>0, <3>1 DEF OldTurns, FreshPCs
    <3> QED BY <1>7, <2>2, <3>2 DEF ServedLog
  <2> QED BY <2>1, <2>2
<1>8. [s \in Sids |-> ServedLog(s)]' = [[s \in Sids |-> ServedLog(s)] EXCEPT ![sid[Loop]] = Append(@, turnNo)]
  BY <1>0, <1>5, <1>6
<1>9. Log!Answer(sid[Loop], turnNo)
  BY <1>0, <1>7, <1>8 DEF Log!Answer
<1> QED BY <1>0, <1>2, <1>9 DEF Log!LogNext

\* Every step of the server opens a conversation, adds one turn to one, or
\* leaves all of them as they are.
LEMMA NextLog ==
  ASSUME Lasting, Base, RInv, SoundInv, HistInv, [Next]_vars
  PROVE  [Log!LogNext]_(Log!logVars)
<1> USE StoreAssumption, ServerAssumption
<1>0. Loop \in Threads /\ Workers \subseteq Threads /\ \A t \in Threads : Route(t)
  BY DEF RInv
<1>1. CASE Arrival
  <2>1. UNCHANGED cache
    BY <1>1 DEF Arrival, StartList, StartGet, StartDelete, StartTurn, StartCreate
  <2>2. CASE UNCHANGED heap
    BY <2>1, <2>2, ServedSame DEF Base
  <2>3. CASE \E x : heap' = Append(heap, x)
    <3>1. \A o \in DOMAIN heap : heap'[o] = heap[o]
      BY <2>3, NewObject DEF Base
    <3> QED BY <2>1, <3>1, ServedSame DEF Base
  <2> QED BY <1>1, <2>2, <2>3 DEF Arrival, StartList, StartGet, StartDelete, StartTurn, StartCreate
<1>2. ASSUME NEW t \in Threads, Store(t) PROVE [Log!LogNext]_(Log!logVars)
  <2>1. CASE Acquire(t)
    BY <2>1, AcquireOpens
  <2>2. pc[t] \notin LoadPCs \cup DeletePCs
    BY <1>0 DEF Route, Lasting
  <2>3. Acquire(t) \/ UNCHANGED <<heap, cache>>
    BY <1>2, <2>2 DEF Store, StoreStep, Lookup, IsFile, ReadJson, Install, Mkdir, OpenJson, WriteJson, Pop, Glob,
                      CheckFile, Unlink, Rmdir, LoadPCs
  <2> QED BY <2>1, <2>3, ServedSame DEF Base
<1>3. ASSUME NEW t \in Threads, NotFound(t) \/ Raised(t) PROVE [Log!LogNext]_(Log!logVars)
  BY <1>3, ServedSame DEF Base, NotFound, Raised
<1>4. ASSUME NEW w \in Workers, WorkerStep(w) PROVE [Log!LogNext]_(Log!logVars)
  <2>1. UNCHANGED <<heap, cache>>
    BY <1>4 DEF WorkerStep, IterDir, ListNext, ListDone, ListGot, GetDone, AudioDone, CreateDone, DeleteDone
  <2> QED BY <2>1, ServedSame DEF Base
<1>5. CASE TurnStep
  <2>1. CASE AppendTurn
    BY <2>1, AppendAnswers
  <2>2. CASE Remember
    <3>1. UNCHANGED cache /\ \A o \in DOMAIN heap : heap'[o].turns = heap[o].turns
      BY <2>2, RememberObject DEF Base, Remember
    <3> QED BY <3>1, ServedSame DEF Base
  <2>3. AppendTurn \/ Remember \/ UNCHANGED <<heap, cache>>
    BY <1>5 DEF TurnStep, RefuseBlank, Prepare, Upload, MakeDir, Transcode, Generate, Speak, PipelineFails, TurnDone
  <2> QED BY <2>1, <2>2, <2>3, ServedSame DEF Base
<1>6. CASE Crash
  BY <1>6 DEF Crash, Lasting, Base, IInv, TypeOK, ServerTypeOK
<1>7. CASE UNCHANGED vars
  BY <1>7, ServedSame DEF vars, Base
<1> QED BY <1>1, <1>2, <1>3, <1>4, <1>5, <1>6, <1>7 DEF Next

\* While no session is deleted and the process lives, the server implements the
\* append-only log: whatever gets, listings and creations interleave with a turn,
\* the conversations that the session API serves only grow, one turn at a time,
\* by _save_turn_and_respond.
THEOREM ServesTheLog ==
  ASSUME Lasting
  PROVE  Spec => ImplementsLog
<1>0. Undisturbed
  BY DEF Lasting, Undisturbed
<1>1. Init => Log!LogInit
  <2> SUFFICES ASSUME Init PROVE Log!LogInit
    OBVIOUS
  <2>1. \A s \in Sids : cache[s] = NoObj
    BY DEF Init, StoreInit
  <2>2. \A s \in Sids : ServedLog(s) = <<>>
    BY <2>1 DEF ServedLog
  <2> QED BY <2>1, <2>2 DEF Log!LogInit
<1>2. IInv /\ SavesExclude /\ RInv /\ SoundInv /\ HistInv /\ [Next]_vars => [Log!LogNext]_(Log!logVars)
  BY <1>0, NextLog DEF Base
<1>3. (Spec => []RInv) /\ (Spec => []SoundInv)
  BY <1>0, RouteHolds, SoundHolds
<1> QED BY <1>1, <1>2, <1>3, InvariantHolds, MutualExclusion, OrderHolds, PTL DEF Spec, ImplementsLog, Log!LogSpec

=============================================================================
