---------------------------- MODULE SessionStore ----------------------------
(***************************************************************************)
(* The session store of the voice server: speech_ai_exp/server/app/        *)
(* session_store.py.  A session lives in three places:                     *)
(*                                                                         *)
(*   - as Python objects in the process (heap); a reload makes a NEW       *)
(*     object, so two objects may stand for one session;                   *)
(*   - in the store's dictionary _cache, which maps a session id to one of *)
(*     those objects;                                                      *)
(*   - on disk, as a directory with session.json and the audio files.      *)
(*                                                                         *)
(* The store's methods are executed by several threads.  A thread's step   *)
(* is one stretch of code that other threads cannot see half-done: one     *)
(* critical section of _lock without I/O, or one system call.  pc names    *)
(* the next stretch.  A method ends in one of the pcs of Returned and the  *)
(* request handler (module VoiceServer) goes on from there.                *)
(***************************************************************************)
EXTENDS Naturals, Sequences, FiniteSets

CONSTANTS Sids,      \* session ids: values of uuid4().hex
          Threads,   \* threads of the server process
          NoThread,  \* value of lock when _lock is free
          NoSid      \* the session id of a thread that serves no session

ASSUME StoreAssumption ==
    /\ NoThread \notin Threads
    /\ NoSid \notin Sids

VARIABLES
    pc,     \* the code each thread executes next
    op,     \* the request it handles
    sid,    \* the session it works on
    obj,    \* the Session object it refers to: a position of heap, or NoObj
    todo,   \* delete: the files it has still to unlink
    rest,   \* list_sessions: the directories it has still to visit
    lock,   \* holder of SessionStore._lock
    heap,   \* the Session objects made since the process started
    cache,  \* SessionStore._cache: a position of heap, or NoObj
    dirs,   \* the sessions whose directory exists
    json,   \* what its session.json holds
    audio   \* the audio files in it

request == <<op, sid, obj, todo, rest>>

-----------------------------------------------------------------------------
NoObj == 0

\* One TurnRecord.  id stands for the transcript, the reply and the timings of
\* the request that made it; user and reply say whether user_audio and
\* reply_audio name a file.
Turn == [index : Nat, id : Nat, user : BOOLEAN, reply : BOOLEAN]

\* One Session object.  memory is agent_memory: the ids of the turns whose
\* remember calls it holds.
Session == [sid : Sids, turns : Seq(Turn), memory : SUBSET Nat]

\* session.json: absent, opened for writing and not yet written, or complete.
JsonFile == [state : {"missing", "torn", "whole"}, turns : Seq(Turn), memory : SUBSET Nat]

MissingFile == [state |-> "missing", turns |-> <<>>, memory |-> {}]
TornFile    == [state |-> "torn", turns |-> <<>>, memory |-> {}]

\* Mutant: to_dict leaves agent_memory out.
ToJson_NoMemory(o) == [state |-> "whole", turns |-> o.turns]

\* Session.to_dict followed by json.dumps.
ToJson(o) == [state |-> "whole", turns |-> o.turns, memory |-> o.memory]

\* json.loads followed by Session.from_dict.
FromJson(s, f) == [sid |-> s, turns |-> f.turns, memory |-> f.memory]

\* The names of files in a session directory; by is the turn that wrote it.
FileName  == [index : Nat, kind : {"json", "user", "reply"}]
AudioFile == [index : Nat, kind : {"user", "reply"}, by : Nat]

SessionJson == [index |-> 0, kind |-> "json"]
NameOf(a)   == [index |-> a.index, kind |-> a.kind]
FilesIn(s)  == {NameOf(a) : a \in audio[s]}
               \cup (IF json[s].state = "missing" THEN {} ELSE {SessionJson})

\* Writing an audio file replaces the one of the same name.
PutAudio(F, i, k, by) ==
    {a \in F : a.index # i \/ a.kind # k} \cup {[index |-> i, kind |-> k, by |-> by]}

\* sorted(d.glob("*"), reverse=True): turn_002_user, turn_002_reply, ...,
\* turn_001_reply and, because "session" < "turn", session.json last.
NameAfter(f, g) == f.index > g.index \/ (f.index = g.index /\ f.kind = "user")
LastName(F) == CHOOSE f \in F : \A g \in F \ {f} : NameAfter(f, g)

-----------------------------------------------------------------------------
GetPCs      == {"lookup", "isfile", "read", "install"}
LockedPCs   == {"mkdir", "open", "write"}
SavePCs     == {"acquire"} \cup LockedPCs
DeletePCs   == {"pop", "glob", "check", "unlink"}
Returned    == {"found", "absent", "raised", "saved", "deleted"}
HandlerPCs  == {"idle", "iterdir", "next", "upload", "convert", "transcode", "run",
                "outdir", "speak", "append"}
PCs         == GetPCs \cup SavePCs \cup DeletePCs \cup Returned \cup HandlerPCs

Ops == {"none", "create", "get", "audio", "list", "delete", "voice", "text", "spoken"}

ControlTypeOK ==
    /\ pc \in [Threads -> PCs]
    /\ op \in [Threads -> Ops]
    /\ sid \in [Threads -> Sids \cup {NoSid}]
    /\ obj \in [Threads -> Nat]
    /\ todo \in [Threads -> SUBSET FileName]
    /\ rest \in [Threads -> SUBSET Sids]

DataTypeOK ==
    /\ lock \in Threads \cup {NoThread}
    /\ heap \in Seq(Session)
    /\ cache \in [Sids -> Nat]
    /\ dirs \subseteq Sids
    /\ json \in [Sids -> JsonFile]
    /\ audio \in [Sids -> SUBSET AudioFile]

StoreTypeOK == ControlTypeOK /\ DataTypeOK

StoreInit ==
    /\ pc = [t \in Threads |-> "idle"]
    /\ op = [t \in Threads |-> "none"]
    /\ sid = [t \in Threads |-> NoSid]
    /\ obj = [t \in Threads |-> NoObj]
    /\ todo = [t \in Threads |-> {}]
    /\ rest = [t \in Threads |-> {}]
    /\ lock = NoThread
    /\ heap = <<>>
    /\ cache = [s \in Sids |-> NoObj]
    /\ dirs = {}
    /\ json = [s \in Sids |-> MissingFile]
    /\ audio = [s \in Sids |-> {}]

\* Thread t goes on at p; nothing else of its request changes.
Goto(t, p) == pc' = [pc EXCEPT ![t] = p] /\ UNCHANGED request

\* It goes on at p with the object o.
GotoWith(t, p, o) ==
    /\ pc' = [pc EXCEPT ![t] = p]
    /\ obj' = [obj EXCEPT ![t] = o]
    /\ UNCHANGED <<op, sid, todo, rest>>

\* It goes on at p with the files F to unlink.
GotoFiles(t, p, F) ==
    /\ pc' = [pc EXCEPT ![t] = p]
    /\ todo' = [todo EXCEPT ![t] = F]
    /\ UNCHANGED <<op, sid, obj, rest>>

-----------------------------------------------------------------------------
(* get: a cache look-up under the lock, a load from disk outside it, and   *)
(* the new object put into the cache under the lock again.                 *)

\* Mutants of get: _cache.get(session_id) returned without the check for a miss;
\* a reload at every call; a missing session made on the fly; a retry until the
\* file is there.
Lookup_NoMissCheck(t) ==
    /\ pc[t] = "lookup"
    /\ lock = NoThread
    /\ GotoWith(t, "found", cache[sid[t]])
    /\ UNCHANGED <<lock, heap, cache, dirs, json, audio>>

Lookup_AlwaysReloads(t) ==
    /\ pc[t] = "lookup"
    /\ lock = NoThread
    /\ Goto(t, "isfile")
    /\ UNCHANGED <<lock, heap, cache, dirs, json, audio>>

IsFile_GetOrCreate(t) ==
    /\ pc[t] = "isfile"
    /\ IF json[sid[t]].state = "missing"
       THEN /\ heap' = Append(heap, FromJson(sid[t], MissingFile))
            /\ GotoWith(t, "install", Len(heap) + 1)
       ELSE Goto(t, "read") /\ UNCHANGED heap
    /\ UNCHANGED <<lock, cache, dirs, json, audio>>

IsFile_Retries(t) ==
    /\ pc[t] = "isfile"
    /\ Goto(t, IF json[sid[t]].state = "missing" THEN "lookup" ELSE "read")
    /\ UNCHANGED <<lock, heap, cache, dirs, json, audio>>

Lookup(t) ==
    /\ pc[t] = "lookup"
    /\ lock = NoThread
    /\ LET o == cache[sid[t]]
       IN GotoWith(t, IF o = NoObj THEN "isfile" ELSE "found", o)
    /\ UNCHANGED <<lock, heap, cache, dirs, json, audio>>

\* _load_from_disk: path.is_file()
IsFile(t) ==
    /\ pc[t] = "isfile"
    /\ Goto(t, IF json[sid[t]].state = "missing" THEN "absent" ELSE "read")
    /\ UNCHANGED <<lock, heap, cache, dirs, json, audio>>

\* _load_from_disk: a file that vanished or does not parse raises.
ReadJson(t) ==
    LET f == json[sid[t]]
    IN /\ pc[t] = "read"
       /\ \/ /\ f.state # "whole"
             /\ Goto(t, "raised")
             /\ UNCHANGED heap
          \/ /\ f.state = "whole"
             /\ heap' = Append(heap, FromJson(sid[t], f))
             /\ GotoWith(t, "install", Len(heap) + 1)
       /\ UNCHANGED <<lock, cache, dirs, json, audio>>

Install(t) ==
    /\ pc[t] = "install"
    /\ lock = NoThread
    /\ cache' = [cache EXCEPT ![sid[t]] = obj[t]]
    /\ Goto(t, "found")
    /\ UNCHANGED <<lock, heap, dirs, json, audio>>

-----------------------------------------------------------------------------
(* create and update: the object goes into the cache and _save writes it,  *)
(* all under the lock.  write_text truncates the file, then writes it.     *)

\* Mutants of update and _save: no lock; text that is never flushed.
Acquire_NoLock(t) ==
    /\ pc[t] = "acquire"
    /\ lock' = t
    /\ cache' = [cache EXCEPT ![sid[t]] = obj[t]]
    /\ Goto(t, "mkdir")
    /\ UNCHANGED <<heap, dirs, json, audio>>

WriteJson_NoFlush(t) ==
    /\ pc[t] = "write"
    /\ lock' = NoThread
    /\ Goto(t, "saved")
    /\ UNCHANGED <<heap, cache, dirs, json, audio>>

Acquire(t) ==
    /\ pc[t] = "acquire"
    /\ lock = NoThread
    /\ lock' = t
    /\ cache' = [cache EXCEPT ![sid[t]] = obj[t]]
    /\ Goto(t, "mkdir")
    /\ UNCHANGED <<heap, dirs, json, audio>>

Mkdir(t) ==
    /\ pc[t] = "mkdir"
    /\ dirs' = dirs \cup {sid[t]}
    /\ Goto(t, "open")
    /\ UNCHANGED <<lock, heap, cache, json, audio>>

\* open(..., "w") fails when the directory was removed since mkdir.
OpenJson(t) ==
    LET s == sid[t]
    IN /\ pc[t] = "open"
       /\ \/ /\ s \in dirs
             /\ json' = [json EXCEPT ![s] = TornFile]
             /\ Goto(t, "write")
             /\ UNCHANGED lock
          \/ /\ s \notin dirs
             /\ lock' = NoThread
             /\ Goto(t, "raised")
             /\ UNCHANGED json
       /\ UNCHANGED <<heap, cache, dirs, audio>>

\* A file that was unlinked since it was opened takes the text with it.
WriteJson(t) ==
    LET s == sid[t]
    IN /\ pc[t] = "write"
       /\ json' = IF json[s].state = "missing" THEN json
                  ELSE [json EXCEPT ![s] = ToJson(heap[obj[t]])]
       /\ lock' = NoThread
       /\ Goto(t, "saved")
       /\ UNCHANGED <<heap, cache, dirs, audio>>

-----------------------------------------------------------------------------
(* delete: the cache entry goes under the lock; exists, glob, unlink and   *)
(* rmdir run without it.                                                   *)

Pop(t) ==
    /\ pc[t] = "pop"
    /\ lock = NoThread
    /\ cache' = [cache EXCEPT ![sid[t]] = NoObj]
    /\ Goto(t, "glob")
    /\ UNCHANGED <<lock, heap, dirs, json, audio>>

\* d.exists() and the listing that sorted() takes of d.glob("*").
Glob(t) ==
    /\ pc[t] = "glob"
    /\ IF sid[t] \in dirs THEN GotoFiles(t, "check", FilesIn(sid[t])) ELSE Goto(t, "absent")
    /\ UNCHANGED <<lock, heap, cache, dirs, json, audio>>

\* p.is_file() for the next name of the listing.
CheckFile(t) ==
    LET f == LastName(todo[t])
    IN /\ pc[t] = "check"
       /\ todo[t] # {}
       /\ IF f \in FilesIn(sid[t])
          THEN Goto(t, "unlink")
          ELSE GotoFiles(t, "check", todo[t] \ {f})
       /\ UNCHANGED <<lock, heap, cache, dirs, json, audio>>

Unlink(t) ==
    LET f == LastName(todo[t])
        s == sid[t]
    IN /\ pc[t] = "unlink"
       /\ \/ /\ f \notin FilesIn(s)
             /\ Goto(t, "raised")
             /\ UNCHANGED <<json, audio>>
          \/ /\ f \in FilesIn(s)
             /\ GotoFiles(t, "check", todo[t] \ {f})
             /\ json' = IF f = SessionJson THEN [json EXCEPT ![s] = MissingFile] ELSE json
             /\ audio' = [audio EXCEPT ![s] = {a \in @ : NameOf(a) # f}]
       /\ UNCHANGED <<lock, heap, cache, dirs>>

\* rmdir refuses a directory that is gone or not empty.
Rmdir(t) ==
    LET s == sid[t]
    IN /\ pc[t] = "check"
       /\ todo[t] = {}
       /\ \/ /\ s \in dirs
             /\ FilesIn(s) = {}
             /\ dirs' = dirs \ {s}
             /\ Goto(t, "deleted")
          \/ /\ s \notin dirs \/ FilesIn(s) # {}
             /\ Goto(t, "raised")
             /\ UNCHANGED dirs
       /\ UNCHANGED <<lock, heap, cache, json, audio>>

-----------------------------------------------------------------------------
\* A step of the store on behalf of thread t.
StoreStep(t) ==
    \/ Lookup(t) \/ IsFile(t) \/ ReadJson(t) \/ Install(t)
    \/ Acquire(t) \/ Mkdir(t) \/ OpenJson(t) \/ WriteJson(t)
    \/ Pop(t) \/ Glob(t) \/ CheckFile(t) \/ Unlink(t) \/ Rmdir(t)

\* The process dies: memory is lost, the disk stays as it is.
StoreCrash ==
    /\ pc' = [t \in Threads |-> "idle"]
    /\ op' = [t \in Threads |-> "none"]
    /\ sid' = [t \in Threads |-> NoSid]
    /\ obj' = [t \in Threads |-> NoObj]
    /\ todo' = [t \in Threads |-> {}]
    /\ rest' = [t \in Threads |-> {}]
    /\ lock' = NoThread
    /\ heap' = <<>>
    /\ cache' = [s \in Sids |-> NoObj]
    /\ UNCHANGED <<dirs, json, audio>>
=============================================================================
