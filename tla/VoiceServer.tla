----------------------------- MODULE VoiceServer -----------------------------
(***************************************************************************)
(* The HTTP handlers of speech_ai_exp/server/app/main.py over the session  *)
(* store.                                                                  *)
(*                                                                         *)
(* post_turn and post_text_turn are "async def" handlers without an await: *)
(* they run on the event-loop thread (Loop) from beginning to end, so two  *)
(* turns never overlap and no request is dispatched while a turn runs.     *)
(* The other handlers are plain "def": each runs on a thread of the pool   *)
(* (Workers), and one dispatched before a turn goes on beside it.          *)
(*                                                                         *)
(* What the pipeline computes is abstracted to the id of the turn; what it *)
(* does to the session (remember, the reply file, failing) is kept.        *)
(***************************************************************************)
EXTENDS SessionStore

CONSTANTS Loop, Workers,
          Requests,    \* the requests that clients send in this instance
          MaxTurns,    \* bound on turns started
          MaxDeletes,  \* bound on DELETE requests
          MaxCrashes   \* bound on deaths of the process

TurnKinds == {"voice", "text", "spoken"}

ASSUME ServerAssumption ==
    /\ Loop \notin Workers
    /\ Threads = Workers \cup {Loop}
    /\ Requests \subseteq Ops \ {"none"}
    /\ MaxTurns \in Nat /\ MaxDeletes \in Nat /\ MaxCrashes \in Nat

VARIABLES
    issued,    \* session ids drawn by create
    known,     \* session ids some client has been told
    turnNo,    \* number of turns started; the running turn's id
    acked,     \* turns answered with 200: session, id, did it remember a fact?
    deleted,   \* sessions whose DELETE was answered with "deleted"
    deletes,   \* number of DELETE requests
    crashes,   \* number of deaths of the process
    reply      \* the response sent by the last step

history == <<issued, known, turnNo, acked, deleted, deletes, crashes>>
vars == <<pc, request, lock, heap, cache, dirs, json, audio, history, reply>>

\* 200, 404, and every other HTTPException or unhandled exception.
Codes   == {"ok", "notfound", "error"}
NoReply == [op |-> "none", sid |-> NoSid, code |-> "ok"]

ServerTypeOK ==
    /\ issued \subseteq Sids
    /\ known \subseteq issued
    /\ turnNo \in 0..MaxTurns
    /\ acked \subseteq [sid : Sids, id : Nat, fact : BOOLEAN]
    /\ deleted \subseteq issued
    /\ deletes \in 0..MaxDeletes
    /\ crashes \in 0..MaxCrashes
    /\ reply \in [op : Ops, sid : Sids \cup {NoSid}, code : Codes]

\* The types of the store's variables and of the handlers' variables.
TypeOK == StoreTypeOK /\ ServerTypeOK

Init ==
    /\ StoreInit
    /\ issued = {} /\ known = {} /\ turnNo = 0
    /\ acked = {} /\ deleted = {}
    /\ deletes = 0 /\ crashes = 0
    /\ reply = NoReply

\* Thread t handles a request of kind k, from code p on.
Serve(t, k, p, s, o) ==
    /\ pc' = [pc EXCEPT ![t] = p]
    /\ op' = [op EXCEPT ![t] = k]
    /\ sid' = [sid EXCEPT ![t] = s]
    /\ obj' = [obj EXCEPT ![t] = o]
    /\ todo' = [todo EXCEPT ![t] = {}]
    /\ rest' = [rest EXCEPT ![t] = {}]

\* The handler of thread t answers and the thread is free again.
Respond(t, code) ==
    /\ Serve(t, "none", "idle", NoSid, NoObj)
    /\ reply' = [op |-> op[t], sid |-> sid[t], code |-> code]

\* A step that goes on with the request and answers nothing.
Continue == reply' = NoReply

\* The event loop hands a request to thread t, which will begin at pc p.
Dispatch(t, k, p, s, o) ==
    /\ k \in Requests
    /\ pc[Loop] = "idle"
    /\ pc[t] = "idle"
    /\ Serve(t, k, p, s, o)
    /\ Continue

-----------------------------------------------------------------------------
(* The handlers that run on pool threads.                                  *)

\* create_session: SessionStore.create makes the object, then saves it.
StartCreate(w, s) ==
    /\ s \notin issued
    /\ issued' = issued \cup {s}
    /\ heap' = Append(heap, [sid |-> s, turns |-> <<>>, memory |-> {}])
    /\ Dispatch(w, "create", "acquire", s, Len(heap) + 1)
    /\ UNCHANGED <<lock, cache, dirs, json, audio, known, turnNo, acked, deleted, deletes, crashes>>

\* get_session and get_audio begin with _require_session.
StartGet(w, s, k) ==
    /\ s \in known
    /\ Dispatch(w, k, "lookup", s, NoObj)
    /\ UNCHANGED <<lock, heap, cache, dirs, json, audio, history>>

StartList(w) ==
    /\ Dispatch(w, "list", "iterdir", NoSid, NoObj)
    /\ UNCHANGED <<lock, heap, cache, dirs, json, audio, history>>

StartDelete(w, s) ==
    /\ s \in known
    /\ deletes < MaxDeletes
    /\ deletes' = deletes + 1
    /\ Dispatch(w, "delete", "pop", s, NoObj)
    /\ UNCHANGED <<lock, heap, cache, dirs, json, audio, issued, known, turnNo, acked, deleted, crashes>>

\* list_sessions: the listing of the root directory ...
IterDir(w) ==
    /\ pc[w] = "iterdir"
    /\ pc' = [pc EXCEPT ![w] = "next"]
    /\ rest' = [rest EXCEPT ![w] = dirs]
    /\ Continue
    /\ UNCHANGED <<op, sid, obj, todo, lock, heap, cache, dirs, json, audio, history>>

\* ... then get(sid) for every directory of it that still exists.
ListNext(w) ==
    /\ pc[w] = "next"
    /\ \E s \in rest[w] :
          /\ pc' = [pc EXCEPT ![w] = IF s \in dirs THEN "lookup" ELSE "next"]
          /\ sid' = [sid EXCEPT ![w] = s]
          /\ rest' = [rest EXCEPT ![w] = @ \ {s}]
    /\ Continue
    /\ UNCHANGED <<op, obj, todo, lock, heap, cache, dirs, json, audio, history>>

ListDone(w) ==
    /\ pc[w] = "next"
    /\ rest[w] = {}
    /\ Respond(w, "ok")
    /\ UNCHANGED <<lock, heap, cache, dirs, json, audio, history>>

ListGot(w) ==
    /\ op[w] = "list"
    /\ pc[w] \in {"found", "absent"}
    /\ Goto(w, "next")
    /\ known' = IF pc[w] = "found" THEN known \cup {sid[w]} ELSE known
    /\ Continue
    /\ UNCHANGED <<lock, heap, cache, dirs, json, audio, issued, turnNo, acked, deleted, deletes, crashes>>

GetDone(w) ==
    /\ op[w] = "get"
    /\ pc[w] = "found"
    /\ Respond(w, "ok")
    /\ UNCHANGED <<lock, heap, cache, dirs, json, audio, history>>

\* get_audio: session_audio_dir makes the directory, then is_file decides on
\* the file the client names.
AudioDone(w) ==
    /\ op[w] = "audio"
    /\ pc[w] = "found"
    /\ dirs' = dirs \cup {sid[w]}
    /\ \E code \in {"notfound"} \cup (IF audio[sid[w]] = {} THEN {} ELSE {"ok"}) : Respond(w, code)
    /\ UNCHANGED <<lock, heap, cache, json, audio, history>>

CreateDone(w) ==
    /\ op[w] = "create"
    /\ pc[w] = "saved"
    /\ known' = known \cup {sid[w]}
    /\ Respond(w, "ok")
    /\ UNCHANGED <<lock, heap, cache, dirs, json, audio, issued, turnNo, acked, deleted, deletes, crashes>>

DeleteDone(w) ==
    /\ pc[w] = "deleted"
    /\ deleted' = deleted \cup {sid[w]}
    /\ Respond(w, "ok")
    /\ UNCHANGED <<lock, heap, cache, dirs, json, audio, issued, known, turnNo, acked, deletes, crashes>>

-----------------------------------------------------------------------------
(* Handlers of both kinds.                                                 *)

\* HTTPException(404): _require_session, or delete on a missing directory.
NotFound(t) ==
    /\ pc[t] = "absent"
    /\ op[t] # "list"
    /\ Respond(t, "notfound")
    /\ UNCHANGED <<lock, heap, cache, dirs, json, audio, history>>

\* An exception of the store that no handler catches.
Raised(t) ==
    /\ pc[t] = "raised"
    /\ Respond(t, "error")
    /\ UNCHANGED <<lock, heap, cache, dirs, json, audio, history>>

Store(t) ==
    /\ StoreStep(t)
    /\ Continue
    /\ UNCHANGED history

-----------------------------------------------------------------------------
(* post_turn ("voice") and post_text_turn ("text", and "spoken" with       *)
(* speak_reply), on the event-loop thread.                                 *)

session == heap[obj[Loop]]

\* agent_memory[key] = value, and turns.append(TurnRecord(...)).
Remembering(x, id) == [sid |-> x.sid, turns |-> x.turns, memory |-> x.memory \cup {id}]

Extended(x, i) ==
    [sid |-> x.sid, memory |-> x.memory,
     turns |-> Append(x.turns, [index |-> i, id |-> turnNo, user |-> op[Loop] = "voice",
                                reply |-> op[Loop] # "text"])]

\* Mutant: turn_index without the + 1.
TurnIndex_NoPlusOne == Len(session.turns)

\* turn_index: no other thread changes session.turns, so it is the same wherever
\* the handler uses it.
TurnIndex == Len(session.turns) + 1

StartTurn(s, kind) ==
    /\ s \in known
    /\ turnNo < MaxTurns
    /\ turnNo' = turnNo + 1
    /\ Dispatch(Loop, kind, "lookup", s, NoObj)
    /\ UNCHANGED <<lock, heap, cache, dirs, json, audio, issued, known, acked, deleted, deletes, crashes>>

\* Blank text is refused with 400.
RefuseBlank ==
    /\ pc[Loop] = "found"
    /\ op[Loop] \in {"text", "spoken"}
    /\ Respond(Loop, "error")
    /\ UNCHANGED <<lock, heap, cache, dirs, json, audio, history>>

\* session_audio_dir makes the directory.
Prepare ==
    /\ pc[Loop] = "found"
    /\ op[Loop] \in TurnKinds
    /\ dirs' = dirs \cup {sid[Loop]}
    /\ Goto(Loop, IF op[Loop] = "voice" THEN "upload" ELSE "run")
    /\ Continue
    /\ UNCHANGED <<lock, heap, cache, json, audio, history>>

\* Writing an audio file of this turn; without a directory it raises.
WriteAudio(kind, p) ==
    \/ /\ sid[Loop] \in dirs
       /\ audio' = [audio EXCEPT ![sid[Loop]] = PutAudio(@, TurnIndex, kind, turnNo)]
       /\ Goto(Loop, p)
       /\ Continue
    \/ /\ sid[Loop] \notin dirs
       /\ Respond(Loop, "error")
       /\ UNCHANGED audio

\* copy2 of the upload, then prepare_wav_for_asr: mkdir and the conversion.  The
\* files turn_NNN_user.* of both count as one.
Upload ==
    /\ pc[Loop] = "upload"
    /\ WriteAudio("user", "convert")
    /\ UNCHANGED <<lock, heap, cache, dirs, json, history>>

\* The directory is made again before the conversion and before the synthesis.
MakeDir ==
    /\ pc[Loop] \in {"convert", "outdir"}
    /\ dirs' = dirs \cup {sid[Loop]}
    /\ Goto(Loop, IF pc[Loop] = "convert" THEN "transcode" ELSE "speak")
    /\ Continue
    /\ UNCHANGED <<lock, heap, cache, json, audio, history>>

Transcode ==
    /\ pc[Loop] = "transcode"
    /\ WriteAudio("user", "run")
    /\ UNCHANGED <<lock, heap, cache, dirs, json, history>>

\* The agent's remember tool writes into session.agent_memory itself.
Remember ==
    /\ pc[Loop] = "run"
    /\ turnNo \notin session.memory
    /\ heap' = [heap EXCEPT ![obj[Loop]] = Remembering(session, turnNo)]
    /\ Continue
    /\ UNCHANGED <<pc, request, lock, cache, dirs, json, audio, history>>

\* Mutant: the reply is never synthesised.
Generate_NoTTS ==
    /\ pc[Loop] = "run"
    /\ Goto(Loop, "append")
    /\ Continue
    /\ UNCHANGED <<lock, heap, cache, dirs, json, audio, history>>

Generate ==
    /\ pc[Loop] = "run"
    /\ Goto(Loop, IF op[Loop] = "text" THEN "append" ELSE "outdir")
    /\ Continue
    /\ UNCHANGED <<lock, heap, cache, dirs, json, audio, history>>

Speak ==
    /\ pc[Loop] = "speak"
    /\ WriteAudio("reply", "append")
    /\ UNCHANGED <<lock, heap, cache, dirs, json, history>>

\* The except clauses: decoding, ASR, LLM or TTS failed (400, 500 or 504).
PipelineFails ==
    /\ pc[Loop] \in {"transcode", "run", "speak"}
    /\ Respond(Loop, "error")
    /\ UNCHANGED <<lock, heap, cache, dirs, json, audio, history>>

\* Mutants: sessions.update is left out; the index counts requests.
AppendTurn_NoUpdate ==
    /\ pc[Loop] = "append"
    /\ heap' = [heap EXCEPT ![obj[Loop]] = Extended(session, TurnIndex)]
    /\ Goto(Loop, "saved")
    /\ Continue
    /\ UNCHANGED <<lock, cache, dirs, json, audio, history>>

AppendTurn_CountsRequests ==
    /\ pc[Loop] = "append"
    /\ heap' = [heap EXCEPT ![obj[Loop]] = Extended(session, turnNo)]
    /\ Goto(Loop, "acquire")
    /\ Continue
    /\ UNCHANGED <<lock, cache, dirs, json, audio, history>>

\* _save_turn_and_respond: session.turns.append, then sessions.update.
AppendTurn ==
    /\ pc[Loop] = "append"
    /\ heap' = [heap EXCEPT ![obj[Loop]] = Extended(session, TurnIndex)]
    /\ Goto(Loop, "acquire")
    /\ Continue
    /\ UNCHANGED <<lock, cache, dirs, json, audio, history>>

TurnDone ==
    /\ pc[Loop] = "saved"
    /\ acked' = acked \cup {[sid |-> sid[Loop], id |-> turnNo, fact |-> turnNo \in session.memory]}
    /\ Respond(Loop, "ok")
    /\ UNCHANGED <<lock, heap, cache, dirs, json, audio, issued, known, turnNo, deleted, deletes, crashes>>

-----------------------------------------------------------------------------
\* kill -9 of the server process, and its next start.
Crash ==
    /\ crashes < MaxCrashes
    /\ crashes' = crashes + 1
    /\ StoreCrash
    /\ Continue
    /\ UNCHANGED <<issued, known, turnNo, acked, deleted, deletes>>

TurnStep ==
    \/ RefuseBlank \/ Prepare \/ Upload \/ MakeDir \/ Transcode \/ Remember \/ Generate
    \/ Speak \/ PipelineFails \/ AppendTurn \/ TurnDone

WorkerStep(w) ==
    \/ IterDir(w) \/ ListNext(w) \/ ListDone(w) \/ ListGot(w)
    \/ GetDone(w) \/ AudioDone(w) \/ CreateDone(w) \/ DeleteDone(w)

Arrival ==
    \/ \E w \in Workers : StartList(w)
    \/ \E w \in Workers, s \in Sids :
          \/ StartCreate(w, s) \/ StartDelete(w, s)
          \/ StartGet(w, s, "get") \/ StartGet(w, s, "audio")
    \/ \E s \in Sids, kind \in TurnKinds : StartTurn(s, kind)

Next ==
    \/ Arrival
    \/ \E t \in Threads : Store(t) \/ NotFound(t) \/ Raised(t)
    \/ \E w \in Workers : WorkerStep(w)
    \/ TurnStep
    \/ Crash

Spec == Init /\ [][Next]_vars

\* A thread that can run does run.  A turn's call of the pipeline ends because
\* every remote call in it has a timeout; a worker only waits for the lock.
Fairness ==
    /\ \A t \in Threads : WF_vars(Store(t) \/ NotFound(t) \/ Raised(t))
    /\ \A w \in Workers : WF_vars(WorkerStep(w))
    /\ WF_vars(TurnStep)

FairSpec == Spec /\ Fairness

-----------------------------------------------------------------------------
(* Safety.                                                                 *)

\* _lock protects every write of session.json: a thread is inside _save if and
\* only if it holds the lock, so two saves never overlap.
SavesExclude ==
    \A t \in Threads : pc[t] \in LockedPCs <=> lock = t

\* Where a thread uses the session object it has got.
UsesObj == {"install", "found", "upload", "convert", "transcode", "run", "outdir", "speak",
            "append", "saved"} \cup SavePCs

\* Requests and directories belong to sessions that create has made.
SidsIssued ==
    /\ \A t \in Threads : pc[t] \notin {"idle", "iterdir", "next"} => sid[t] \in issued
    /\ \A t \in Threads : rest[t] \subseteq issued
    /\ dirs \subseteq issued

\* No reference dangles: the cache and every thread that works on a session
\* refer to an object of this process, made for that session.
RefsValid ==
    /\ \A s \in Sids : cache[s] # NoObj =>
          cache[s] \in DOMAIN heap /\ heap[cache[s]].sid = s
    /\ \A t \in Threads : pc[t] \in UsesObj =>
          obj[t] \in DOMAIN heap /\ heap[obj[t]].sid = sid[t]

\* write_text is not atomic.  As long as the process never died, a reader finds
\* a half-written session.json only while a save of that session is under way.
TornOnlyWhileWriting ==
    crashes = 0 =>
        \A s \in Sids : json[s].state = "torn" =>
            \E t \in Threads : pc[t] = "write" /\ sid[t] = s

\* Numbered 1, 2, ... in the order in which the turns were asked.
Ordered(turns) ==
    /\ \A i \in DOMAIN turns : turns[i].index = i /\ turns[i].id \in 1..turnNo
    /\ \A i, j \in DOMAIN turns : i < j => turns[i].id < turns[j].id

\* The turns of a session are in order, in memory and on disk: no race of loads,
\* saves, deletes and restarts makes _save_turn_and_respond duplicate, renumber
\* or reorder them.
HistoryOrdered ==
    /\ \A s \in Sids : Ordered(json[s].turns)
    /\ \A o \in DOMAIN heap : Ordered(heap[o].turns)

\* x, an object or a file, has the turn a and the fact remembered in it.
Keeps(x, a) ==
    /\ \E i \in DOMAIN x.turns : x.turns[i].id = a.id
    /\ a.fact => a.id \in x.memory

\* "Current session stays saved on the server" (app.js, createSession): a turn
\* answered with 200, and what the agent remembered in it, is in session.json
\* whenever that file can be read.
AckedTurnsSaved ==
    \A a \in acked :
        /\ json[a.sid].state # "missing"
        /\ json[a.sid].state = "whole" => Keeps(json[a.sid], a)

\* The same, and the object that the cache serves has the turn too.  It holds as
\* long as no session is deleted and no get races a turn after a restart.
AckedTurnsKept ==
    /\ AckedTurnsSaved
    /\ \A a \in acked : cache[a.sid] # NoObj => Keeps(heap[cache[a.sid]], a)

\* The audio URLs of a saved turn lead to the recording and the reply of that
\* turn, not to those of a failed or later turn that used the same turn_index.
AudioOfTurn ==
    \A s \in Sids : \A i \in DOMAIN json[s].turns :
        LET turn == json[s].turns[i]
        IN /\ turn.user  => [index |-> i, kind |-> "user", by |-> turn.id] \in audio[s]
           /\ turn.reply => [index |-> i, kind |-> "reply", by |-> turn.id] \in audio[s]

-----------------------------------------------------------------------------
(* Action properties and liveness.                                         *)

\* A thread past get for session s, so that it may still create files for it.
HoldingPCs == {"install", "found", "upload", "convert", "transcode", "run", "outdir", "speak",
               "append"} \cup SavePCs

\* Nothing is left of s, and no running request has got hold of it.
Gone(s) ==
    /\ s \in issued
    /\ cache[s] = NoObj /\ s \notin dirs /\ json[s].state = "missing" /\ audio[s] = {}
    /\ \A t \in Threads : sid[t] = s => pc[t] \notin HoldingPCs

\* delete is final once no request that found the session is under way: neither
\* a look-up, nor get_audio, nor a turn, nor a restart brings it back.
GoneForGood == [][\A s \in Sids : Gone(s) => Gone(s)']_vars

\* What the session API serves: the turns of the cached object.
ServedLog(s) ==
    LET turns == heap[cache[s]].turns
    IN IF cache[s] = NoObj THEN <<>> ELSE [i \in DOMAIN turns |-> turns[i].id]

Log == INSTANCE ConversationLog WITH open <- {s \in Sids : cache[s] # NoObj},
                                     log  <- [s \in Sids |-> ServedLog(s)],
                                     Ids  <- 1..MaxTurns

\* While no session is deleted and the process lives, the server implements the
\* append-only log of module ConversationLog: _save_turn_and_respond adds a turn
\* in one step, and no other step of any handler changes a conversation.
ImplementsLog == Log!LogSpec

\* Every request that a thread works on is answered (or dies with the process):
\* nobody waits for the lock for ever and no error path keeps it.
EveryRequestEnds == \A t \in Threads : pc[t] # "idle" ~> pc[t] = "idle"
=============================================================================
