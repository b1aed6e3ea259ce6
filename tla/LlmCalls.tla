------------------------------ MODULE LlmCalls ------------------------------
(***************************************************************************)
(* How turns get at a language model: LlmRegistry.resolve, which loads a   *)
(* local model on first use under the lock of its entry, the pipeline lock *)
(* of PipelineService.run_turn and run_text_turn, and the calls of the     *)
(* model under that lock.  A local model generates on a thread of its own, *)
(* which hands its text over through the queue of a TextIteratorStreamer;  *)
(* a remote one (RemoteChatLLM, OllamaLLM) is read from a socket with a    *)
(* timeout.                                                                *)
(*                                                                         *)
(* The turn handlers of main.py block the event loop, which by itself      *)
(* keeps turns apart.  The locks are checked for what they promise without *)
(* it: any number of threads resolves and runs turns.  The resolve and the *)
(* preloads of PipelineService.load are the first of these.                *)
(***************************************************************************)
EXTENDS Naturals, Sequences

CONSTANTS
    Turns,      \* request threads
    Local,      \* ids of models of HFCausalLM
    Remote,     \* ids of remote models
    Nobody,     \* holder of a lock that is free
    MaxPieces,  \* bound on the pieces of one generation
    MaxCalls    \* bound on the calls of one turn (one, or several of the agent)

ASSUME LlmAssumption ==
    /\ Nobody \notin Turns
    /\ Local \cap Remote = {}
    /\ MaxPieces \in Nat /\ MaxCalls \in Nat \ {0}

Models == Local \cup Remote
End    == 0                  \* the end mark of the streamer's queue
Pieces == Seq(0..MaxPieces)

VARIABLES
    pc,         \* where each turn is
    model,      \* the entry it resolved
    holder,     \* of the lock of each entry
    loaded,     \* entries whose _llm is set
    loads,      \* history: how often each entry has been loaded
    pipe,       \* holder of PipelineService._lock
    gen,        \* generation threads: "none", "running", "ending", "raised"
    made,       \* pieces the thread of a turn has made in this call
    queue,      \* queue of its streamer
    got,        \* pieces the turn has taken in this call
    calls       \* calls of the turn so far

lockVars == <<holder, loaded, loads, pipe>>
callVars == <<gen, made, queue, got, calls>>
vars == <<pc, model, lockVars, callVars>>

Labels == {"idle", "entry", "check", "load", "pipe", "call", "stream", "join", "socket"}

TypeOK ==
    /\ pc \in [Turns -> Labels]
    /\ model \in [Turns -> Models]
    /\ holder \in [Models -> Turns \cup {Nobody}]
    /\ loaded \in SUBSET Models
    /\ loads \in [Models -> Nat]
    /\ pipe \in Turns \cup {Nobody}
    /\ gen \in [Turns -> {"none", "running", "ending", "raised"}]
    /\ made \in [Turns -> 0..MaxPieces]
    /\ queue \in [Turns -> Pieces]
    /\ got \in [Turns -> Pieces]
    /\ calls \in [Turns -> 0..MaxCalls]

Init ==
    /\ pc = [t \in Turns |-> "idle"]
    /\ model \in [Turns -> Models]
    /\ holder = [m \in Models |-> Nobody]
    /\ loaded = {}
    /\ loads = [m \in Models |-> 0]
    /\ pipe = Nobody
    /\ gen = [t \in Turns |-> "none"]
    /\ made = [t \in Turns |-> 0]
    /\ queue = [t \in Turns |-> <<>>]
    /\ got = [t \in Turns |-> <<>>]
    /\ calls = [t \in Turns |-> 0]

Goto(t, label) == pc' = [pc EXCEPT ![t] = label]

-----------------------------------------------------------------------------
(* LlmRegistry.resolve.                                                    *)

\* A turn asks for a registered model; an unknown id raises before any lock.
Ask(t, m) ==
    /\ pc[t] = "idle"
    /\ model' = [model EXCEPT ![t] = m]
    /\ calls' = [calls EXCEPT ![t] = 0]
    /\ Goto(t, "entry")
    /\ UNCHANGED <<lockVars, gen, made, queue, got>>

\* Mutant: resolve without the lock of the entry.
LockEntry_NoLock(t) ==
    /\ pc[t] = "entry"
    /\ holder' = [holder EXCEPT ![model[t]] = t]
    /\ Goto(t, "check")
    /\ UNCHANGED <<model, loaded, loads, pipe, callVars>>

LockEntry(t) ==
    /\ pc[t] = "entry"
    /\ holder[model[t]] = Nobody
    /\ holder' = [holder EXCEPT ![model[t]] = t]
    /\ Goto(t, "check")
    /\ UNCHANGED <<model, loaded, loads, pipe, callVars>>

Unlock(t) == holder' = [holder EXCEPT ![model[t]] = Nobody]

Loaded(t) ==
    /\ pc[t] = "check" /\ model[t] \in loaded
    /\ Unlock(t)
    /\ Goto(t, "pipe")
    /\ UNCHANGED <<model, loaded, loads, pipe, callVars>>

NotLoaded(t) ==
    /\ pc[t] = "check" /\ model[t] \notin loaded
    /\ Goto(t, "load")
    /\ UNCHANGED <<model, lockVars, callVars>>

\* make_llm returns.
Load(t) ==
    /\ pc[t] = "load"
    /\ loaded' = loaded \cup {model[t]}
    /\ loads' = [loads EXCEPT ![model[t]] = @ + 1]
    /\ Unlock(t)
    /\ Goto(t, "pipe")
    /\ UNCHANGED <<model, pipe, callVars>>

\* make_llm raises: the turn fails, the entry stays empty and is free again.
LoadFails(t) ==
    /\ pc[t] = "load"
    /\ Unlock(t)
    /\ Goto(t, "idle")
    /\ UNCHANGED <<model, loaded, loads, pipe, callVars>>

-----------------------------------------------------------------------------
(* Calls under the pipeline lock.                                          *)

LockPipe(t) ==
    /\ pc[t] = "pipe"
    /\ pipe = Nobody
    /\ pipe' = t
    /\ Goto(t, "call")
    /\ UNCHANGED <<model, holder, loaded, loads, callVars>>

\* Mutant: one streamer, and one list of pieces, for all calls.
Call_OneStreamer(t) ==
    /\ pc[t] = "call" /\ calls[t] < MaxCalls
    /\ calls' = [calls EXCEPT ![t] = @ + 1]
    /\ made' = [made EXCEPT ![t] = 0]
    /\ \/ /\ model[t] \in Local
          /\ gen' = [gen EXCEPT ![t] = "running"]
          /\ Goto(t, "stream")
       \/ /\ model[t] \in Remote
          /\ Goto(t, "socket")
          /\ UNCHANGED gen
    /\ UNCHANGED <<model, lockVars, queue, got>>

\* iter_chat_messages, up to its first wait.
Call(t) ==
    /\ pc[t] = "call" /\ calls[t] < MaxCalls
    /\ calls' = [calls EXCEPT ![t] = @ + 1]
    /\ made' = [made EXCEPT ![t] = 0]
    /\ queue' = [queue EXCEPT ![t] = <<>>]
    /\ got' = [got EXCEPT ![t] = <<>>]
    /\ \/ /\ model[t] \in Local
          /\ gen' = [gen EXCEPT ![t] = "running"]
          /\ Goto(t, "stream")
       \/ /\ model[t] \in Remote
          /\ Goto(t, "socket")
          /\ UNCHANGED gen
    /\ UNCHANGED <<model, lockVars>>

\* The turn has made its calls, or an exception ends it.
Leave(t) ==
    /\ pipe' = Nobody
    /\ Goto(t, "idle")
    /\ UNCHANGED <<model, holder, loaded, loads>>

Finish(t) ==
    /\ pc[t] = "call" /\ calls[t] > 0
    /\ Leave(t)
    /\ UNCHANGED callVars

\* Mutant: one piece more than max_new_tokens.
Generate_OneMore(t) ==
    /\ gen[t] = "running" /\ made[t] <= MaxPieces
    /\ made' = [made EXCEPT ![t] = @ + 1]
    /\ queue' = [queue EXCEPT ![t] = Append(@, made[t] + 1)]
    /\ UNCHANGED <<pc, model, lockVars, gen, got, calls>>

\* generate hands a piece of text to the streamer ...
Generate(t) ==
    /\ gen[t] = "running" /\ made[t] < MaxPieces
    /\ made' = [made EXCEPT ![t] = @ + 1]
    /\ queue' = [queue EXCEPT ![t] = Append(@, made[t] + 1)]
    /\ UNCHANGED <<pc, model, lockVars, gen, got, calls>>

\* ... ends the stream ...
EndStream(t) ==
    /\ gen[t] = "running"
    /\ queue' = [queue EXCEPT ![t] = Append(@, End)]
    /\ gen' = [gen EXCEPT ![t] = "ending"]
    /\ UNCHANGED <<pc, model, lockVars, made, got, calls>>

\* ... and returns.
ThreadExits(t) ==
    /\ gen[t] = "ending"
    /\ gen' = [gen EXCEPT ![t] = "none"]
    /\ UNCHANGED <<pc, model, lockVars, made, queue, got, calls>>

\* generate raises: its thread is gone and nobody ends the stream.
GenerateRaises(t) ==
    /\ gen[t] = "running"
    /\ gen' = [gen EXCEPT ![t] = "raised"]
    /\ UNCHANGED <<pc, model, lockVars, made, queue, got, calls>>

\* for text in streamer: blocks on the queue, which has no timeout.
Take(t) ==
    /\ pc[t] = "stream" /\ queue[t] # <<>>
    /\ queue' = [queue EXCEPT ![t] = Tail(@)]
    /\ \/ /\ Head(queue[t]) # End
          /\ got' = [got EXCEPT ![t] = Append(@, Head(queue[t]))]
          /\ UNCHANGED pc
       \/ /\ Head(queue[t]) = End
          /\ Goto(t, "join")
          /\ UNCHANGED got
    /\ UNCHANGED <<model, lockVars, gen, made, calls>>

\* Mutant: no thread.join().
Join_NoJoin(t) ==
    /\ pc[t] = "join"
    /\ Goto(t, "call")
    /\ UNCHANGED <<model, lockVars, callVars>>

Join(t) ==
    /\ pc[t] = "join" /\ gen[t] = "none"
    /\ Goto(t, "call")
    /\ UNCHANGED <<model, lockVars, callVars>>

\* The remote server answers, or closes the connection early, which reads as
\* the end of the answer too.
Answered(t) ==
    /\ pc[t] = "socket"
    /\ Goto(t, "call")
    /\ UNCHANGED <<model, lockVars, callVars>>

\* Mutant: acquire() and release() without "with" or finally.
RemoteFails_NoWith(t) ==
    /\ pc[t] = "socket"
    /\ Goto(t, "idle")
    /\ UNCHANGED <<model, lockVars, callVars>>

\* Timeout, HTTP error, bad JSON: RuntimeError.
RemoteFails(t) ==
    /\ pc[t] = "socket"
    /\ Leave(t)
    /\ UNCHANGED callVars

-----------------------------------------------------------------------------

\* What a started turn and its threads do next; loads are apart.
Resolve(t) == LockEntry(t) \/ Loaded(t) \/ NotLoaded(t)
Stream(t)  == Generate(t) \/ EndStream(t) \/ ThreadExits(t)
Talk(t)    == Call(t) \/ Finish(t) \/ Take(t) \/ Join(t) \/ Answered(t) \/ RemoteFails(t)

Next ==
    \E t \in Turns :
        \/ \E m \in Models : Ask(t, m)
        \/ Resolve(t) \/ Load(t) \/ LoadFails(t)
        \/ LockPipe(t) \/ Talk(t)
        \/ Stream(t) \/ GenerateRaises(t)

Spec == Init /\ [][Next]_vars

\* Threads run, locks are fair enough, sockets time out, a generation ends or
\* raises (MaxPieces is max_new_tokens).  A load is owed nothing: a download
\* may hang for ever.
FairSpec ==
    /\ Spec
    /\ \A t \in Turns :
        /\ WF_vars(Loaded(t)) /\ WF_vars(NotLoaded(t)) /\ SF_vars(LockEntry(t))
        /\ SF_vars(LockPipe(t))
        /\ WF_vars(Talk(t)) /\ WF_vars(Stream(t) \/ GenerateRaises(t))

-----------------------------------------------------------------------------
(* Properties.                                                             *)

\* No entry is loaded twice, whoever asks for it at once and however often a
\* load failed before: two copies would not fit the machine.
LoadedOnce ==
    \A m \in Models : loads[m] <= 1 /\ (m \in loaded <=> loads[m] = 1)

\* A generation thread works only for the turn that holds the pipeline lock:
\* at most one model computes, and no thread outlives its turn.
OneGeneration ==
    \A t \in Turns : gen[t] \in {"running", "ending"} => pipe = t

\* When a local call returns, its reply is what generate made, in order.
ReplyWhole ==
    \A t \in Turns :
        pc[t] = "join" => got[t] = [i \in 1..made[t] |-> i]

\* A turn whose model is loaded ends, whatever other turns load and however
\* long, unless a generate has raised: then its turn waits on the streamer
\* for ever and keeps the pipeline lock, and every later turn waits with it.
TurnsEnd ==
    \A t \in Turns :
        pc[t] = "pipe" ~> (pc[t] = "idle" \/ \E u \in Turns : gen[u] = "raised")
=============================================================================
