# A TLA+ model of the voice chatbot and the trace generator

This directory models the parts of the repository that carry its own logic: the
multi-turn voice chatbot of `speech_ai_exp` (the FastAPI server, its session store, the
staged ASR - LLM - TTS pipeline, the agent's tool loop, the language models' locks and
threads, the knowledge base and its offline scripts, the browser client) and the trace
generator of `iminn-tools`.  TLC checks small instances; TLAPS proves the safety
properties that matter most for every value of the constants.

    tlc -config MCSteady.cfg MCVoiceServer      # one run; see the table below
    tlapm VoiceServer_proofs.tla                # one proof module

## 1. Inventory

| component | state | operations | interaction |
|---|---|---|---|
| session store, `server/app/session_store.py` | `_cache` (id -> object), `_lock`, a directory per session with `session.json` and audio files | `get`, `create`, `update`, `delete`, `list_sessions` | called by every handler, from several threads |
| HTTP handlers, `server/app/main.py` | none of their own; they hold `Session` objects across calls | sessions: create, list, get, delete; turns by voice or text; audio files | plain `def` handlers run on pool threads, the two turn handlers run on the event loop and block it |
| upload conversion, `server/app/audio_util.py` | the session's audio files | copy or ffmpeg | inside a voice turn |
| pipeline service, `server/app/pipeline_service.py` | `_lock`, the loaded models, one `AgentService` | `load`, `run_turn`, `run_text_turn` | serialises turns |
| LLM registry, `server/app/llm_registry.py` | loaded backends, a lock per entry | `resolve`, `preload` | called by turns before the pipeline's lock |
| turn pipeline, `project/src/staged_voice/pipeline.py` | one turn | ASR, agent or plain LLM call, TTS | calls the agent through a closure over `session.agent_memory` |
| agent loop, `server/app/agent/service.py` | messages, tool calls of the turn | `run` | calls the model up to `max_tool_steps + 1` times |
| tool registry, `server/app/agent/tools.py` | the bound session memory (one registry for all sessions) | `bind_session_memory`, `run` | `remember` writes into the session object itself |
| knowledge base, `agent/rag.py`, `db/hybrid_rag.py`, `db/vector_store.py`, two scripts | JSON index, vector collection | build, freshness test, load, search, merge | read by the agent |
| commerce database, `db/*.py` | SQL tables | look-ups, seeding | read by tools |
| LLM, ASR and TTS backends, `staged_voice/backends` | model weights, a streaming thread (local LLM) | one call each | environment of a turn |
| browser client, `server/static/app.js` | session id, recorder, voice-activity state | record, send, load, switch | HTTP |
| trace generator, `iminn-tools/src/iminnt/trace_gen.py` | `call_stack`, `call_starts`, `events`, the previous instruction | parse, classify, `process_instr`, `run_trace`, filter, write | reads the log of a simulated machine |
| the rest of iminn-tools, `iminn-tools/src/iminnt` | checkouts, build trees, remote hosts | init, sync, build, run | command line |
| omni_voice, vLLM and SGLang explorations | - | wrappers and benchmark scripts | third-party engines |

What is hard here: a `delete` or a load from disk racing a turn; a file that is
truncated and then written; a process that is killed in the middle (the
documentation tells the operator to `kill -9` a stuck server); a turn that fails
half-way, after the agent changed the session; one tool registry for all
sessions; a language model whose output may be anything; a generation thread that
dies; callbacks, timers and clicks that share one record in the browser; scripts that
write what a starting server reads; a profile that is rebuilt from a log by guessing
which jumps are calls.  The repository has no tests of these parts.  `PROJECT.json`, "hazards", lists each hazard at its line
with the properties that would catch it.

What makes a component correct:

- store: saves exclude each other, no dangling or foreign reference, an answered
  turn is kept, history is never reordered, a completed delete is final;
- handlers: each saved turn has its own audio, every request is answered;
- agent: facts stay with their session, there is always a reply to speak, tool
  results are used, the loop ends;
- language models: each is loaded once, one generates at a time, replies are whole,
  turns end;
- knowledge: what is served is current, a finished rebuild is whole (but for what it
  could not delete), a server starts over whatever earlier processes left;
- browser: the page never locks itself up, the microphone is off when listening is off,
  a recording is one utterance, turns do not overlap, listening resumes;
- trace generator: the profile is right or there is none.

## 2. Modules

| module | models |
|---|---|
| `SessionStore` | `session_store.py`: one action per critical section or system call of `get`, `_save`, `delete` |
| `VoiceServer` | `main.py` on top of it: threads, requests, turns, the death of the process; the properties |
| `ConversationLog` | abstract specification: append-only conversations |
| `MCVoiceServer` | instances of `VoiceServer` for TLC |
| `VoiceServer_proofs` | inductive invariant, types, references |
| `VoiceServerSafety_proofs` | mutual exclusion, torn files, finality of delete, order of turns |
| `VoiceServerLog_proofs` | answered turns, audio, the refinement of `ConversationLog` |
| `AgentTurn` | `pipeline.run_turn`, `AgentService.run`, `ToolRegistry` |
| `MCAgentTurn` | instances of `AgentTurn` |
| `AgentTurn_proofs` | proofs about the agent loop |
| `LlmCalls`, `MCLlmCalls` | `llm_registry.py`, the pipeline lock, the local and remote backends |
| `LlmCalls_proofs` | single loading, single generation, whole replies |
| `KnowledgeIndex`, `MCKnowledgeIndex` | `rag.py`, `seed_data.py`, `vector_store.py`, the two scripts, the start of the server |
| `KnowledgeIndex_proofs` | types, whole collections, current documents |
| `VoiceClient`, `MCVoiceClient` | `static/app.js` |
| `VoiceClient_proofs` | usability of the page, the microphone, whole utterances, one turn at a time |
| `TraceGen`, `MCTraceGen` | `trace_gen.py`, and the machine whose log it reads |
| `TraceGen_proofs` | the profile is right for every log that can be read |

The modules meet in their assumptions.  `VoiceServer` takes a turn's work as `Generate`;
`AgentTurn` opens it up and takes a call of the model as one step; `LlmCalls` opens that
step up.  `VoiceClient` takes an answer of the server as given, which is what
`EveryRequestEnds` says; its sessions are `unborn`, `live` or `gone` as in `VoiceServer`.
`KnowledgeIndex` is what happens before requests are served.

### SessionStore and VoiceServer

A *thread* is the event loop (`Loop`) or a pool thread.  `pc[t]` names the next
stretch of code that no other thread can see half-done: a critical section of
`_lock` without I/O, or one system call.  `op`, `sid`, `obj`, `todo`, `rest` are
the local variables of its request.

- `heap` is the sequence of `Session` objects made since the start; `cache` maps a
  session to a position of it.  A reload makes a new object, so two objects for
  one session exist exactly when the code makes two.
- `json[s]` is `missing`, `torn` (truncated, not yet written) or `whole`.
  `Mkdir`, `OpenJson` and `WriteJson` are `_save`; `OpenJson` fails when a delete
  removed the directory, and a file unlinked while it is open takes the text with
  it.
- `Pop`, `Glob`, `CheckFile`, `Unlink`, `Rmdir` are `delete`, in the order of the
  code: the cache entry, the listing in reverse name order (so `session.json` goes
  last), one `is_file` and one `unlink` per name, `rmdir`.
- `Lookup`, `IsFile`, `ReadJson`, `Install` are `get`: the load is outside the lock.
- A turn is `StartTurn`, `get`, `Prepare` (make the directory), `Upload`, `MakeDir`,
  `Transcode` (voice), any `Remember`, `Generate`, `MakeDir`, `Speak`, `AppendTurn`,
  the save, `TurnDone`; or `RefuseBlank`; or `PipelineFails` at any stage that can
  raise.  While it runs, `Dispatch` is disabled: the handlers are `async` without an
  `await`, so the event loop accepts nothing.
- `Crash` loses `heap`, `cache`, `lock` and all requests and keeps the disk.

Abstractions.  A turn's content is its number.  The uploaded and the converted
recording count as one file `turn_NNN_user`.  `exists` and `glob` of a delete are one
step, as are consecutive `mkdir`s.  Partial writes are one torn state.  `updated_at`
and the order of the listing are left out.  Status codes are `ok`, `notfound` and
`error`.  A request names a session that some client was told of.  The 503 of a
pipeline that is not ready cannot occur while requests are served, except when
loading failed, and then turns change nothing.

### AgentTurn

Turns follow one another, as the pipeline's lock demands.  The model's output is a
sequence of protocol items (`final`, `words`, `bad`, `remember`, `lookup`), and each
call returns any of them or raises.  The sentence that `run` makes up when the steps run
out is an item of its own, `apology`, which no model writes.  `Final`, `Neither`, `RunTool` are the three exits
of the loop's body, `GiveUp` the end of the loop, `Plain` the path without tools.
`asked` is a history variable: what the model asked to remember, and in whose turn.
All tools that only read, unknown names and bad arguments are the item `lookup`:
`ToolRegistry.run` turns every exception into a text.  The automatic web search is
`auto`.  A call that only the fallback expression `_TOOL_RE` finds is the same item as
one on its own line.

### LlmCalls

`Ask`, `LockEntry`, `Loaded` or `NotLoaded`, `Load` or `LoadFails` are `resolve`; `LockPipe`,
`Call`, ..., `Finish` are a turn under `PipelineService._lock`.  A local call starts a
thread (`gen`) that puts pieces and an end mark (`Generate`, `EndStream`) into the queue
of the streamer, and then returns (`ThreadExits`); `Take` and `Join` are the loop and the
join of `iter_chat_messages`.  `GenerateRaises` is the case nobody handles.  A remote call
is one read that is answered or fails.  Text is the number of its piece.  The turn
handlers block the event loop, which alone would keep turns apart; the module does not
use that, so it shows what the locks promise by themselves: in this server `resolve` is
called by the start and by the turn handlers only, never by two threads at once.

### KnowledgeIndex

Three processes, `build`, `init` and `server`, each with a `pc`, the files it has listed
(`todo`), the texts it has read (`got`) and the fingerprints it has taken (`prints`).  One
action is one system call on a shared file, one transaction step or one batch; at most
`MaxProcs` of the processes are at work at a time, beside a server that serves.  A
version stands for a file's time, size and text.  The index is `missing`, `torn`, `cut`
(torn inside of a UTF-8 character), `other` (written with another `--chunk-chars` or by
another version of the script, so never fresh) or `whole`.  The SQL tables are one unit: two seeds
that overlap clash on primary keys at the second commit.  Documents that come from the
tables are left out of the collection, empty documents too.  `--reset-sql`, `--sql-only`
and `--force-vector` are choices, and so is whether the collection can be opened.
`Rebuild` has both outcomes of `delete_collection`, whose failure the code passes over:
`leftover` is a history variable with what stayed then.  `RebuildFails` is an exception of
Chroma in the middle.  Of Chroma the model takes three things from outside: its
persistence keeps what `add` returned for, `get_or_create_collection` finds what is there,
and `add` passes over ids that the collection has.  A server does without a collection
that it cannot open.

### VoiceClient

JavaScript runs one task at a time, so an action is one task: from a click, a timer
tick, an event of a recorder or an answer, to the next `await` of something outside the
page.  `Calls` are invocations of async functions that overlap; `pc[c]` is what one
awaits, `sid`, `mic` and `blob` are its locals.  `enabled`, `phase`, `stream`, `recorder`,
`chunks`, `finishing` are `autoVoice`; `busy`, `recordOff`, `stopOff`, `sendOff` the busy sign
and the buttons' `disabled`.  Recorders follow the MediaRecorder specification: `stop` is
answered by a last piece of data and a stop event, later and in one task (`taping`,
`stopping`, `hooked`).  A recording is the set of its pieces, of which only the first has
the header of the container.  `Acts` says what user and environment do in an instance:
`again` is a second click on Start while the first is under way, `deaf` a start that fails,
`lost` an error status taken for "not found", `gone` a session deleted by somebody else.
`orphaned` is a history variable: an utterance found no session open and had to create one
(`StoppedCreate`), and listening was not started since with nothing under way.  At boot
`checkHealth` and `loadLlmModels` may fetch and show the session once more, which `shown`
leaves out.
Levels and times of the voice-activity detection are choices.

### TraceGen

The machine has activations (`frames`) and retires one instruction per step; in the same
step `run_trace` reads the line.  An instruction is a mnemonic and operands as written;
`FromStr` is `from_str` with its expansions, and `Category` the order in which
`process_instr` asks `is_call`, `is_tail_call` and `is_return`.  `profile` is a history
variable: the activations that have really ended, with first and last line and callers.
The log may begin anywhere in a call chain without the profiled function on it, as the
logs of simulation slices do.  Lines that do not parse are skipped by `run_trace` and left
out.
`Readable` says of the constants, the binary and the ways its jumps are written, that
TraceGen can read them: each line is classified as what it is, or refused, or betrayed by
the next line, and the profiled function is neither recursive nor part of a tail call.
`MCTraceGen` has TLC evaluate it for the instance of the run `trace`.

## 3. Runs

| run | question | bounds |
|---|---|---|
| `steady` | do create, get, list, audio and turns of two sessions, interleaved, lose a turn or mix up audio? do saves exclude each other? do the handlers implement `ConversationLog`? | 2 sessions, 2 pool threads, 2 turns |
| `restart` | is every answered turn in every readable file, with its own audio and in order, wherever the process dies? | 3 turns, 2 crashes |
| `answered` | two deletes, a turn and readers on one session: is every request answered, does any reference dangle, are torn files only ever files being written, is a completed delete final? | 1 session, 2 pool threads, 1 turn, 2 deletes, no crash |
| `agent` | do facts stay with their session, is there always a reply, are tool results used, does every turn end? | 2 sessions, 2 keys, outputs of up to 3 items, 2 tool steps, any number of turns |
| `llm` | is a model ever loaded twice, do two generate at once, is a reply whole, does a turn end? | 2 threads, 2 local models, 1 remote, 2 pieces, 2 calls, any number of turns |
| `knowledge` | is what is served current, is a finished rebuild whole, does a started server serve? | 2 documents, batches of 1, 1 edit or kill, 2 runs of init, 2 processes at work; any number of builds and starts |
| `client` | is the page usable whenever nothing is under way? | all of `Acts`, 2 overlapping calls, 2 streams, 2 recorders, 1 session |
| `listening` | is the microphone accounted for, is a recording one utterance, do turns overlap, does listening resume? | a patient user, 2 sessions, 2 overlapping calls, deleted sessions, failing requests, errors taken for "not found" |
| `trace` | are the events the activations that ended? | 7 functions, 12 lines, depth 4, whole log or one function |

Why the bounds are enough: a race on a session needs the turn and one or two
others (a get and a delete), and two pool threads next to the event loop give that;
two turns give a turn that starts from a stale object; three turns and two crashes
give a turn lost, repeated and restarted; three items give an output with text
before and after the marker, and two markers; two pieces tell order from content; two
documents, one event and two runs of init give an edit between read and stat, a kill in a
write, a rebuild that is killed or fails after its first batch, and a second one over what
it left, or over what could not be deleted; two overlapping calls, streams and recorders are what
one page's single variables can be confused by; twelve lines are enough for two
activations of the profiled function, or for a call through a stub, a tail call and two
returns.  `restart`, `llm` and `trace` have no deadlock check: bounded clients run out of
requests, a generation that raised stops everybody, and a log ends.  No run has deletes
beside deaths of the process: `ReferencesValid`, `DeleteIsFinal`, `TurnsInOrder` and
`MutualExclusion` are proved for any number of both.  The proofs remove the bounds for
the properties of section 5.

`listening` and `trace` restrict the environment.  A patient user does not click Start again
while a start is under way, stays on the Voice tab, uploads nothing and begins no new
conversation, and a start that got the microphone succeeds.  Conversations are switched and
deleted, requests fail, and a failed GET is taken for "not found".  The binary of `trace` writes no indirect jump as `jr` with a register other than `a0` to `a7`
(that is the run `indirect_jumps`), compiles no jump table to `jalr zero`, has no call from
one function without a symbol to another, no indirect tail call of a function to itself,
reaches its thunks and empty functions by calls, and does not call the profiled function
recursively or let it end in a tail call.  Outside of these limits the properties fail, as
section "Known exceptions" says.

### Findings

These runs end in a violation of what a document or the user interface says.

| run | what happens |
|---|---|
| `stale_reload` | after a restart, a get installs the object it loaded before a turn was saved; the next turn overwrites the answered one |
| `tool_limit` | a turn runs `max_tool_steps + 1` tools where the configuration table says "Max tool rounds per turn"; the model never sees the result of the last |
| `indirect_jumps` | `jr rs` is expanded twice, to `jalr x1, x0, rs`: an indirect tail call counts as a call, and the profile is wrong without an error |

### Known exceptions

Each of these is behaviour of the code that the models have and a property excludes or
stops short of.

- A turn or a get that overlaps a DELETE caches the session again between delete's pop
  and its unlink, and a turn's save writes it again: it is served and listed after the
  DELETE was answered.  `GoneForGood` starts where no such request is in flight.
- A get or a listing that reads a `session.json` between its truncation and its write
  answers 500 for a session that is fine; `TornOnlyWhileWriting` says that this passes.
- A death between truncation and write of one `session.json` makes the listing of all
  sessions fail from then on, because `list_sessions` does not catch the error.
- A turn that fails after `remember` leaves the fact in memory only, although
  `docs/PLAN_AGENTIC_VOICE.md` says that facts are stored in `session.json`.
- The result of the tool of the last step is never read; the apology replaces the reply
  (the exception of `ResultsSeen`).
- The output `FINAL:` alone passes the sanitiser and is spoken as it is.
- A `generate` that raises leaves its turn waiting on the streamer with the pipeline lock
  held; every later turn waits as well (the exception of `TurnsEnd`).
- An index cut inside a character raises `UnicodeDecodeError`, which `KnowledgeBase.load`
  does not catch: the server does not start until the index is built again, although
  `docs/SERVER_AND_PROJECT1_ARCHITECTURE.md` says that it "otherwise [...] re-chunks from
  disk" (the exception of `StartServesUncut`).
- A document edited between its read and its stat of one build is served in its old
  version and counts as fresh (`Raced`, the exception of `ServedIsCurrent`).
- An edit or a run of init during the start of a server may end it with an exception (a
  file removed after the listing, tables dropped or seeded twice): `StartServesUncut`
  speaks of starts without.
- A failure of `delete_collection` is passed over, and `rebuild` then adds to what is
  there: outdated and removed documents stay, although its docstring says "Replace
  collection contents" (`leftover`, the exception of `VectorWhole`).  A collection that an
  interrupted rebuild left partial counts as complete for `init_databases` without
  `--force-vector`.
- An error status of GET session, be it 500, is taken for "Session not found": `loadSession`
  clears `sessionId` while listening goes on.  The next utterance then creates a session,
  `createSession` switches listening off, and Start is enabled before the turn is sent: a
  second turn can overlap it, and its `finally` arms a recorder that is recording
  (`orphaned`, the exception of `OneTurnAtATime` and `WholeUtterance`).  A text turn or an
  upload without a session leaves Send and Start enabled in the same way.
- A second click on Start while the first is under way, or a start that fails after the
  microphone was opened, leaves a stream on that nobody stops.  An upload during a turn
  makes two turns overlap.  Switching the tab or uploading between a recorder's `stop`
  and its event sends what was recorded up to then, after listening was switched off.
- Answers of `loadSession` are not ordered: the log may show one conversation while the
  label and the next turn are of another.
- Trace generator: without `fn_target` a log whose first line is neither a call, a tail
  call nor a return raises at once.  Direct recursion raises.  Calls among functions
  without a symbol, jump tables as `jalr zero`, and a profiled function that is entered
  recursively give a wrong profile without an error.  A slice that begins inside of the
  profiled function gives an activation whose start is the first line of that function in
  the slice.

The passing runs show the other side: `AckedTurnsKept` holds without deletes and
without a get that races a turn after a restart (in the life of one process an
object leaves the cache only through delete, so a reload never races anything), and
`GoneForGood` holds once no request that found the session is in flight.

## 4. Fairness

`EveryRequestEnds` and `TurnEnds` assume weak fairness of each thread: the operating
system schedules it, and `_lock` is held only across a bounded number of steps.  They
also assume that the model's call ends.  The remote and Ollama backends have HTTP
timeouts.  The local backend justifies it only as long as `generate` does not raise on its
thread: that is `TurnsEnd`.  No fairness is assumed for arriving requests, for crashes or
for a particular output of the model.

`TurnsEnd` assumes that threads run, that a lock which is free again and again is got
(strong fairness of `LockEntry` and `LockPipe`; Python's locks queue their waiters on the
platforms in question), that a socket with a timeout is answered or fails, and that a
generation ends or raises, being bounded by `max_new_tokens`.  A load is owed nothing: it
may be a download.  `StartServesUncut` assumes only that a started server runs; nobody has
to start one, to build or to initialise.  `ListeningResumes` assumes that requests are
answered (`EveryRequestEnds`) and that the browser delivers the events of a stopped
recorder; the user owes nothing, not even the permission to use the microphone.

## 5. Proofs

All theorems hold for every set of sessions, threads, calls, documents or functions and
every bound (so for any number of turns, deletes and crashes), from `StoreAssumption`,
`ServerAssumption`, `AgentAssumption`, `LlmAssumption`, `KnowledgeAssumption`,
`ClientAssumption` and `TraceAssumption` only: the special values are not sessions, threads
or keys, the bounds are natural numbers, the tables have the right domains.  Where a
property holds in some circumstances only, the theorem has them as a hypothesis on the
constants, the weakest one for which the argument works: `Undisturbed`, `Lasting`,
`Patience`, `Readable`.  Each is satisfied by the run that checks the property.  Every
invariant below was checked with TLC before it was proved.

`VoiceServer_proofs`.  The inductive invariant is

    IInv == TypeOK /\ RefsValid /\ SidsIssued

`RefsValid` is not inductive alone: `Install` and `Acquire` copy `obj[t]` into the cache
at `sid[t]`, which needs that the thread's object is valid and belongs to a session;
`SidsIssued` says that every thread past its dispatch has an issued session, so that
`cache[sid[t]]` is defined.  Theorems: `TypeCorrect`, `ReferencesValid`.

`VoiceServerSafety_proofs`.  `MutualExclusion` (`SavesExclude` is inductive relative to
types), `TornFilesExplained` (with mutual exclusion: only the holder of the lock can
be between truncation and write), `DeleteIsFinal` (an action property: each step that
could make something of a session needs a thread that `Gone` excludes), `TurnsInOrder`
(`HistoryOrdered` needs that a turn which has not been appended is younger than every
turn in memory and on disk, and that only the event loop appends).

`VoiceServerLog_proofs`.  `Undisturbed` is: no deletes, and no deaths of the process or no
requests other than creations and turns (a get that races a turn after a restart is the
finding of `stale_reload`).  Three invariants, each proved from the ones before.  `RInv` says
where a thread can be: only the event loop loads from disk, and only after a restart; the
object a turn works on is the cached one; a session that is being created is nobody
else's.  `KeptInv` adds to `AckedTurnsKept` what carries an answered turn through a save and
a load: the object that is being saved has the turn, an object just loaded has
everything answered before, and a save replaces a file that exists.  `SoundInv` does so for
`AudioOfTurn`: the files of the turns in every file and every cached object are theirs, and a
cached object has at least as many turns as its file, so the index of the next turn is no
saved turn's.  Theorems: `AnsweredTurnsKept`, `AudioBelongsToTurn`; and `ServesTheLog`, that
`VoiceServer` implements `ConversationLog` when `Lasting` (no deletes, no deaths): a
conversation is open when its session is cached and its log is what the cached object
serves; the save of a creation opens one,
`append` extends one, every other step leaves all of them as they are.

`AgentTurn_proofs`.  The invariant `AInv` adds `LoopInv`: inside the loop the registry is
bound to the turn's session and the number of tools run equals the number of calls
of the model.  Lemmas say what `_parse_final` and the sanitiser return for every output.
Theorems: `TypeHolds`, `MemoryNeverMixed`, `AgentAlwaysReplies`, `ToolResultsSeen`.

`LlmCalls_proofs`.  The invariant `LInv` ties `pc` to the two kinds of locks, the thread to
the turn that waits for it (`running` only in `stream`, `ending` only in `stream` or `join`),
and the queue to the pieces: what was taken followed by what is queued is what was made, in
order, with the end mark last.  `OneGeneration` and `ReplyWhole` follow from it and are not
inductive alone.  Theorems: `TypeHolds`, `LoadedOnceHolds`, `OneGenerationHolds`,
`ReplyWholeHolds`.

`VoiceClient_proofs`.  `Operable` speaks of quiet states only, so the invariant `CInv` says for
every state who is going to repair what: a busy sign has a turn under way, `finishing` has a
recorder in `stopping` with its `onstop` set, a disabled Start button has a turn or
listening, a phase `processing` has a turn whose `finally` is still to come.  Theorems:
`TypeHolds`, `OperableHolds`, and `MicHolds` for users without a second click and starts
without a late failure, from the invariant that one start is under way at a time and none
while listening.  `UtterancesWhole` and `TurnsOneByOne` assume `Patience`: of `Acts` all but
`again`, `tab`, `upload`, `text` and `new`, so no second click on Start, no other tab, upload or
new conversation; with any of these TLC finds two recorders that push to the same chunks, or
two turns.  Both properties stop at `orphaned`, the utterance that found no session open.
The invariant `PInv` has two parts.  `Calm` holds unless `orphaned`: a turn exists only while
listening is on and in phase `processing`, a start only while it is off, and only the
current recorder runs, only while somebody speaks, with its first piece in `chunks` once it
has delivered one.  `Tidy` holds always: calls that have returned and recorders that have
stopped leave nothing behind; with `CInv` it makes a start with nothing under way `Calm`
again (`FreshStart`), so the exception does not last.

`KnowledgeIndex_proofs`.  `VectorWhole` speaks of finished rebuilds; `Rebuilding` says of one
under way that each document it has not still to give is in the collection, in the version
wanted or, if `delete_collection` failed, in the one found there, and nothing else is.  `ServedIsCurrent` needs `Starting`: what a starting server has
read or stat'ed so far are versions the documents had since.  Theorems: `TypeHolds`,
`CollectionWhole`, `NothingStaleServed`.

`TraceGen_proofs`.  The invariant `TInv` has three parts.  `Split(n)`, about the machine alone:
the profiled activations are those above the n-th, the callers one shows are those of the
activation below and that one itself, and above the profiled function only functions run
that it calls (`Below`), so it is not among them.  `Watching`: what the last line tells of the
next, namely whether it is inside of the profile, whether it is the first of a function, and
that a jump which was not seen is followed by a plain line of another symbol, which raises.
`InStep(n)`: the two stacks.  Each kind of line keeps them: `LineRead` says once what
`process_instr` does to the stacks, `EndedRight` that the event of a tail call or a return is
the machine's.  `EventsTrue` is not inductive alone, since an event is made from both stacks.
Theorems: `TypeHolds`, `ProfileTrue`, `StacksInStep`, the last two for `Readable` logs.

Only model-checked: the liveness properties `EveryRequestEnds`, `TurnEnds`, `TurnsEnd`,
`ListeningResumes` and `StartServesUncut`, since fairness is outside the prover's reach.  That
`Readable` holds of a given binary is evaluated by TLC, for the one of `MCTraceGen`: what
`FromStr` makes of a line is a matter of the finitely many ways to write it.

## 6. Plan

1. Done: session store, handlers, agent loop; registry, backends and their thread; knowledge
   index, tables, collection and the scripts; browser client; trace generator; the proofs of
   section 5.
2. Done: every invariant, the action property and the refinement that a run checks are
   theorems as well, where they need it with the circumstances of that run as hypothesis.
3. Left: `HistoryOrdered` gives more than `TurnsInOrder` uses (an answered turn that is lost is
   always among the last ones); the safety part of `TurnsEnd` (who waits for whom) as an
   invariant of its own; the order of `loadSession`'s answers as a property of `VoiceClient`.

Not modelled, and why: the ASR and TTS engines (numerical code behind one call), web search
(one HTTP call), the ranking and merging of search hits (floating-point scores), prompt
wording and statistics, SQL queries, the normalisation of spoken ids (string formats),
configuration files (read once), the reading of ELF and DWARF, the runner of iminn-tools
(sequences of shell and git commands: a model would restate the order of the statements; its
hazards are listed in `PROJECT.json`) and its framework wrappers (command lines and their
output), omni_voice and the vLLM and SGLang explorations (third-party engines, vendored
sources and benchmark scripts).
