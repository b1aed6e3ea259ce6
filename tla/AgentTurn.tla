------------------------------ MODULE AgentTurn ------------------------------
(***************************************************************************)
(* One conversational turn inside the pipeline: StagedVoicePipeline.       *)
(* run_turn (project/src/staged_voice/pipeline.py) with the tool loop of   *)
(* AgentService.run (server/app/agent/service.py) and the tools of         *)
(* ToolRegistry (server/app/agent/tools.py).                               *)
(*                                                                         *)
(* Turns run one after the other (PipelineService._lock), for any session. *)
(* ONE registry serves them all: bind_session_memory points it to the      *)
(* agent_memory of the turn's session.  The language model is the          *)
(* environment: each call returns any output, or raises.                   *)
(*                                                                         *)
(* An output is the sequence of its protocol items:                        *)
(*   final     the marker FINAL: at the beginning of a line,               *)
(*   words     other text,                                                 *)
(*   bad       TOOL_CALL: with something that is not a call in JSON,       *)
(*   remember  a call of remember with a key and a value,                  *)
(*   lookup    any other call: a tool that only reads, a name that is not  *)
(*             registered, arguments that do not fit.                      *)
(* The text after FINAL:, on the same line or a later one, is the next     *)
(* item.  A call that only the expression _TOOL_RE finds, in the middle of *)
(* a line or over several, is the same item as one on a line of its own.   *)
(***************************************************************************)
EXTENDS Naturals, Sequences, FiniteSets

CONSTANTS Sids,          \* sessions
          Keys,          \* keys of remembered facts
          NoSid, NoKey,
          MaxToolSteps,  \* agent.max_tool_steps
          WebSearch,     \* is search_web configured, with auto_search?
          MaxItems       \* bound on the items of an output

ASSUME AgentAssumption ==
    /\ NoSid \notin Sids /\ NoKey \notin Keys
    /\ MaxToolSteps \in Nat /\ MaxItems \in Nat
    /\ WebSearch \in BOOLEAN

Item(k)    == [kind |-> k, key |-> NoKey]
Remember   == [kind : {"remember"}, key : Keys]
Calls      == Remember \cup {Item("lookup")}
Written    == Calls \cup {Item("final"), Item("words"), Item("bad")}
Outputs    == UNION {[1..n -> Written] : n \in 0..MaxItems}
Items      == Written \cup {Item("apology")}    \* what replies are made of

VARIABLES
    phase,    \* what the turn does next
    sid,      \* its session
    speak,    \* is the reply to be spoken?
    bound,    \* the session whose agent_memory the registry writes to
    memory,   \* agent_memory of every session: the keys it holds
    calls,    \* calls of the language model in this turn
    rounds,   \* tools run at the model's request in this turn
    auto,     \* was the web searched before the first call?
    reply,    \* reply_text, as items
    steps,    \* AgentResult.agent_steps
    asked     \* what the model asked to remember, in turns of which session

vars == <<phase, sid, speak, bound, memory, calls, rounds, auto, reply, steps, asked>>

Phases == {"idle", "agent", "plain", "tts"}

\* The types of the variables.
TypeOK ==
    /\ phase \in Phases
    /\ sid \in Sids \cup {NoSid}
    /\ speak \in BOOLEAN
    /\ bound \in Sids \cup {NoSid}
    /\ memory \in [Sids -> SUBSET Keys]
    /\ calls \in Nat /\ rounds \in Nat /\ steps \in Nat
    /\ auto \in BOOLEAN
    /\ reply \in Seq(Items)
    /\ asked \in SUBSET (Sids \X Keys)

Init ==
    /\ phase = "idle" /\ sid = NoSid /\ speak = FALSE
    /\ bound = NoSid
    /\ memory = [s \in Sids |-> {}]
    /\ calls = 0 /\ rounds = 0 /\ auto = FALSE
    /\ reply = <<>> /\ steps = 0
    /\ asked = {}

-----------------------------------------------------------------------------
(* Reading the model's output.                                             *)

First(S) == CHOOSE i \in S : \A j \in S : i <= j

\* _parse_final: the text after the first FINAL: that any text follows.
Marks(raw)      == {i \in DOMAIN raw : raw[i] = Item("final") /\ i < Len(raw)}
HasFinal(raw)   == Marks(raw) # {}
ParseFinal(raw) == SubSeq(raw, First(Marks(raw)) + 1, Len(raw))

\* sanitize_agent_reply
Sanitize(text) == IF HasFinal(text) THEN ParseFinal(text) ELSE text

\* _parse_tool_call: the first line that is a call.
CallsIn(raw)  == {i \in DOMAIN raw : raw[i] \in Calls}
ToolCall(raw) == raw[First(CallsIn(raw))]

\* "I could not produce an answer.", and "I could not find an answer in time."
NoAnswer == <<Item("words")>>
Apology  == <<Item("apology")>>

-----------------------------------------------------------------------------
\* Mutant: the memory is bound when the service starts, and not again.
AgentRun_BindsOnce(s) ==
    /\ bound' = IF bound = NoSid THEN s ELSE bound
    /\ auto' \in (IF WebSearch THEN BOOLEAN ELSE {FALSE})

\* AgentService.run before its loop: it binds the session's memory, and a
\* question that should_auto_web_search recognises is searched for at once.
AgentRun(s) ==
    /\ bound' = s
    /\ auto' \in (IF WebSearch THEN BOOLEAN ELSE {FALSE})

\* run_turn begins, with the agent or without it.
Begin(s, tools, spoken) ==
    /\ phase = "idle"
    /\ sid' = s
    /\ speak' = spoken
    /\ \/ tools  /\ phase' = "agent" /\ AgentRun(s)
       \/ ~tools /\ phase' = "plain" /\ auto' = FALSE /\ UNCHANGED bound
    /\ calls' = 0 /\ rounds' = 0 /\ reply' = <<>> /\ steps' = 0
    /\ UNCHANGED <<memory, asked>>

\* The reply goes to the speech synthesis, or the turn is over.
Reply(text) ==
    /\ reply' = text
    /\ phase' = IF speak THEN "tts" ELSE "idle"

\* tool_calls has the automatic search in it.
ToolCalls == rounds + (IF auto THEN 1 ELSE 0)

\* Mutant: a call beside FINAL: is run before the final answer is returned.
Final_AfterTool(raw) ==
    /\ phase = "agent"
    /\ calls <= MaxToolSteps
    /\ HasFinal(raw)
    /\ calls' = calls + 1
    /\ rounds' = IF CallsIn(raw) = {} THEN rounds ELSE rounds + 1
    /\ steps' = calls + 1
    /\ Reply(Sanitize(ParseFinal(raw)))
    /\ UNCHANGED <<sid, speak, bound, memory, auto, asked>>

\* Loop body, "final is not None".
Final(raw) ==
    /\ phase = "agent"
    /\ calls <= MaxToolSteps
    /\ HasFinal(raw)
    /\ calls' = calls + 1
    /\ steps' = calls + 1
    /\ Reply(Sanitize(ParseFinal(raw)))
    /\ UNCHANGED <<sid, speak, bound, memory, rounds, auto, asked>>

\* Mutant: raw.strip() without the fallback.
Neither_NoFallback(raw) ==
    /\ phase = "agent"
    /\ calls <= MaxToolSteps
    /\ ~HasFinal(raw) /\ CallsIn(raw) = {}
    /\ calls' = calls + 1
    /\ steps' = ToolCalls + 1
    /\ Reply(Sanitize(Sanitize(raw)))
    /\ UNCHANGED <<sid, speak, bound, memory, rounds, auto, asked>>

\* Loop body, "tool_call is None": the output itself is the reply.
Neither(raw) ==
    /\ phase = "agent"
    /\ calls <= MaxToolSteps
    /\ ~HasFinal(raw) /\ CallsIn(raw) = {}
    /\ calls' = calls + 1
    /\ steps' = ToolCalls + 1
    /\ Reply(Sanitize(Sanitize(IF raw = <<>> THEN NoAnswer ELSE raw)))
    /\ UNCHANGED <<sid, speak, bound, memory, rounds, auto, asked>>

\* Mutant: arguments that do not fit reach the session's memory.
RunTool_AnyArguments(raw) ==
    LET c == ToolCall(raw)
    IN /\ phase = "agent"
       /\ calls <= MaxToolSteps
       /\ ~HasFinal(raw) /\ CallsIn(raw) # {}
       /\ calls' = calls + 1
       /\ rounds' = rounds + 1
       /\ memory' = [memory EXCEPT ![bound] = @ \cup {c.key}]
       /\ UNCHANGED <<phase, sid, speak, bound, auto, reply, steps, asked>>

\* Loop body, otherwise: ToolRegistry.run never raises, and only remember
\* changes anything.  The result goes into the next call's messages.
RunTool(raw) ==
    LET c == ToolCall(raw)
    IN /\ phase = "agent"
       /\ calls <= MaxToolSteps
       /\ ~HasFinal(raw) /\ CallsIn(raw) # {}
       /\ calls' = calls + 1
       /\ rounds' = rounds + 1
       /\ IF c.kind = "remember"
          THEN /\ memory' = [memory EXCEPT ![bound] = @ \cup {c.key}]
               /\ asked' = asked \cup {<<sid, c.key>>}
          ELSE UNCHANGED <<memory, asked>>
       /\ UNCHANGED <<phase, sid, speak, bound, auto, reply, steps>>

\* range(max_tool_steps + 1) is exhausted.
GiveUp ==
    /\ phase = "agent"
    /\ calls = MaxToolSteps + 1
    /\ steps' = ToolCalls + 1
    /\ Reply(Sanitize(Apology))
    /\ UNCHANGED <<sid, speak, bound, memory, calls, rounds, auto, asked>>

\* Tools off: one call, and its text is the reply.
Plain(raw) ==
    /\ phase = "plain"
    /\ calls' = calls + 1
    /\ Reply(raw)
    /\ UNCHANGED <<sid, speak, bound, memory, rounds, auto, steps, asked>>

\* The synthesis works, or raises: it must for an empty text.
Synthesize ==
    /\ phase = "tts"
    /\ phase' = "idle"
    /\ UNCHANGED <<sid, speak, bound, memory, calls, rounds, auto, reply, steps, asked>>

\* Mutant: the exception is caught and the loop started again.
LlmFails_Restarts ==
    /\ phase \in {"agent", "plain"}
    /\ calls <= MaxToolSteps
    /\ calls' = 0 /\ rounds' = 0
    /\ UNCHANGED <<phase, sid, speak, bound, memory, auto, reply, steps, asked>>

\* The model's backend raises (or, before the first call, the search of the
\* knowledge base does) and the exception leaves run_turn.
LlmFails ==
    /\ phase \in {"agent", "plain"}
    /\ calls <= MaxToolSteps
    /\ phase' = "idle"
    /\ UNCHANGED <<sid, speak, bound, memory, calls, rounds, auto, reply, steps, asked>>

TurnStep ==
    \/ \E raw \in Outputs : Final(raw) \/ Neither(raw) \/ RunTool(raw) \/ Plain(raw)
    \/ GiveUp \/ Synthesize \/ LlmFails

Next ==
    \/ \E s \in Sids, tools, spoken \in BOOLEAN : Begin(s, tools, spoken)
    \/ TurnStep

Spec == Init /\ [][Next]_vars

\* The loop goes on and the backend's call ends: it has a timeout.
FairSpec == Spec /\ WF_vars(TurnStep)

-----------------------------------------------------------------------------
\* One registry serves all sessions, and yet agent_memory of a session holds
\* exactly what the model asked to remember in turns of that session, turns that
\* failed later included: bind_session_memory is in time.
MemoryIsolated ==
    \A s \in Sids : memory[s] = {k \in Keys : <<s, k>> \in asked}

\* The agent never hands an empty reply to the speech synthesis, which raises on
\* one, whatever the model puts out.
AgentReplies == phase = "tts" /\ steps > 0 => reply # <<>>

\* A reply is used only after the model has been called with the result of every
\* tool that it asked for and that was run; the one exception is "I could not find
\* an answer in time", which is nobody's answer.
ResultsSeen ==
    steps > 0 => rounds + 1 = calls \/ reply = Apology

\* agent.max_tool_steps is the largest number of tool rounds in a turn, as the
\* configuration table says: the loop of AgentService.run makes one more.
ToolRounds == rounds <= MaxToolSteps

\* A turn ends, however often the model asks for another tool.
TurnEnds == phase # "idle" ~> phase = "idle"
=============================================================================
