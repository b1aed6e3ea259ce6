--------------------------- MODULE AgentTurn_proofs ---------------------------
(***************************************************************************)
(* Proofs about AgentTurn, for every set of sessions and keys, every limit *)
(* of tool steps and every length of the model's outputs.                  *)
(***************************************************************************)
EXTENDS AgentTurn, WellFoundedInduction, TLAPS

\* What is known between two steps of the loop.
LoopInv ==
    /\ phase = "agent" => /\ sid \in Sids /\ bound = sid
                          /\ steps = 0 /\ rounds = calls /\ calls <= MaxToolSteps + 1
    /\ phase = "plain" => steps = 0

AInv == TypeOK /\ LoopInv /\ MemoryIsolated /\ AgentReplies /\ ResultsSeen

-----------------------------------------------------------------------------
(* Reading the model's output.                                             *)

\* A non-empty set of positions has a first one.
LEMMA FirstIsIn ==
  ASSUME NEW S \in SUBSET Nat, S # {}
  PROVE  First(S) \in S
<1>1. \E x \in S : \A y \in S : ~(<<y, x>> \in OpToRel(<, Nat))
  BY NatLessThanWellFounded, WFMin
<1>2. PICK x \in S : \A y \in S : ~(<<y, x>> \in OpToRel(<, Nat))
  BY <1>1
<1>3. ASSUME NEW y \in S PROVE x <= y
  <2>1. x \in Nat /\ y \in Nat
    OBVIOUS
  <2>2. ASSUME y < x PROVE FALSE
    <3>1. <<y, x>> \in OpToRel(<, Nat)
      BY <2>1, <2>2, Zenon DEF OpToRel
    <3> QED BY <3>1, <1>2
  <2> QED BY <2>1, <2>2
<1>4. \E i \in S : \A j \in S : i <= j
  BY <1>3
<1> QED BY <1>4 DEF First

\* An output is a sequence of items.
LEMMA OutputsAreSeqs == \A raw \in Outputs : raw \in Seq(Items)
BY DEF Outputs, Items

\* _parse_final returns some text: FINAL: alone is not a final answer.
LEMMA FinalNotEmpty ==
  ASSUME NEW raw \in Seq(Items), HasFinal(raw)
  PROVE  ParseFinal(raw) \in Seq(Items) /\ ParseFinal(raw) # <<>>
<1> DEFINE i == First(Marks(raw))
<1>1. i \in Marks(raw)
  BY FirstIsIn DEF HasFinal, Marks
<1>2. i \in 1..Len(raw) /\ i < Len(raw) /\ Len(raw) \in Nat
  BY <1>1 DEF Marks
<1> HIDE DEF i
<1>3. SubSeq(raw, i + 1, Len(raw)) \in Seq(Items) /\ Len(SubSeq(raw, i + 1, Len(raw))) > 0
  BY <1>2
<1>4. ASSUME NEW t \in Seq(Items), Len(t) > 0 PROVE t # <<>>
  BY <1>4
<1>5. SubSeq(raw, i + 1, Len(raw)) # <<>>
  BY <1>3, <1>4
<1> QED BY <1>3, <1>5 DEF ParseFinal, i

\* sanitize_agent_reply keeps a text a text.
LEMMA SanitizeNotEmpty ==
  ASSUME NEW text \in Seq(Items), text # <<>>
  PROVE  Sanitize(text) \in Seq(Items) /\ Sanitize(text) # <<>>
BY FinalNotEmpty DEF Sanitize

\* Both texts of the code's own are texts, and sanitize_agent_reply leaves the
\* apology alone.
LEMMA ApologyIsText ==
  /\ NoAnswer \in Seq(Items) /\ NoAnswer # <<>>
  /\ Apology \in Seq(Items) /\ Apology # <<>> /\ Sanitize(Apology) = Apology
<1>1. Item("words") \in Items /\ Item("apology") \in Items
  BY DEF Items, Written
<1> HIDE DEF Item
<1>2. Apology \in Seq(Items) /\ Len(Apology) = 1 /\ Apology # <<>>
  BY <1>1 DEF Apology
<1>3. ~HasFinal(Apology)
  BY <1>2 DEF HasFinal, Marks
<1>4. NoAnswer \in Seq(Items) /\ NoAnswer # <<>>
  BY <1>1 DEF NoAnswer
<1> QED BY <1>2, <1>3, <1>4 DEF Sanitize

\* The call that _parse_tool_call returns is one of the known forms.
LEMMA ToolCallTyped ==
  ASSUME NEW raw \in Seq(Items), CallsIn(raw) # {}
  PROVE  ToolCall(raw) \in Calls
<1>1. First(CallsIn(raw)) \in CallsIn(raw)
  BY FirstIsIn DEF CallsIn
<1> QED BY <1>1 DEF CallsIn, ToolCall

-----------------------------------------------------------------------------
\* Every step preserves the invariant.
LEMMA NextAInv == AInv /\ [Next]_vars => AInv'
<1> SUFFICES ASSUME AInv, [Next]_vars PROVE AInv'
  OBVIOUS
<1> USE AgentAssumption DEF AInv
<1>1. ASSUME NEW s \in Sids, NEW tools \in BOOLEAN, NEW spoken \in BOOLEAN, Begin(s, tools, spoken)
      PROVE  AInv'
  <2>0. auto' \in BOOLEAN
    <3>1. CASE tools
      BY <1>1, <3>1, Zenon DEF Begin, AgentRun
    <3>2. CASE ~tools
      BY <1>1, <3>2, Zenon DEF Begin
    <3> QED BY <3>1, <3>2
  <2>4. /\ phase' \in Phases /\ bound' \in Sids \cup {NoSid}
        /\ phase' = "agent" => bound' = s
        /\ phase' \in {"agent", "plain"}
    BY <1>1 DEF Begin, AgentRun, TypeOK, Phases
  <2>5. reply' \in Seq(Items)
    BY <1>1 DEF Begin
  <2>1. TypeOK'
    BY <1>1, <2>0, <2>4, <2>5 DEF Begin, TypeOK
  <2>2. LoopInv' /\ AgentReplies' /\ ResultsSeen'
    BY <1>1, <2>4 DEF Begin, TypeOK, LoopInv, AgentReplies, ResultsSeen
  <2>3. MemoryIsolated'
    BY <1>1 DEF Begin, MemoryIsolated
  <2> QED BY <2>1, <2>2, <2>3
<1>r. ASSUME NEW text \in Seq(Items), text # <<>>, Reply(text), phase = "agent",
             UNCHANGED <<sid, speak, bound, memory, rounds, auto, asked>>,
             calls' \in Nat, steps' \in Nat,
             rounds + 1 = calls' \/ text = Apology
      PROVE  AInv'
  <2>1. TypeOK'
    BY <1>r DEF TypeOK, Reply, Phases
  <2>2. LoopInv' /\ AgentReplies' /\ ResultsSeen'
    BY <1>r DEF TypeOK, LoopInv, AgentReplies, ResultsSeen, Reply
  <2>3. MemoryIsolated'
    BY <1>r DEF MemoryIsolated
  <2> QED BY <2>1, <2>2, <2>3
<1>2. ASSUME NEW raw \in Outputs, Final(raw) PROVE AInv'
  <2>1. ParseFinal(raw) \in Seq(Items) /\ ParseFinal(raw) # <<>>
    BY <1>2, OutputsAreSeqs, FinalNotEmpty DEF Final
  <2>2. Sanitize(ParseFinal(raw)) \in Seq(Items) /\ Sanitize(ParseFinal(raw)) # <<>>
    BY <2>1, SanitizeNotEmpty
  <2>3. rounds + 1 = calls' /\ calls' \in Nat /\ steps' \in Nat
    BY <1>2 DEF Final, TypeOK, LoopInv
  <2> QED BY <1>2, <1>r, <2>2, <2>3 DEF Final
<1>3. ASSUME NEW raw \in Outputs, Neither(raw) PROVE AInv'
  <2> DEFINE text == IF raw = <<>> THEN NoAnswer ELSE raw
  <2>1. text \in Seq(Items) /\ text # <<>>
    BY OutputsAreSeqs, ApologyIsText
  <2> HIDE DEF text
  <2>2. Sanitize(Sanitize(text)) \in Seq(Items) /\ Sanitize(Sanitize(text)) # <<>>
    BY <2>1, SanitizeNotEmpty
  <2>3. rounds + 1 = calls' /\ calls' \in Nat /\ steps' \in Nat
    BY <1>3 DEF Neither, TypeOK, LoopInv, ToolCalls
  <2>4. Reply(Sanitize(Sanitize(text))) /\ phase = "agent"
        /\ UNCHANGED <<sid, speak, bound, memory, rounds, auto, asked>>
    BY <1>3 DEF Neither, text
  <2> QED BY <1>r, <2>2, <2>3, <2>4
<1>4. ASSUME NEW raw \in Outputs, RunTool(raw) PROVE AInv'
  <2> DEFINE c == ToolCall(raw)
  <2>0. c \in Calls
    BY <1>4, OutputsAreSeqs, ToolCallTyped DEF RunTool
  <2>1. c.kind = "remember" => c.key \in Keys
    BY <2>0 DEF Calls, Remember, Item
  <2>2. /\ phase = "agent" /\ sid \in Sids /\ bound = sid /\ steps = 0
        /\ calls' = calls + 1 /\ rounds' = rounds + 1 /\ calls <= MaxToolSteps
        /\ UNCHANGED <<phase, sid, speak, bound, auto, reply, steps>>
    BY <1>4 DEF RunTool, LoopInv
  <2>3. CASE c.kind = "remember"
    <3>1. memory' = [memory EXCEPT ![sid] = @ \cup {c.key}] /\ asked' = asked \cup {<<sid, c.key>>}
      BY <1>4, <2>2, <2>3 DEF RunTool
    <3> HIDE DEF c
    <3>2. TypeOK'
      BY <2>1, <2>2, <2>3, <3>1 DEF TypeOK
    <3>3. MemoryIsolated'
      BY <2>1, <2>2, <2>3, <3>1 DEF TypeOK, MemoryIsolated
    <3>4. LoopInv' /\ AgentReplies' /\ ResultsSeen'
      BY <2>2 DEF TypeOK, LoopInv, AgentReplies, ResultsSeen
    <3> QED BY <3>2, <3>3, <3>4
  <2>4. CASE c.kind # "remember"
    <3>1. UNCHANGED <<memory, asked>>
      BY <1>4, <2>4 DEF RunTool
    <3> QED BY <2>2, <3>1 DEF TypeOK, LoopInv, MemoryIsolated, AgentReplies, ResultsSeen
  <2> QED BY <2>3, <2>4
<1>5. CASE GiveUp
  <2>1. /\ calls' \in Nat /\ steps' \in Nat
        /\ Reply(Apology) /\ phase = "agent"
        /\ UNCHANGED <<sid, speak, bound, memory, rounds, auto, asked>>
    BY <1>5, ApologyIsText DEF GiveUp, TypeOK, LoopInv, ToolCalls
  <2> QED BY <1>r, <2>1, ApologyIsText
<1>6. ASSUME NEW raw \in Outputs, Plain(raw) PROVE AInv'
  <2>1. raw \in Seq(Items)
    BY OutputsAreSeqs
  <2>2. TypeOK'
    BY <1>6, <2>1 DEF Plain, Reply, TypeOK, Phases
  <2>3. LoopInv' /\ AgentReplies' /\ ResultsSeen'
    BY <1>6 DEF Plain, Reply, TypeOK, LoopInv, AgentReplies, ResultsSeen
  <2>4. MemoryIsolated'
    BY <1>6 DEF Plain, MemoryIsolated
  <2> QED BY <2>2, <2>3, <2>4
<1>7. CASE Synthesize \/ LlmFails
  BY <1>7 DEF Synthesize, LlmFails, TypeOK, Phases, LoopInv, MemoryIsolated, AgentReplies, ResultsSeen
<1>8. CASE UNCHANGED vars
  BY <1>8 DEF vars, TypeOK, LoopInv, MemoryIsolated, AgentReplies, ResultsSeen
<1> QED BY <1>1, <1>2, <1>3, <1>4, <1>5, <1>6, <1>7, <1>8 DEF Next, TurnStep

\* The invariant holds throughout.
LEMMA AgentInvariant == Spec => []AInv
<1>1. ASSUME Init PROVE AInv
  <2>1. TypeOK
    <3>1. reply \in Seq(Items) /\ memory \in [Sids -> SUBSET Keys]
      BY <1>1 DEF Init
    <3> QED BY <1>1, <3>1 DEF Init, TypeOK, Phases
  <2>2. MemoryIsolated
    BY <1>1 DEF Init, MemoryIsolated
  <2>3. LoopInv /\ AgentReplies /\ ResultsSeen
    BY <1>1 DEF Init, LoopInv, AgentReplies, ResultsSeen
  <2> QED BY <2>1, <2>2, <2>3 DEF AInv
<1>2. AInv /\ [Next]_vars => AInv'
  BY NextAInv
<1> QED BY <1>1, <1>2, PTL DEF Spec

\* TypeOK of the turn: the tool loop of AgentService.run and run_turn of the
\* pipeline leave phase, reply and memory among the values the rest knows,
\* whatever the model puts out and whichever tool fails.
THEOREM TypeHolds == Spec => []TypeOK
<1>1. AInv => TypeOK
  BY DEF AInv
<1> QED BY <1>1, AgentInvariant, PTL

\* The one ToolRegistry never mixes up sessions: agent_memory of each holds exactly
\* what the model asked to remember in its turns.
THEOREM MemoryNeverMixed == Spec => []MemoryIsolated
<1>1. AInv => MemoryIsolated
  BY DEF AInv
<1> QED BY <1>1, AgentInvariant, PTL

\* Whatever the model puts out, the agent has something to say.
THEOREM AgentAlwaysReplies == Spec => []AgentReplies
<1>1. AInv => AgentReplies
  BY DEF AInv
<1> QED BY <1>1, AgentInvariant, PTL

\* No reply of the model's ignores the result of a tool it ran: only the apology,
\* when the loop ends without an answer, does.
THEOREM ToolResultsSeen == Spec => []ResultsSeen
<1>1. AInv => ResultsSeen
  BY DEF AInv
<1> QED BY <1>1, AgentInvariant, PTL
=============================================================================
