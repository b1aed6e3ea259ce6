------------------------- MODULE VoiceClient_proofs -------------------------
(***************************************************************************)
(* Proofs about VoiceClient, for any number of sessions, overlapping       *)
(* calls, microphones and recorders.                                       *)
(***************************************************************************)
EXTENDS VoiceClient, FiniteSetTheorems, TLAPS

Turning(c) == pc[c] \in {"post", "reload"}

\* How the flags hang together: who will clear what is set.
Flags ==
    /\ busy => \E c \in Calls : Turning(c)
    /\ sendOff => busy
    /\ recordOff => enabled \/ busy
    /\ enabled /\ ~busy /\ phase \in {"armed", "speaking"} => ~stopOff
    /\ enabled => phase # "off"
    /\ enabled /\ phase = "processing" => \E c \in Calls : Turning(c) /\ kind[c] = "voice"
    /\ finishing => recorder \in stopping /\ recorder \in hooked

CInv == TypeOK /\ Flags

Labels == {"idle", "boot", "load", "peek", "create", "mic", "resume", "post", "reload"}

\* TypeOK in parts.
PageOK ==
    /\ server \in [Sids -> {"unborn", "live", "gone"}]
    /\ sessionId \in Sids \cup {NoSid} /\ shown \in Sids \cup {NoSid}
    /\ mode \in {"voice", "text"} /\ orphaned \in BOOLEAN

AutoOK ==
    /\ enabled \in BOOLEAN /\ phase \in Phases /\ finishing \in BOOLEAN
    /\ stream \in Mics \cup {NoMic} /\ recorder \in Recs \cup {NoRec}
    /\ chunks \subseteq Piece /\ open \subseteq Mics
    /\ taping \subseteq Recs /\ stopping \subseteq Recs

WidgetOK ==
    /\ busy \in BOOLEAN /\ recordOff \in BOOLEAN
    /\ stopOff \in BOOLEAN /\ sendOff \in BOOLEAN

RecOK ==
    /\ begun \subseteq Recs /\ hooked \subseteq Recs
    /\ source \in [Recs -> Mics \cup {NoMic}]

CallOK ==
    /\ pc \in [Calls -> Labels] /\ kind \in [Calls -> Kinds]
    /\ sid \in [Calls -> Sids \cup {NoSid}] /\ mic \in [Calls -> Mics \cup {NoMic}]
    /\ blob \in [Calls -> SUBSET Piece]

-----------------------------------------------------------------------------
(* Types.                                                                  *)

LEMMA TypeParts ==
  /\ TypeOK <=> PageOK /\ AutoOK /\ WidgetOK /\ RecOK /\ CallOK
  /\ TypeOK' <=> PageOK' /\ AutoOK' /\ WidgetOK' /\ RecOK' /\ CallOK'
BY DEF TypeOK, PageOK, AutoOK, WidgetOK, RecOK, CallOK, Labels

\* A part whose variables do not change keeps its types.
LEMMA Same ==
  /\ PageOK /\ UNCHANGED pageVars => PageOK'
  /\ AutoOK /\ UNCHANGED autoVars => AutoOK'
  /\ WidgetOK /\ UNCHANGED widgetVars => WidgetOK'
  /\ RecOK /\ UNCHANGED recVars => RecOK'
  /\ CallOK /\ UNCHANGED callVars => CallOK'
BY DEF pageVars, autoVars, widgetVars, recVars, callVars,
       PageOK, AutoOK, WidgetOK, RecOK, CallOK

LEMMA ReleaseType ==
  ASSUME AutoOK, Release
  PROVE  AutoOK'
BY DEF AutoOK, Release, Phases

LEMMA StopType ==
  ASSUME AutoOK, WidgetOK, StopIfEnabled, UNCHANGED <<busy, sendOff>>
  PROVE  AutoOK' /\ WidgetOK'
<1>1. CASE enabled
  <2>1. Release /\ ListenUi(FALSE, "off", RecordOffStopped)
    BY <1>1 DEF StopIfEnabled, StopAutoListen
  <2> QED BY <2>1, ReleaseType DEF ListenUi, WidgetOK
<1>2. CASE ~enabled
  <2>1. UNCHANGED <<autoVars, recordOff, stopOff>>
    BY <1>2 DEF StopIfEnabled
  <2> QED BY <2>1, Same DEF WidgetOK, widgetVars
<1> QED BY <1>1, <1>2

LEMMA ReturnType ==
  ASSUME CallOK, NEW c \in Calls, Return(c)
  PROVE  CallOK'
BY DEF CallOK, Return, Kinds, Labels

\* A call goes on or begins with a label, keeps or gets a session and a blob.
LEMMA GotoType ==
  ASSUME CallOK, NEW c \in Calls, NEW l \in Labels, Goto(c, l)
  PROVE  pc' \in [Calls -> Labels]
BY DEF CallOK, Goto

LEMMA CallType ==
  ASSUME CallOK, NEW c \in Calls, NEW l \in Labels, NEW k \in Kinds, Call(c, k, l)
  PROVE  pc' \in [Calls -> Labels] /\ kind' \in [Calls -> Kinds]
BY GotoType DEF CallOK, Call

LEMMA EndType ==
  ASSUME AutoOK, WidgetOK, NEW c \in Calls, EndTurn(c)
  PROVE  AutoOK' /\ WidgetOK'
<1>1. CASE EndText
  <2>1. AutoOK'
    BY <1>1, Same DEF EndText
  <2>2. WidgetOK'
    BY <1>1 DEF EndText, AutoOK, WidgetOK
  <2> QED BY <2>1, <2>2
<1>2. CASE EndVoice /\ enabled
  <2>1. /\ busy' = FALSE /\ sendOff' = FALSE /\ phase' = "armed" /\ finishing' = FALSE
        /\ ListenUi(TRUE, "armed", TRUE)
        /\ UNCHANGED <<enabled, stream, recorder, chunks, open, taping, stopping>>
    BY <1>2 DEF EndVoice
  <2>2. AutoOK'
    BY <2>1 DEF AutoOK, Phases
  <2> QED BY <2>1, <2>2 DEF WidgetOK, ListenUi
<1>3. CASE EndVoice /\ ~enabled
  <2>1. /\ busy' = FALSE /\ sendOff' = FALSE /\ recordOff' = FALSE /\ stopOff' = TRUE
        /\ UNCHANGED autoVars
    BY <1>3 DEF EndVoice
  <2> QED BY <2>1, Same DEF WidgetOK
<1> QED BY <1>1, <1>2, <1>3 DEF EndTurn

LEMMA AnswerType ==
  ASSUME PageOK, CallOK, NEW c \in Calls, SessionAnswer(c), UNCHANGED <<server, mode, orphaned>>,
         sid[c] \in Sids \cup {NoSid}
  PROVE  PageOK'
BY DEF PageOK, SessionAnswer

LEMMA PieceType ==
  ASSUME NEW r \in Recs
  PROVE  PieceOf(r) \in Piece
BY DEF PieceOf, Piece

LEMMA ForgetType ==
  ASSUME RecOK, NEW r \in Recs, Forget(r)
  PROVE  RecOK'
BY DEF RecOK, Forget

LEMMA OnStopType ==
  ASSUME AutoOK, RecOK, NEW r \in Recs, OnStop(r)
  PROVE  /\ RecOK'
         /\ stopping' \subseteq Recs /\ recorder' \in Recs \cup {NoRec}
         /\ chunks' \subseteq Piece /\ finishing' \in BOOLEAN
BY ForgetType DEF AutoOK, OnStop

LEMMA PostType ==
  ASSUME CallOK, NEW c \in Calls, NEW s \in Sids \cup {NoSid}, PostTurn(c, s)
  PROVE  WidgetOK' /\ sid' \in [Calls -> Sids \cup {NoSid}]
BY DEF CallOK, PostTurn, WidgetOK

\* Every step keeps the types: conversations.
LEMMA TypePage ==
  ASSUME TypeOK, NEW c \in Calls,
         \/ Boot(c) \/ OpenHistory(c) \/ Loaded(c) \/ NewSession(c) \/ Peeked(c)
         \/ Created(c) \/ CreateFails(c)
  PROVE  TypeOK'
<1> SUFFICES PageOK' /\ AutoOK' /\ WidgetOK' /\ RecOK' /\ CallOK'
  BY TypeParts
<1>0. PageOK /\ AutoOK /\ WidgetOK /\ RecOK /\ CallOK
  BY TypeParts
<1>k. /\ {"load", "peek", "create", "mic", "post"} \subseteq Labels
      /\ {"load", "new"} \subseteq Kinds
  BY DEF Labels, Kinds
<1>1. CASE Boot(c)
  <2>1. PageOK' /\ AutoOK' /\ WidgetOK' /\ RecOK'
    BY <1>0, <1>1, Same DEF Boot
  <2>2. CASE sessionId = NoSid /\ Return(c)
    BY <2>1, <2>2, <1>0, ReturnType
  <2>3. CASE /\ Goto(c, "load") /\ sid' = [sid EXCEPT ![c] = sessionId]
             /\ UNCHANGED <<kind, mic, blob>>
    <3>1. pc' \in [Calls -> Labels]
      BY <2>3, <1>0, <1>k, GotoType
    <3> QED BY <2>1, <2>3, <3>1, <1>0 DEF CallOK, PageOK
  <2> QED BY <1>1, <2>2, <2>3 DEF Boot
<1>2. CASE OpenHistory(c)
  <2>1. AutoOK' /\ WidgetOK' /\ RecOK'
    BY <1>0, <1>2, Same DEF OpenHistory
  <2>2. PICK s \in Sids : /\ sessionId' = s /\ Call(c, "load", "load")
                          /\ sid' = [sid EXCEPT ![c] = s]
    BY <1>2 DEF OpenHistory
  <2>3. PageOK'
    BY <1>0, <1>2, <2>2 DEF OpenHistory, PageOK
  <2>4. pc' \in [Calls -> Labels] /\ kind' \in [Calls -> Kinds]
    BY <1>0, <1>k, <2>2, CallType
  <2>5. UNCHANGED <<mic, blob>>
    BY <1>2 DEF OpenHistory
  <2>6. CallOK'
    BY <1>0, <2>2, <2>4, <2>5 DEF CallOK
  <2> QED BY <2>1, <2>3, <2>6
<1>3. CASE Loaded(c)
  <2>1. AutoOK' /\ WidgetOK' /\ RecOK'
    BY <1>0, <1>3, Same DEF Loaded
  <2>2. CallOK'
    BY <1>0, <1>3, ReturnType DEF Loaded
  <2>3. PageOK'
    BY <1>0, <1>3, AnswerType DEF Loaded, CallOK
  <2> QED BY <2>1, <2>2, <2>3
<1>4. CASE NewSession(c)
  <2>1. PageOK' /\ RecOK'
    BY <1>0, <1>4, Same DEF NewSession
  <2>2. UNCHANGED <<busy, sendOff, sid, mic, blob>>
    BY <1>4 DEF NewSession
  <2>3. CASE Call(c, "new", "peek") /\ UNCHANGED <<autoVars, recordOff, stopOff>>
    <3>1. AutoOK' /\ WidgetOK'
      BY <1>0, <2>2, <2>3, Same DEF widgetVars
    <3>2. pc' \in [Calls -> Labels] /\ kind' \in [Calls -> Kinds]
      BY <1>0, <1>k, <2>3, CallType
    <3> QED BY <1>0, <2>1, <2>2, <3>1, <3>2 DEF CallOK
  <2>4. CASE Call(c, "new", "create") /\ StopIfEnabled
    <3>1. AutoOK' /\ WidgetOK'
      BY <1>0, <2>2, <2>4, StopType
    <3>2. pc' \in [Calls -> Labels] /\ kind' \in [Calls -> Kinds]
      BY <1>0, <1>k, <2>4, CallType
    <3> QED BY <1>0, <2>1, <2>2, <3>1, <3>2 DEF CallOK
  <2> QED BY <1>4, <2>3, <2>4 DEF NewSession
<1>5. CASE Peeked(c)
  <2>1. PageOK' /\ RecOK' /\ UNCHANGED <<busy, sendOff>>
    BY <1>0, <1>5, Same DEF Peeked
  <2>2. CASE Return(c) /\ UNCHANGED <<autoVars, recordOff, stopOff>>
    <3>1. AutoOK' /\ WidgetOK'
      BY <1>0, <2>1, <2>2, Same DEF widgetVars
    <3> QED BY <1>0, <2>1, <2>2, <3>1, ReturnType
  <2>3. CASE Goto(c, "create") /\ StopIfEnabled /\ UNCHANGED <<kind, sid, mic, blob>>
    <3>1. AutoOK' /\ WidgetOK'
      BY <1>0, <2>1, <2>3, StopType
    <3>2. pc' \in [Calls -> Labels]
      BY <1>0, <1>k, <2>3, GotoType
    <3> QED BY <1>0, <2>1, <2>3, <3>1, <3>2 DEF CallOK
  <2> QED BY <1>5, <2>2, <2>3 DEF Peeked
<1>6. CASE Created(c)
  <2>1. AutoOK' /\ RecOK'
    BY <1>0, <1>6, Same DEF Created
  <2>2. PICK s \in Sids :
          /\ server' = [server EXCEPT ![s] = "live"] /\ sessionId' = s /\ shown' = s
          /\ \/ Return(c) /\ UNCHANGED widgetVars
             \/ Goto(c, "mic") /\ UNCHANGED <<widgetVars, kind, sid, mic, blob>>
             \/ Goto(c, "post") /\ PostTurn(c, s) /\ UNCHANGED <<kind, mic, blob>>
    BY <1>6 DEF Created
  <2>3. PageOK'
    BY <1>0, <1>6, <2>2 DEF Created, PageOK
  <2>4. CASE Return(c) /\ UNCHANGED widgetVars
    BY <1>0, <2>1, <2>3, <2>4, ReturnType, Same
  <2>5. CASE Goto(c, "mic") /\ UNCHANGED <<widgetVars, kind, sid, mic, blob>>
    <3>1. pc' \in [Calls -> Labels]
      BY <1>0, <1>k, <2>5, GotoType
    <3>2. WidgetOK'
      BY <1>0, <2>5, Same
    <3> QED BY <1>0, <2>1, <2>3, <2>5, <3>1, <3>2 DEF CallOK
  <2>6. CASE Goto(c, "post") /\ PostTurn(c, s) /\ UNCHANGED <<kind, mic, blob>>
    <3>1. pc' \in [Calls -> Labels]
      BY <1>0, <1>k, <2>6, GotoType
    <3>2. WidgetOK' /\ sid' \in [Calls -> Sids \cup {NoSid}]
      BY <1>0, <2>6, PostType
    <3> QED BY <1>0, <2>1, <2>3, <2>6, <3>1, <3>2 DEF CallOK
  <2> QED BY <2>2, <2>4, <2>5, <2>6
<1>7. CASE CreateFails(c)
  BY <1>0, <1>7, Same, ReturnType DEF CreateFails
<1> QED BY <1>1, <1>2, <1>3, <1>4, <1>5, <1>6, <1>7

\* Every step keeps the types: turns.
LEMMA TypeTurn ==
  ASSUME TypeOK, NEW c \in Calls,
         Upload(c) \/ SendText(c) \/ Posted(c) \/ PostFails(c) \/ Reloaded(c)
  PROVE  TypeOK'
<1> SUFFICES PageOK' /\ AutoOK' /\ WidgetOK' /\ RecOK' /\ CallOK'
  BY TypeParts
<1>0. PageOK /\ AutoOK /\ WidgetOK /\ RecOK /\ CallOK
  BY TypeParts
<1>k. /\ {"create", "post", "reload"} \subseteq Labels
      /\ {"voice", "text"} \subseteq Kinds
  BY DEF Labels, Kinds
<1>s. sessionId \in Sids \cup {NoSid}
  BY <1>0 DEF PageOK
<1>1. CASE Upload(c)
  <2>1. PageOK' /\ RecOK' /\ UNCHANGED mic
    BY <1>0, <1>1, Same DEF Upload
  <2>2. blob' \in [Calls -> SUBSET Piece]
    BY <1>0, <1>1 DEF Upload, CallOK
  <2>3. CASE Call(c, "voice", "create") /\ StopIfEnabled /\ UNCHANGED <<busy, sendOff, sid>>
    <3>1. AutoOK' /\ WidgetOK'
      BY <1>0, <2>3, StopType
    <3>2. pc' \in [Calls -> Labels] /\ kind' \in [Calls -> Kinds]
      BY <1>0, <1>k, <2>3, CallType
    <3> QED BY <1>0, <2>1, <2>2, <2>3, <3>1, <3>2 DEF CallOK
  <2>4. CASE /\ Call(c, "voice", "post") /\ PostTurn(c, sessionId)
             /\ IF enabled THEN Release ELSE UNCHANGED autoVars
    <3>1. AutoOK'
      BY <1>0, <2>4, ReleaseType, Same
    <3>2. pc' \in [Calls -> Labels] /\ kind' \in [Calls -> Kinds]
      BY <1>0, <1>k, <2>4, CallType
    <3>3. WidgetOK' /\ sid' \in [Calls -> Sids \cup {NoSid}]
      BY <1>0, <1>s, <2>4, PostType
    <3> QED BY <1>0, <2>1, <2>2, <3>1, <3>2, <3>3 DEF CallOK
  <2> QED BY <1>1, <2>3, <2>4 DEF Upload
<1>2. CASE SendText(c)
  <2>1. PageOK' /\ RecOK' /\ UNCHANGED <<mic, blob>>
    BY <1>0, <1>2, Same DEF SendText
  <2>3. CASE Call(c, "text", "create") /\ StopIfEnabled /\ UNCHANGED <<busy, sendOff, sid>>
    <3>1. AutoOK' /\ WidgetOK'
      BY <1>0, <2>3, StopType
    <3>2. pc' \in [Calls -> Labels] /\ kind' \in [Calls -> Kinds]
      BY <1>0, <1>k, <2>3, CallType
    <3> QED BY <1>0, <2>1, <2>3, <3>1, <3>2 DEF CallOK
  <2>4. CASE Call(c, "text", "post") /\ PostTurn(c, sessionId) /\ UNCHANGED autoVars
    <3>1. AutoOK'
      BY <1>0, <2>4, Same
    <3>2. pc' \in [Calls -> Labels] /\ kind' \in [Calls -> Kinds]
      BY <1>0, <1>k, <2>4, CallType
    <3>3. WidgetOK' /\ sid' \in [Calls -> Sids \cup {NoSid}]
      BY <1>0, <1>s, <2>4, PostType
    <3> QED BY <1>0, <2>1, <3>1, <3>2, <3>3 DEF CallOK
  <2> QED BY <1>2, <2>3, <2>4 DEF SendText
<1>3. CASE Posted(c)
  <2>1. PageOK' /\ RecOK'
    BY <1>0, <1>3, Same DEF Posted
  <2>2. CASE /\ Goto(c, "reload") /\ sid' = [sid EXCEPT ![c] = sessionId]
             /\ blob' = [blob EXCEPT ![c] = {}]
             /\ UNCHANGED <<autoVars, widgetVars, kind, mic>>
    <3>1. AutoOK' /\ WidgetOK'
      BY <1>0, <2>2, Same
    <3>2. pc' \in [Calls -> Labels]
      BY <1>0, <1>k, <2>2, GotoType
    <3> QED BY <1>0, <1>s, <2>1, <2>2, <3>1, <3>2 DEF CallOK
  <2>3. CASE EndTurn(c) /\ Return(c)
    BY <1>0, <2>1, <2>3, EndType, ReturnType
  <2> QED BY <1>3, <2>2, <2>3 DEF Posted
<1>4. CASE PostFails(c)
  BY <1>0, <1>4, Same, EndType, ReturnType DEF PostFails
<1>5. CASE Reloaded(c)
  <2>1. PageOK'
    BY <1>0, <1>5, AnswerType DEF Reloaded, CallOK
  <2> QED BY <1>0, <1>5, <2>1, Same, EndType, ReturnType DEF Reloaded
<1> QED BY <1>1, <1>2, <1>3, <1>4, <1>5

\* Every step keeps the types: the start of listening.
LEMMA TypeStart ==
  ASSUME TypeOK, NEW c \in Calls,
         StartListen(c) \/ GotMic(c) \/ Listen(c) \/ StartFails(c)
  PROVE  TypeOK'
<1> SUFFICES PageOK' /\ AutoOK' /\ WidgetOK' /\ RecOK' /\ CallOK'
  BY TypeParts
<1>0. PageOK /\ AutoOK /\ WidgetOK /\ RecOK /\ CallOK
  BY TypeParts
<1>k. /\ {"create", "mic", "resume", "post"} \subseteq Labels
      /\ {"start", "voice"} \subseteq Kinds
  BY DEF Labels, Kinds
<1>1. CASE StartListen(c)
  <2>0. PageOK'
    BY <1>0, <1>1 DEF StartListen, PageOK
  <2>1. PageOK' /\ AutoOK' /\ WidgetOK' /\ RecOK' /\ UNCHANGED <<sid, mic, blob>>
    BY <1>0, <1>1, <2>0, Same DEF StartListen
  <2>2. CASE Call(c, "start", "create")
    BY <1>0, <1>k, <2>1, <2>2, CallType DEF CallOK
  <2>3. CASE Call(c, "start", "mic")
    BY <1>0, <1>k, <2>1, <2>3, CallType DEF CallOK
  <2> QED BY <1>1, <2>2, <2>3 DEF StartListen
<1>2. CASE GotMic(c)
  <2>1. PageOK' /\ WidgetOK' /\ RecOK' /\ Goto(c, "resume")
    BY <1>0, <1>2, Same DEF GotMic
  <2>2. AutoOK'
    BY <1>0, <1>2 DEF GotMic, AutoOK
  <2>3. pc' \in [Calls -> Labels]
    BY <1>0, <1>k, <2>1, GotoType
  <2>4. mic' \in [Calls -> Mics \cup {NoMic}] /\ UNCHANGED <<kind, sid, blob>>
    BY <1>0, <1>2 DEF GotMic, CallOK
  <2> QED BY <1>0, <2>1, <2>2, <2>3, <2>4 DEF CallOK
<1>3. CASE Listen(c)
  <2>1. PageOK' /\ RecOK' /\ CallOK'
    BY <1>0, <1>3, Same, ReturnType DEF Listen
  <2>2. mic[c] \in Mics \cup {NoMic}
    BY <1>0 DEF CallOK
  <2>3. AutoOK'
    BY <1>0, <1>3, <2>2 DEF Listen, AutoOK, Phases
  <2>4. WidgetOK'
    BY <1>0, <1>3 DEF Listen, ListenUi, WidgetOK
  <2> QED BY <2>1, <2>3, <2>4
<1>4. CASE StartFails(c)
  <2>1. PageOK' /\ RecOK' /\ CallOK'
    BY <1>0, <1>4, Same, ReturnType DEF StartFails
  <2>2. AutoOK'
    BY <1>0, <1>4, ReleaseType DEF StartFails, StopAutoListen
  <2>3. WidgetOK'
    BY <1>0, <1>4 DEF StartFails, StopAutoListen, ListenUi, WidgetOK
  <2> QED BY <2>1, <2>2, <2>3
<1> QED BY <1>1, <1>2, <1>3, <1>4

\* Every step keeps the types: the events of a recorder.
LEMMA TypeEvent ==
  ASSUME TypeOK, NEW r \in Recs, RecorderEvent(r) \/ Data(r)
  PROVE  TypeOK'
<1> SUFFICES PageOK' /\ AutoOK' /\ WidgetOK' /\ RecOK' /\ CallOK'
  BY TypeParts
<1>0. PageOK /\ AutoOK /\ WidgetOK /\ RecOK /\ CallOK
  BY TypeParts
<1>k. /\ {"create", "mic", "resume", "post"} \subseteq Labels
      /\ {"start", "voice"} \subseteq Kinds
  BY DEF Labels, Kinds
<1>p. PieceOf(r) \in Piece
  BY PieceType
<1>6. CASE Data(r)
  <2>1. PageOK' /\ WidgetOK' /\ CallOK'
    BY <1>0, <1>6, Same DEF Data
  <2>2. AutoOK' /\ RecOK'
    BY <1>0, <1>6, <1>p DEF Data, AutoOK, RecOK
  <2> QED BY <2>1, <2>2
<1>8. CASE StoppedSilently(r)
  <2>1. PageOK' /\ WidgetOK' /\ CallOK'
    BY <1>0, <1>8, Same DEF StoppedSilently
  <2>2. AutoOK'
    BY <1>0, <1>8, <1>p DEF StoppedSilently, AutoOK
  <2> QED BY <1>0, <1>8, <2>1, <2>2, ForgetType DEF StoppedSilently
<1>9. CASE StoppedShort(r)
  <2>1. PageOK' /\ CallOK'
    BY <1>0, <1>9, Same DEF StoppedShort
  <2>2. /\ RecOK' /\ stopping' \subseteq Recs /\ recorder' \in Recs \cup {NoRec}
        /\ chunks' \subseteq Piece /\ finishing' \in BOOLEAN
    BY <1>0, <1>9, OnStopType DEF StoppedShort
  <2>3. AutoOK'
    BY <1>0, <1>9, <2>2 DEF StoppedShort, AutoOK, Phases
  <2>4. WidgetOK'
    BY <1>0, <1>9 DEF StoppedShort, ListenUi, WidgetOK
  <2> QED BY <2>1, <2>2, <2>3, <2>4
<1>10. ASSUME NEW c \in Calls, StoppedSend(r, c)
       PROVE  PageOK' /\ AutoOK' /\ WidgetOK' /\ RecOK' /\ CallOK'
  <2>1. PageOK' /\ UNCHANGED mic
    BY <1>0, <1>10, Same DEF StoppedSend
  <2>2. /\ RecOK' /\ stopping' \subseteq Recs /\ recorder' \in Recs \cup {NoRec}
        /\ chunks' \subseteq Piece /\ finishing' \in BOOLEAN
    BY <1>0, <1>10, OnStopType DEF StoppedSend
  <2>3. AutoOK'
    BY <1>0, <1>10, <2>2 DEF StoppedSend, AutoOK, Phases
  <2>4. WidgetOK' /\ sid' \in [Calls -> Sids \cup {NoSid}]
    BY <1>0, <1>10, PostType DEF StoppedSend, PageOK
  <2>5. pc' \in [Calls -> Labels] /\ kind' \in [Calls -> Kinds]
    BY <1>0, <1>k, <1>10, CallType DEF StoppedSend
  <2>6. blob' \in [Calls -> SUBSET Piece]
    BY <1>0, <1>10, <1>p DEF StoppedSend, CallOK, AutoOK
  <2> QED BY <1>0, <2>1, <2>2, <2>3, <2>4, <2>5, <2>6 DEF CallOK
<1>11. ASSUME NEW c \in Calls, StoppedCreate(r, c)
       PROVE  PageOK' /\ AutoOK' /\ WidgetOK' /\ RecOK' /\ CallOK'
  <2>1. PageOK' /\ UNCHANGED <<sid, mic>>
    BY <1>0, <1>11 DEF StoppedCreate, PageOK
  <2>2. RecOK'
    BY <1>0, <1>11, ForgetType DEF StoppedCreate
  <2>3. AutoOK'
    BY <1>0, <1>11 DEF StoppedCreate, AutoOK, Phases
  <2>4. WidgetOK'
    BY <1>0, <1>11 DEF StoppedCreate, ListenUi, WidgetOK
  <2>5. pc' \in [Calls -> Labels] /\ kind' \in [Calls -> Kinds]
    BY <1>0, <1>k, <1>11, CallType DEF StoppedCreate
  <2>6. blob' \in [Calls -> SUBSET Piece]
    BY <1>0, <1>11, <1>p DEF StoppedCreate, CallOK, AutoOK
  <2> QED BY <1>0, <2>1, <2>2, <2>3, <2>4, <2>5, <2>6 DEF CallOK
<1> QED BY <1>6, <1>8, <1>9, <1>10, <1>11 DEF RecorderEvent

\* Every step keeps the types: the rest.
LEMMA TypeRest ==
  ASSUME TypeOK,
         \/ BeginRecording \/ FinishRecording \/ StopListen
         \/ \E m \in {"voice", "text"} : SwitchMode(m)
         \/ \E s \in Sids : Deleted(s)
  PROVE  TypeOK'
<1> SUFFICES PageOK' /\ AutoOK' /\ WidgetOK' /\ RecOK' /\ CallOK'
  BY TypeParts
<1>0. PageOK /\ AutoOK /\ WidgetOK /\ RecOK /\ CallOK
  BY TypeParts
<1>1. CASE StopListen
  <2>1. PageOK' /\ RecOK' /\ CallOK'
    BY <1>0, <1>1, Same DEF StopListen
  <2>2. AutoOK'
    BY <1>0, <1>1, ReleaseType DEF StopListen, StopAutoListen
  <2>3. WidgetOK'
    BY <1>0, <1>1 DEF StopListen, StopAutoListen, ListenUi, WidgetOK
  <2> QED BY <2>1, <2>2, <2>3
<1>2. ASSUME NEW m \in {"voice", "text"}, SwitchMode(m)
      PROVE  PageOK' /\ AutoOK' /\ WidgetOK' /\ RecOK' /\ CallOK'
  <2>1. RecOK' /\ CallOK'
    BY <1>0, <1>2, Same DEF SwitchMode
  <2>2. PageOK' /\ UNCHANGED <<busy, sendOff>>
    BY <1>0, <1>2 DEF SwitchMode, PageOK
  <2>3. CASE StopIfEnabled
    BY <1>0, <2>1, <2>2, <2>3, StopType
  <2>4. CASE UNCHANGED <<autoVars, recordOff, stopOff>>
    <3>1. AutoOK' /\ WidgetOK'
      BY <1>0, <2>2, <2>4, Same DEF widgetVars
    <3> QED BY <2>1, <2>2, <3>1
  <2> QED BY <1>2, <2>3, <2>4 DEF SwitchMode
<1>5. CASE BeginRecording
  <2>1. PageOK' /\ CallOK'
    BY <1>0, <1>5, Same DEF BeginRecording
  <2>2. AutoOK'
    BY <1>0, <1>5 DEF BeginRecording, AutoOK, Phases
  <2>3. WidgetOK'
    BY <1>0, <1>5 DEF BeginRecording, ListenUi, WidgetOK
  <2>4. RecOK'
    BY <1>0, <1>5 DEF BeginRecording, RecOK, AutoOK
  <2> QED BY <2>1, <2>2, <2>3, <2>4
<1>7. CASE FinishRecording
  <2>1. PageOK' /\ CallOK' /\ UNCHANGED <<enabled, stream, recorder, chunks, open, busy, sendOff, begun, source>>
    BY <1>0, <1>7, Same DEF FinishRecording
  <2>2. CASE recorder \in taping
    <3>1. /\ finishing' = TRUE /\ hooked' = hooked \cup {recorder}
          /\ taping' = taping \ {recorder} /\ stopping' = stopping \cup {recorder}
          /\ UNCHANGED <<phase, recordOff, stopOff>>
      BY <1>7, <2>2 DEF FinishRecording
    <3>2. recorder \in Recs
      BY <1>0, <2>2 DEF AutoOK
    <3> QED BY <1>0, <2>1, <3>1, <3>2 DEF AutoOK, WidgetOK, RecOK
  <2>3. CASE recorder \notin taping
    <3>1. /\ phase' = "armed" /\ ListenUi(TRUE, "armed", recordOff)
          /\ UNCHANGED <<finishing, hooked, taping, stopping>>
      BY <1>7, <2>3 DEF FinishRecording
    <3>2. AutoOK' /\ RecOK'
      BY <1>0, <2>1, <3>1 DEF AutoOK, RecOK, Phases
    <3>3. WidgetOK'
      BY <1>0, <2>1, <3>1 DEF WidgetOK, ListenUi
    <3> QED BY <2>1, <3>2, <3>3
  <2> QED BY <2>2, <2>3
<1>8. ASSUME NEW s \in Sids, Deleted(s) PROVE PageOK' /\ AutoOK' /\ WidgetOK' /\ RecOK' /\ CallOK'
  <2>1. AutoOK' /\ WidgetOK' /\ RecOK' /\ CallOK'
    BY <1>0, <1>8, Same DEF Deleted
  <2> QED BY <1>0, <1>8, <2>1 DEF Deleted, PageOK
<1> QED BY <1>1, <1>2, <1>5, <1>7, <1>8

LEMMA TypeStep ==
  ASSUME TypeOK, [Next]_vars
  PROVE  TypeOK'
<1>1. CASE UNCHANGED vars
  BY <1>1, TypeParts, Same DEF vars
<1>2. CASE Next
  BY <1>2, TypePage, TypeTurn, TypeStart, TypeEvent, TypeRest DEF Next, Click, Answer
<1> QED BY <1>1, <1>2

-----------------------------------------------------------------------------
(* The flags.                                                              *)

\* A step that keeps the calls that turn keeps what the flags say of them.
LEMMA TurnsKept ==
  ASSUME Flags, \A d \in Calls : Turning(d) => Turning(d)' /\ kind'[d] = kind[d]
  PROVE  /\ busy => \E d \in Calls : Turning(d)'
         /\ enabled /\ phase = "processing" => \E d \in Calls : Turning(d)' /\ kind'[d] = "voice"
BY DEF Flags

\* So does the return, progress or begin of a call that does not.
LEMMA OtherCall ==
  ASSUME TypeOK, NEW c \in Calls, ~Turning(c),
         \/ Return(c)
         \/ \E l : Goto(c, l) /\ kind' = kind
         \/ \E k, l : Call(c, k, l)
  PROVE  \A d \in Calls : Turning(d) => Turning(d)' /\ kind'[d] = kind[d]
BY DEF TypeOK, Turning, Return, Goto, Call

LEMMA StopFlags ==
  ASSUME TypeOK, Flags, StopIfEnabled, UNCHANGED <<busy, sendOff, hooked>>,
         \A d \in Calls : Turning(d) => Turning(d)' /\ kind'[d] = kind[d]
  PROVE  Flags'
<1>0. busy => \E d \in Calls : Turning(d)'
  BY TurnsKept
<1>1. CASE enabled
  <2>1. /\ enabled' = FALSE /\ finishing' = FALSE
        /\ recordOff' = (busy /\ recordOff)
    BY <1>1 DEF StopIfEnabled, StopAutoListen, Release, ListenUi, RecordOffStopped
  <2> QED BY <1>0, <2>1 DEF Flags, Turning
<1>2. CASE ~enabled
  <2>1. UNCHANGED <<autoVars, recordOff, stopOff>>
    BY <1>2 DEF StopIfEnabled
  <2> QED BY <1>0, <1>2, <2>1 DEF Flags, Turning, autoVars
<1> QED BY <1>1, <1>2

\* A step that leaves widgets and autoVoice alone.
LEMMA IdleFlags ==
  ASSUME Flags, UNCHANGED <<autoVars, widgetVars, hooked>>,
         \A d \in Calls : Turning(d) => Turning(d)' /\ kind'[d] = kind[d]
  PROVE  Flags'
<1>1. /\ busy => \E d \in Calls : Turning(d)'
      /\ enabled /\ phase = "processing" => \E d \in Calls : Turning(d)' /\ kind'[d] = "voice"
  BY TurnsKept
<1> QED BY <1>1 DEF Flags, Turning, autoVars, widgetVars

\* A turn is sent: busy until its call ends.
LEMMA PostFlags ==
  ASSUME TypeOK, Flags, NEW c \in Calls, NEW s, ~Turning(c), PostTurn(c, s),
         pc' = [pc EXCEPT ![c] = "post"],
         \A d \in Calls : d # c => kind'[d] = kind[d],
         UNCHANGED <<autoVars, hooked>>
  PROVE  Flags'
<1>1. Turning(c)' /\ \A d \in Calls : Turning(d) => Turning(d)'
  BY DEF TypeOK, Turning
<1>2. \A d \in Calls : Turning(d) => Turning(d)' /\ kind'[d] = kind[d]
  BY <1>1
<1>3. enabled /\ phase = "processing" => \E d \in Calls : Turning(d)' /\ kind'[d] = "voice"
  BY <1>2, TurnsKept
<1> QED BY <1>1, <1>3 DEF Flags, Turning, PostTurn, autoVars

\* A turn ends: nothing waits for its call any more.
LEMMA EndFlags ==
  ASSUME TypeOK, Flags, NEW c \in Calls, Turning(c), EndTurn(c), Return(c), UNCHANGED hooked
  PROVE  Flags'
<1>1. \A d \in Calls : d # c /\ Turning(d) => Turning(d)' /\ kind'[d] = kind[d]
  BY DEF TypeOK, Turning, Return
<1>2. CASE kind[c] = "voice"
  <2>1. busy' = FALSE /\ sendOff' = FALSE /\ enabled' = enabled
    BY <1>2 DEF EndTurn, EndVoice, autoVars
  <2>2. CASE enabled
    <3>1. phase' = "armed" /\ finishing' = FALSE /\ stopOff' = FALSE
      BY <1>2, <2>2 DEF EndTurn, EndVoice, ListenUi
    <3> QED BY <2>1, <2>2, <3>1 DEF Flags
  <2>3. CASE ~enabled
    <3>1. recordOff' = FALSE /\ UNCHANGED autoVars
      BY <1>2, <2>3 DEF EndTurn, EndVoice
    <3> QED BY <2>1, <2>3, <3>1 DEF Flags, autoVars
  <2> QED BY <2>2, <2>3
<1>3. CASE kind[c] # "voice"
  <2>1. /\ busy' = FALSE /\ sendOff' = FALSE /\ recordOff' = enabled
        /\ stopOff' = (~enabled \/ phase = "processing") /\ UNCHANGED autoVars
    BY <1>3 DEF EndTurn, EndText
  <2>2. enabled /\ phase = "processing" => \E d \in Calls : Turning(d)' /\ kind'[d] = "voice"
    BY <1>1, <1>3 DEF Flags
  <2> QED BY <2>1, <2>2 DEF Flags, Turning, autoVars
<1> QED BY <1>2, <1>3

\* Every step keeps the flags: conversations.
LEMMA FlagsPage ==
  ASSUME TypeOK, Flags, NEW c \in Calls,
         \/ Boot(c) \/ OpenHistory(c) \/ Loaded(c) \/ NewSession(c) \/ Peeked(c)
         \/ Created(c) \/ CreateFails(c) \/ StartListen(c)
  PROVE  Flags'
<1>1. CASE Boot(c) \/ OpenHistory(c) \/ Loaded(c) \/ CreateFails(c) \/ StartListen(c)
  <2>1. UNCHANGED <<autoVars, widgetVars, hooked>> /\ ~Turning(c)
    BY <1>1 DEF Boot, OpenHistory, Loaded, CreateFails, StartListen, recVars, Turning, Call
  <2>2. \A d \in Calls : Turning(d) => Turning(d)' /\ kind'[d] = kind[d]
    BY <1>1, <2>1, OtherCall DEF Boot, OpenHistory, Loaded, CreateFails, StartListen
  <2> QED BY <2>1, <2>2, IdleFlags
<1>2. CASE NewSession(c) \/ Peeked(c)
  <2>1. UNCHANGED <<busy, sendOff, hooked>> /\ ~Turning(c)
    BY <1>2 DEF NewSession, Peeked, recVars, Turning, Call
  <2>2. \A d \in Calls : Turning(d) => Turning(d)' /\ kind'[d] = kind[d]
    BY <1>2, <2>1, OtherCall DEF NewSession, Peeked
  <2>3. StopIfEnabled \/ UNCHANGED <<autoVars, recordOff, stopOff>>
    BY <1>2 DEF NewSession, Peeked
  <2>4. CASE UNCHANGED <<autoVars, recordOff, stopOff>>
    BY <2>1, <2>2, <2>4, IdleFlags DEF widgetVars
  <2> QED BY <2>1, <2>2, <2>3, <2>4, StopFlags
<1>3. CASE Created(c)
  <2>1. UNCHANGED <<autoVars, hooked>> /\ ~Turning(c)
    BY <1>3 DEF Created, recVars, Turning
  <2>2. CASE UNCHANGED widgetVars /\ (Return(c) \/ (Goto(c, "mic") /\ kind' = kind))
    <3>1. \A d \in Calls : Turning(d) => Turning(d)' /\ kind'[d] = kind[d]
      BY <2>1, <2>2, OtherCall
    <3> QED BY <2>1, <2>2, <3>1, IdleFlags
  <2>3. ASSUME NEW s \in Sids, Goto(c, "post"), PostTurn(c, s), kind' = kind PROVE Flags'
    BY <2>1, <2>3, PostFlags DEF Goto
  <2> QED BY <1>3, <2>2, <2>3 DEF Created
<1> QED BY <1>1, <1>2, <1>3

\* Every step keeps the flags: turns.
LEMMA FlagsTurn ==
  ASSUME TypeOK, Flags, NEW c \in Calls,
         Upload(c) \/ SendText(c) \/ Posted(c) \/ PostFails(c) \/ Reloaded(c)
  PROVE  Flags'
<1>1. CASE Upload(c) \/ SendText(c)
  <2>1. UNCHANGED hooked /\ ~Turning(c)
    BY <1>1 DEF Upload, SendText, recVars, Turning, Call
  <2>2. CASE StopIfEnabled /\ UNCHANGED <<busy, sendOff>> /\ \E k : Call(c, k, "create")
    <3>1. \A d \in Calls : Turning(d) => Turning(d)' /\ kind'[d] = kind[d]
      BY <2>1, <2>2, OtherCall
    <3> QED BY <2>1, <2>2, <3>1, StopFlags
  <2>3. CASE /\ PostTurn(c, sessionId) /\ \E k : Call(c, k, "post")
             /\ UNCHANGED autoVars
    <3>1. pc' = [pc EXCEPT ![c] = "post"] /\ \A d \in Calls : d # c => kind'[d] = kind[d]
      BY <2>3 DEF Call, Goto, TypeOK
    <3> QED BY <2>1, <2>3, <3>1, PostFlags
  <2>4. CASE PostTurn(c, sessionId) /\ (\E k : Call(c, k, "post")) /\ Release
    <3>1. Turning(c)'
      BY <2>4 DEF Call, Goto, TypeOK, Turning
    <3>2. enabled' = FALSE /\ finishing' = FALSE /\ busy'
      BY <2>4 DEF Release, PostTurn
    <3> QED BY <3>1, <3>2 DEF Flags, Turning
  <2> QED BY <1>1, <2>2, <2>3, <2>4 DEF Upload, SendText
<1>2. CASE Posted(c)
  <2>1. UNCHANGED hooked /\ Turning(c)
    BY <1>2 DEF Posted, recVars, Turning
  <2>2. CASE Goto(c, "reload") /\ UNCHANGED <<autoVars, widgetVars, kind>>
    <3>1. \A d \in Calls : Turning(d) => Turning(d)' /\ kind'[d] = kind[d]
      BY <2>2 DEF Goto, TypeOK, Turning
    <3> QED BY <2>1, <2>2, <3>1, IdleFlags
  <2>3. CASE EndTurn(c) /\ Return(c)
    BY <2>1, <2>3, EndFlags
  <2> QED BY <1>2, <2>2, <2>3 DEF Posted
<1>3. CASE PostFails(c)
  BY <1>3, EndFlags DEF PostFails, recVars, Turning
<1>4. CASE Reloaded(c)
  BY <1>4, EndFlags DEF Reloaded, recVars, Turning
<1> QED BY <1>1, <1>2, <1>3, <1>4

\* Every step keeps the flags: the start of listening.
LEMMA FlagsStart ==
  ASSUME TypeOK, Flags, NEW c \in Calls, GotMic(c) \/ Listen(c) \/ StartFails(c)
  PROVE  Flags'
<1>1. ~Turning(c) /\ UNCHANGED <<busy, sendOff, hooked>>
  BY DEF GotMic, Listen, StartFails, Turning, recVars, widgetVars
<1>2. \A d \in Calls : Turning(d) => Turning(d)' /\ kind'[d] = kind[d]
  BY <1>1, OtherCall DEF GotMic, Listen, StartFails
<1>3. busy => \E d \in Calls : Turning(d)'
  BY <1>2, TurnsKept
<1>4. CASE GotMic(c)
  <2>1. UNCHANGED <<enabled, phase, recorder, finishing, stopping, widgetVars>>
    BY <1>4 DEF GotMic
  <2>2. enabled /\ phase = "processing" => \E d \in Calls : Turning(d)' /\ kind'[d] = "voice"
    BY <1>2, TurnsKept
  <2> QED BY <1>1, <1>3, <2>1, <2>2 DEF Flags, Turning, widgetVars
<1>5. CASE Listen(c)
  <2>1. enabled' = TRUE /\ phase' = "armed" /\ finishing' = FALSE /\ stopOff' = FALSE
    BY <1>5 DEF Listen, ListenUi
  <2> QED BY <1>1, <1>3, <2>1 DEF Flags, Turning
<1>6. CASE StartFails(c)
  <2>1. enabled' = FALSE /\ finishing' = FALSE /\ recordOff' = (busy /\ recordOff)
    BY <1>6 DEF StartFails, StopAutoListen, Release, ListenUi, RecordOffStopped
  <2> QED BY <1>1, <1>3, <2>1 DEF Flags, Turning
<1> QED BY <1>4, <1>5, <1>6

\* Every step keeps the flags: the events of a recorder.
LEMMA FlagsEvent ==
  ASSUME TypeOK, Flags, NEW r \in Recs, RecorderEvent(r) \/ Data(r)
  PROVE  Flags'
<1>1. CASE Data(r) \/ StoppedSilently(r)
  <2>1. /\ UNCHANGED <<enabled, phase, recorder, finishing, busy, recordOff, stopOff, sendOff>>
        /\ UNCHANGED <<pc, kind>>
    BY <1>1 DEF Data, StoppedSilently, widgetVars, callVars
  <2>2. finishing => recorder \in stopping' /\ recorder \in hooked'
    BY <1>1 DEF Data, StoppedSilently, Forget, Flags
  <2> QED BY <2>1, <2>2 DEF Flags, Turning
<1>2. CASE StoppedShort(r)
  <2>1. /\ UNCHANGED <<enabled, busy, sendOff, pc, kind>> /\ finishing' = FALSE
        /\ phase' = IF enabled THEN "armed" ELSE "off"
        /\ recordOff' = (recordOff \/ (enabled /\ phase' # "off"))
        /\ stopOff' = (~enabled \/ phase' \in {"off", "processing"})
    BY <1>2 DEF StoppedShort, OnStop, ListenUi, callVars
  <2>2. CASE enabled
    <3>1. phase' = "armed" /\ stopOff' = FALSE
      BY <2>1, <2>2
    <3> QED BY <2>1, <2>2, <3>1 DEF Flags, Turning
  <2>3. CASE ~enabled
    BY <2>1, <2>3 DEF Flags, Turning
  <2> QED BY <2>2, <2>3 DEF TypeOK
<1>3. ASSUME NEW c \in Calls, StoppedSend(r, c) PROVE Flags'
  <2>1. /\ finishing' = FALSE /\ phase' = "processing" /\ enabled' = enabled
        /\ busy' = TRUE /\ sendOff' = TRUE
    BY <1>3 DEF StoppedSend, OnStop, PostTurn
  <2>2. Turning(c)' /\ kind'[c] = "voice"
    BY <1>3 DEF StoppedSend, Call, Goto, TypeOK, Turning
  <2> QED BY <2>1, <2>2 DEF Flags, Turning
<1>4. ASSUME NEW c \in Calls, StoppedCreate(r, c) PROVE Flags'
  <2>1. /\ finishing' = FALSE /\ enabled' = FALSE /\ UNCHANGED <<busy, sendOff>>
        /\ recordOff' = IF enabled THEN busy /\ recordOff ELSE recordOff
    BY <1>4 DEF StoppedCreate, ListenUi, RecordOffStopped, TypeOK
  <2>2. Call(c, "voice", "create") /\ ~Turning(c)
    BY <1>4 DEF StoppedCreate, Call, Turning
  <2>3. \A d \in Calls : Turning(d) => Turning(d)' /\ kind'[d] = kind[d]
    BY <2>2, OtherCall
  <2>4. busy => \E d \in Calls : Turning(d)'
    BY <2>3, TurnsKept
  <2>5. recordOff' => busy
    BY <2>1 DEF Flags
  <2> QED BY <2>1, <2>4, <2>5 DEF Flags, Turning
<1> QED BY <1>1, <1>2, <1>3, <1>4 DEF RecorderEvent

\* Every step keeps the flags: the rest.
LEMMA FlagsRest ==
  ASSUME TypeOK, Flags,
         \/ BeginRecording \/ FinishRecording \/ StopListen
         \/ \E m \in {"voice", "text"} : SwitchMode(m)
         \/ \E s \in Sids : Deleted(s)
  PROVE  Flags'
<1>1. UNCHANGED <<busy, sendOff, pc, kind>>
  BY DEF BeginRecording, FinishRecording, StopListen, SwitchMode, Deleted, widgetVars, callVars
<1>2. \A d \in Calls : Turning(d) => Turning(d)' /\ kind'[d] = kind[d]
  BY <1>1 DEF Turning
<1>3. CASE BeginRecording
  <2>1. /\ enabled /\ enabled' = TRUE /\ phase' = "speaking" /\ ~finishing /\ finishing' = finishing
        /\ stopOff' = FALSE
    BY <1>3 DEF BeginRecording, ListenUi
  <2> QED BY <1>1, <2>1 DEF Flags, Turning
<1>4. CASE FinishRecording
  <2>1. enabled /\ phase = "speaking" /\ ~finishing /\ UNCHANGED <<enabled, recorder>>
    BY <1>4 DEF FinishRecording
  <2>2. CASE recorder \in taping
    <3>1. /\ recorder \in hooked' /\ recorder \in stopping'
          /\ UNCHANGED <<phase, recordOff, stopOff>>
      BY <1>4, <2>2 DEF FinishRecording
    <3> QED BY <1>1, <2>1, <3>1 DEF Flags, Turning
  <2>3. CASE recorder \notin taping
    <3>1. phase' = "armed" /\ finishing' = finishing /\ stopOff' = FALSE
      BY <1>4, <2>3 DEF FinishRecording, ListenUi
    <3> QED BY <1>1, <2>1, <3>1 DEF Flags, Turning
  <2> QED BY <2>2, <2>3
<1>5. CASE StopListen
  <2>1. StopIfEnabled /\ UNCHANGED hooked
    BY <1>5 DEF StopListen, StopIfEnabled, recVars
  <2> QED BY <1>1, <1>2, <2>1, StopFlags
<1>6. ASSUME NEW m \in {"voice", "text"}, SwitchMode(m) PROVE Flags'
  <2>1. UNCHANGED hooked /\ (StopIfEnabled \/ UNCHANGED <<autoVars, recordOff, stopOff>>)
    BY <1>6 DEF SwitchMode, recVars
  <2>2. CASE UNCHANGED <<autoVars, recordOff, stopOff>>
    BY <1>1, <1>2, <2>1, <2>2, IdleFlags DEF widgetVars
  <2> QED BY <1>1, <1>2, <2>1, <2>2, StopFlags
<1>7. ASSUME NEW s \in Sids, Deleted(s) PROVE Flags'
  BY <1>2, <1>7, IdleFlags DEF Deleted, recVars
<1> QED BY <1>3, <1>4, <1>5, <1>6, <1>7

LEMMA InitInv ==
  ASSUME Init
  PROVE  CInv
<1>1. PICK c \in Calls :
        /\ pc = [d \in Calls |-> IF d = c THEN "boot" ELSE "idle"]
        /\ kind = [d \in Calls |-> IF d = c THEN "boot" ELSE "none"]
  BY DEF Init
<1>2. PageOK /\ AutoOK /\ WidgetOK /\ RecOK
  BY ClientAssumption DEF Init, PageOK, AutoOK, WidgetOK, RecOK, Phases
<1>3. CallOK
  BY <1>1 DEF Init, CallOK, Labels, Kinds
<1>4. Flags
  BY DEF Init, Flags
<1> QED BY <1>2, <1>3, <1>4, TypeParts DEF CInv

LEMMA StepInv ==
  ASSUME CInv, [Next]_vars
  PROVE  CInv'
<1>1. TypeOK'
  BY TypeStep DEF CInv
<1>2. CASE Next
  BY <1>1, <1>2, FlagsPage, FlagsTurn, FlagsStart, FlagsEvent, FlagsRest
  DEF CInv, Next, Click, Answer
<1>3. CASE UNCHANGED vars
  <2>1. Flags'
    BY <1>3, IdleFlags DEF CInv, vars, recVars, callVars, Turning
  <2> QED BY <1>1, <2>1 DEF CInv
<1> QED BY <1>2, <1>3

\* The page's globals, widgets and calls keep their types in every behaviour
\* of app.js (TypeOK), and each flag that is set has somebody who will clear
\* it (Flags).
THEOREM CInvHolds == Spec => []CInv
BY InitInv, StepInv, PTL DEF Spec

\* TypeOK of the page: no handler puts phase, the recorder or the label of a
\* call outside of the values the other handlers know.
THEOREM TypeHolds == Spec => []TypeOK
<1>1. CInv => TypeOK
  BY DEF CInv
<1> QED BY <1>1, CInvHolds, PTL

\* Operable: whatever overlapped, once no call is under way and no recorder
\* event is outstanding the page is not busy, text can be sent and listening
\* can be stopped or started (setTurnBusy, updateListenUi, stopAutoListen).
THEOREM OperableHolds == Spec => []Operable
<1>1. ASSUME CInv PROVE Operable
  <2> SUFFICES ASSUME Quiet
               PROVE  /\ ~busy /\ ~sendOff
                      /\ enabled => phase \in {"armed", "speaking"} /\ ~finishing /\ ~stopOff
                      /\ ~enabled => ~recordOff
    BY DEF Operable
  <2>1. \A c \in Calls : ~Turning(c)
    BY DEF Quiet, Turning
  <2>2. ~busy /\ ~sendOff
    BY <1>1, <2>1 DEF CInv, Flags
  <2>3. ~finishing
    BY <1>1 DEF CInv, Flags, Quiet
  <2>4. enabled => phase \in {"armed", "speaking"}
    BY <1>1, <2>1 DEF CInv, Flags, TypeOK, Phases
  <2> QED BY <1>1, <2>2, <2>3, <2>4 DEF CInv, Flags
<1> QED BY <1>1, CInvHolds, PTL

-----------------------------------------------------------------------------
(* The microphone, for a user who does not click Start again while a start *)
(* is under way and a browser that completes a start once it has given the *)
(* stream: without either a stream may be left in nobody's hands.          *)

Waiting(c) == pc[c] \in {"mic", "resume"}

\* At most one start is under way, only while listening is off, and it alone
\* can hold a stream that autoVoice does not know.
Starts ==
    /\ ~enabled => stream = NoMic
    /\ \A c \in Calls : Waiting(c) => kind[c] = "start"
    /\ \A c, d \in Calls : kind[c] = "start" /\ kind[d] = "start" => c = d
    /\ \A c \in Calls : kind[c] = "start" => ~enabled

MInv == TypeOK /\ Starts /\ MicAccounted

\* No call begins a start, gets a stream or gives up one.
NoStart ==
    \A d \in Calls :
        /\ pc[d] = "resume" => pc'[d] = "resume" /\ mic'[d] = mic[d]
        /\ pc'[d] \in {"mic", "resume"} => kind'[d] = "start"
        /\ kind'[d] = "start" => kind[d] = "start"

LEMMA MicFrame ==
  ASSUME MInv, NoStart,
         \/ UNCHANGED <<enabled, stream, open>>
         \/ enabled' = FALSE /\ stream' = NoMic /\ open' = open \ {stream}
  PROVE  Starts' /\ MicAccounted'
<1>1. Starts'
  BY DEF MInv, Starts, NoStart, Waiting
<1>2. ASSUME NEW m \in open', m # stream'
      PROVE  \E d \in Calls : pc'[d] = "resume" /\ mic'[d] = m
  <2>1. m \in open /\ m # stream
    BY <1>2
  <2>2. PICK d \in Calls : pc[d] = "resume" /\ mic[d] = m
    BY <2>1 DEF MInv, MicAccounted
  <2> QED BY <2>2 DEF NoStart
<1> QED BY <1>1, <1>2 DEF MicAccounted

\* Calls that return, go on or begin without having to do with a start.
LEMMA ReturnNoStart ==
  ASSUME MInv, NEW c \in Calls, pc[c] # "resume", Return(c)
  PROVE  NoStart
BY DEF MInv, TypeOK, Starts, Waiting, Return, NoStart

LEMMA GotoNoStart ==
  ASSUME MInv, NEW c \in Calls, pc[c] # "resume", NEW l, Goto(c, l), UNCHANGED <<kind, mic>>,
         l \in {"mic", "resume"} => kind[c] = "start"
  PROVE  NoStart
BY DEF MInv, TypeOK, Starts, Waiting, Goto, NoStart

LEMMA CallNoStart ==
  ASSUME MInv, NEW c \in Calls, NEW k, NEW l, Call(c, k, l), UNCHANGED mic,
         k # "start", l \notin {"mic", "resume"}
  PROVE  NoStart
BY DEF MInv, TypeOK, Starts, Waiting, Call, Goto, NoStart

LEMMA IdleNoStart ==
  ASSUME MInv, UNCHANGED callVars
  PROVE  NoStart
BY DEF MInv, Starts, Waiting, callVars, NoStart

\* What the handlers do to the stream of autoVoice: nothing, or they stop it.
LEMMA StopStream ==
  ASSUME Release \/ StopIfEnabled \/ UNCHANGED autoVars
  PROVE  \/ UNCHANGED <<enabled, stream, open>>
         \/ enabled' = FALSE /\ stream' = NoMic /\ open' = open \ {stream}
BY DEF Release, StopIfEnabled, StopAutoListen, autoVars

LEMMA EndStream ==
  ASSUME NEW c \in Calls, EndTurn(c)
  PROVE  UNCHANGED <<enabled, stream, open>>
BY DEF EndTurn, EndVoice, EndText, autoVars

LEMMA MicCalls ==
  ASSUME MInv, NEW c \in Calls,
         \/ Boot(c) \/ OpenHistory(c) \/ Loaded(c) \/ NewSession(c) \/ Peeked(c)
         \/ Created(c) \/ CreateFails(c)
         \/ Upload(c) \/ SendText(c) \/ Posted(c) \/ PostFails(c) \/ Reloaded(c)
  PROVE  Starts' /\ MicAccounted'
<1>1. CASE Boot(c) \/ Loaded(c) \/ Peeked(c) \/ Created(c) \/ CreateFails(c)
  <2>1. pc[c] # "resume"
    BY <1>1 DEF Boot, Loaded, Peeked, Created, CreateFails
  <2>2. Return(c) \/ \E l : /\ Goto(c, l) /\ UNCHANGED <<kind, mic>>
                            /\ l \in {"mic", "resume"} => kind[c] = "start"
    BY <1>1 DEF Boot, Loaded, Peeked, Created, CreateFails
  <2>3. NoStart
    BY <2>1, <2>2, ReturnNoStart, GotoNoStart
  <2>4. StopIfEnabled \/ UNCHANGED autoVars
    BY <1>1 DEF Boot, Loaded, Peeked, Created, CreateFails
  <2> QED BY <2>3, <2>4, StopStream, MicFrame
<1>2. CASE OpenHistory(c) \/ NewSession(c) \/ Upload(c) \/ SendText(c)
  <2>1. UNCHANGED mic /\ \E k, l : Call(c, k, l) /\ k # "start" /\ l \notin {"mic", "resume"}
    BY <1>2 DEF OpenHistory, NewSession, Upload, SendText
  <2>2. NoStart
    BY <2>1, CallNoStart
  <2>3. Release \/ StopIfEnabled \/ UNCHANGED autoVars
    BY <1>2 DEF OpenHistory, NewSession, Upload, SendText
  <2> QED BY <2>2, <2>3, StopStream, MicFrame
<1>3. CASE Posted(c) \/ PostFails(c) \/ Reloaded(c)
  <2>1. pc[c] # "resume"
    BY <1>3 DEF Posted, PostFails, Reloaded
  <2>2. Return(c) \/ (Goto(c, "reload") /\ UNCHANGED <<kind, mic>>)
    BY <1>3 DEF Posted, PostFails, Reloaded
  <2>3. NoStart
    BY <2>1, <2>2, ReturnNoStart, GotoNoStart
  <2>4. UNCHANGED <<enabled, stream, open>>
    BY <1>3, EndStream DEF Posted, PostFails, Reloaded, autoVars
  <2> QED BY <2>3, <2>4, MicFrame
<1> QED BY <1>1, <1>2, <1>3

LEMMA MicEvents ==
  ASSUME MInv,
         \/ BeginRecording \/ FinishRecording \/ StopListen
         \/ \E m \in {"voice", "text"} : SwitchMode(m)
         \/ \E s \in Sids : Deleted(s)
         \/ \E r \in Recs : RecorderEvent(r) \/ Data(r)
  PROVE  Starts' /\ MicAccounted'
<1>1. CASE \/ BeginRecording \/ FinishRecording
           \/ \E s \in Sids : Deleted(s)
           \/ \E r \in Recs : Data(r) \/ StoppedSilently(r) \/ StoppedShort(r)
  <2>1. UNCHANGED callVars /\ UNCHANGED <<enabled, stream, open>>
    BY <1>1 DEF BeginRecording, FinishRecording, Deleted, Data, StoppedSilently,
                StoppedShort, autoVars
  <2> QED BY <2>1, IdleNoStart, MicFrame
<1>2. CASE StopListen \/ \E m \in {"voice", "text"} : SwitchMode(m)
  <2>1. UNCHANGED callVars /\ (Release \/ StopIfEnabled \/ UNCHANGED autoVars)
    BY <1>2 DEF StopListen, SwitchMode, StopAutoListen
  <2> QED BY <2>1, StopStream, IdleNoStart, MicFrame
<1>3. ASSUME NEW r \in Recs, NEW c \in Calls, StoppedSend(r, c)
      PROVE  Starts' /\ MicAccounted'
  <2>1. NoStart
    BY <1>3, CallNoStart DEF StoppedSend
  <2> QED BY <1>3, <2>1, MicFrame DEF StoppedSend
<1>4. ASSUME NEW r \in Recs, NEW c \in Calls, StoppedCreate(r, c)
      PROVE  Starts' /\ MicAccounted'
  <2>1. NoStart
    BY <1>4, CallNoStart DEF StoppedCreate
  <2>2. CASE enabled
    BY <1>4, <2>1, <2>2, MicFrame DEF StoppedCreate
  <2>3. CASE ~enabled
    <3>1. UNCHANGED <<enabled, stream, open>>
      BY <1>4, <2>3 DEF StoppedCreate, MInv, TypeOK
    <3> QED BY <2>1, <3>1, MicFrame
  <2> QED BY <2>2, <2>3
<1> QED BY <1>1, <1>2, <1>3, <1>4 DEF RecorderEvent

LEMMA MicStart ==
  ASSUME MInv, "again" \notin Acts, NEW c \in Calls,
         StartListen(c) \/ GotMic(c) \/ Listen(c)
  PROVE  Starts' /\ MicAccounted'
<1>1. CASE StartListen(c)
  <2>1. /\ \A d \in Calls : kind[d] # "start"
        /\ ~enabled /\ pc[c] = "idle" /\ UNCHANGED <<enabled, stream, open, mic>>
    BY <1>1 DEF StartListen, Starting, autoVars, Call
  <2>2. /\ kind' = [kind EXCEPT ![c] = "start"]
        /\ pc' = [pc EXCEPT ![c] = IF sessionId = NoSid THEN "create" ELSE "mic"]
    BY <1>1 DEF StartListen, Call, Goto
  <2>3. Starts'
    BY <2>1, <2>2 DEF MInv, TypeOK, Starts, Waiting
  <2>4. \A d \in Calls : pc[d] = "resume" => pc'[d] = "resume"
    BY <2>1, <2>2 DEF MInv, TypeOK
  <2> QED BY <2>1, <2>3, <2>4 DEF MInv, MicAccounted
<1>2. CASE GotMic(c)
  <2>1. PICK m \in Mics : open' = open \cup {m} /\ mic' = [mic EXCEPT ![c] = m]
    BY <1>2 DEF GotMic
  <2>2. /\ pc[c] = "mic" /\ pc' = [pc EXCEPT ![c] = "resume"]
        /\ UNCHANGED <<enabled, stream, kind>>
    BY <1>2 DEF GotMic, Goto
  <2>3. Starts'
    BY <2>2 DEF MInv, TypeOK, Starts, Waiting
  <2>4. ASSUME NEW n \in open', n # stream'
        PROVE  \E d \in Calls : pc'[d] = "resume" /\ mic'[d] = n
    <3>1. CASE n = m
      BY <2>1, <2>2, <3>1 DEF MInv, TypeOK
    <3>2. CASE n # m
      <4>1. PICK d \in Calls : pc[d] = "resume" /\ mic[d] = n
        BY <2>1, <2>2, <2>4, <3>2 DEF MInv, MicAccounted
      <4> QED BY <2>1, <2>2, <4>1 DEF MInv, TypeOK
    <3> QED BY <3>1, <3>2
  <2> QED BY <2>3, <2>4 DEF MicAccounted
<1>3. CASE Listen(c)
  <2>1. /\ pc[c] = "resume" /\ enabled' = TRUE /\ stream' = mic[c] /\ UNCHANGED open
        /\ Return(c)
    BY <1>3 DEF Listen
  <2>2. kind[c] = "start" /\ ~enabled /\ stream = NoMic
    BY <2>1 DEF MInv, Starts, Waiting
  <2>3. \A d \in Calls : kind'[d] # "start"
    BY <2>1, <2>2 DEF MInv, TypeOK, Starts, Return
  <2>4. \A d \in Calls : ~(pc'[d] \in {"mic", "resume"})
    BY <2>1, <2>2 DEF MInv, TypeOK, Starts, Waiting, Return
  <2>5. Starts'
    BY <2>1, <2>3, <2>4 DEF Starts, Waiting
  <2>6. ASSUME NEW n \in open PROVE n = mic[c]
    <3>1. n # stream
      BY <2>2, ClientAssumption DEF MInv, TypeOK
    <3>2. PICK d \in Calls : pc[d] = "resume" /\ mic[d] = n
      BY <3>1 DEF MInv, MicAccounted
    <3>3. d = c
      BY <2>2, <3>2 DEF MInv, Starts, Waiting
    <3> QED BY <3>2, <3>3
  <2> QED BY <2>1, <2>5, <2>6 DEF MicAccounted
<1> QED BY <1>1, <1>2, <1>3

\* MicAccounted: with listening off and no start under way no track is left
\* running, for a user who waits for a start and a browser that completes it
\* (startAutoListen, releaseAutoVoiceStream).
THEOREM MicHolds ==
  ASSUME "again" \notin Acts, "deaf" \notin Acts
  PROVE  Spec => []MicAccounted
<1>1. ASSUME Init PROVE MInv
  <2>1. TypeOK
    BY <1>1, InitInv DEF CInv
  <2>2. Starts /\ MicAccounted
    BY <1>1 DEF Init, Starts, MicAccounted, Waiting
  <2> QED BY <2>1, <2>2 DEF MInv
<1>2. ASSUME MInv, [Next]_vars PROVE MInv'
  <2>1. TypeOK'
    BY <1>2, TypeStep DEF MInv
  <2>2. CASE Next
    <3>1. \A c \in Calls : ~StartFails(c)
      BY DEF StartFails
    <3> QED BY <1>2, <2>1, <2>2, <3>1, MicCalls, MicEvents, MicStart
            DEF MInv, Next, Click, Answer
  <2>3. CASE UNCHANGED vars
    <3>1. NoStart /\ UNCHANGED <<enabled, stream, open>>
      BY <1>2, <2>3, IdleNoStart DEF vars, autoVars
    <3> QED BY <1>2, <2>1, <3>1, MicFrame DEF MInv
  <2> QED BY <1>2, <2>2, <2>3
<1>3. MInv => MicAccounted
  BY DEF MInv
<1> QED BY <1>1, <1>2, <1>3, PTL DEF Spec
-----------------------------------------------------------------------------
(* One turn at a time, whole utterances: for a user who waits for a start  *)
(* and stays with the microphone (no other tab, upload or new conversation *)
(* while it listens).  Conversations may be switched and deleted, requests *)
(* fail, an error be taken for "not found", the microphone be refused.     *)
(* With any of the other acts a second turn or recorder may run beside the *)
(* first one; so may it once an utterance finds no session open, until     *)
(* listening is started with nothing under way.                            *)

Patience ==
    Acts \subseteq {"start", "stop", "history", "gone", "lost", "error", "deaf"}

\* A start is under way only while listening is off, a turn only while it
\* is on and waits for that turn.
Orderly ==
    /\ \A c \in Calls :
        /\ kind[c] \notin {"new", "text"} /\ pc[c] # "peek"
        /\ pc[c] \in {"create", "mic", "resume"} => kind[c] = "start"
        /\ kind[c] = "voice" <=> Turning(c)
        /\ kind[c] = "start" => ~enabled
        /\ kind[c] = "voice" => enabled /\ phase = "processing"
    /\ \A c, d \in Calls : kind[c] = kind[d] /\ kind[c] \in {"start", "voice"} => c = d

Speaking == enabled /\ phase = "speaking"

\* Only the current recorder runs, and only while somebody speaks; the chunks
\* are its pieces, the first one among them once it has delivered.
OneTape ==
    /\ begun \subseteq taping \cup stopping
    /\ stopping = hooked
    /\ finishing => Speaking
    /\ ~Speaking => taping = {} /\ stopping = {}
    /\ Speaking =>
        /\ taping = IF finishing THEN {} ELSE {recorder}
        /\ stopping = IF finishing THEN {recorder} ELSE {}
        /\ chunks \subseteq {recorder} \X {"first", "rest"}
        /\ recorder \in begun => <<recorder, "first">> \in chunks

Blobs == \A c \in Calls : blob[c] # {} => OneRecording(blob[c])

\* What holds unless orphaned.
Calm == TypeOK /\ Orderly /\ OneTape /\ Blobs

\* What holds whatever happened, so that a fresh start is calm again: a call
\* that has returned and a recorder that has stopped leave nothing behind.
Tidy ==
    /\ begun \subseteq taping \cup stopping
    /\ hooked \subseteq taping \cup stopping
    /\ \A c \in Calls : pc[c] = "idle" => kind[c] = "none" /\ blob[c] = {}

PInv == CInv /\ Tidy /\ (orphaned \/ Calm)

tapeVars == <<enabled, phase, finishing, recorder, chunks, taping, stopping, begun, hooked>>

LEMMA SameTape ==
  ASSUME OneTape, UNCHANGED tapeVars
  PROVE  OneTape'
BY DEF OneTape, Speaking, tapeVars

\* A blob is sent by onstop only; otherwise calls keep or drop theirs.
LEMMA KeptBlob ==
  ASSUME TypeOK, Blobs,
         \A c \in Calls : blob'[c] \in {blob[c], {}}
  PROVE  Blobs'
BY DEF Blobs, OneRecording

LEMMA ReturnBlob ==
  ASSUME TypeOK, NEW c \in Calls, Return(c)
  PROVE  \A d \in Calls : blob'[d] \in {blob[d], {}}
BY DEF TypeOK, Return

\* With everything stopped, stopAutoListen stops no recorder.
LEMMA QuietStop ==
  ASSUME OneTape, ~Speaking, Release, UNCHANGED recVars
  PROVE  OneTape' /\ ~enabled'
<1>1. taping = {} /\ stopping = {}
  BY DEF OneTape
<1>2. /\ ~enabled' /\ ~finishing' /\ taping' = {} /\ stopping' = {}
      /\ begun' = begun /\ hooked' = hooked
  BY <1>1 DEF Release, recVars
<1> QED BY <1>1, <1>2 DEF OneTape, Speaking

\* A call that has to do with neither a start nor a turn, and returns.
LEMMA ReturnOrderly ==
  ASSUME TypeOK, Orderly, NEW c \in Calls, Return(c),
         UNCHANGED <<enabled, phase>>
  PROVE  Orderly'
BY DEF TypeOK, Orderly, Return, Waiting, Turning

LEMMA PatientPage ==
  ASSUME Calm, Patience, NEW c \in Calls,
         \/ Boot(c) \/ OpenHistory(c) \/ Loaded(c) \/ Created(c) \/ CreateFails(c)
  PROVE  Orderly' /\ OneTape' /\ Blobs'
<1>0. TypeOK /\ Orderly /\ OneTape /\ Blobs
  BY DEF Calm
<1>t. UNCHANGED autoVars /\ UNCHANGED recVars
  BY DEF Boot, OpenHistory, Loaded, Created, CreateFails
<1>a. UNCHANGED <<enabled, phase>> /\ OneTape'
  BY <1>0, <1>t, SameTape DEF autoVars, recVars, tapeVars
<1>b. ASSUME Return(c) \/ UNCHANGED blob PROVE Blobs'
  BY <1>0, <1>b, KeptBlob, ReturnBlob
<1>c. ASSUME Return(c) PROVE Orderly'
  BY <1>0, <1>a, <1>c, ReturnOrderly
<1>1. CASE Boot(c)
  <2>1. pc[c] = "boot"
    BY <1>1 DEF Boot
  <2>2. CASE Return(c)
    BY <1>a, <1>b, <1>c, <2>1, <2>2
  <2>3. CASE /\ sessionId # NoSid /\ Goto(c, "load") /\ sid' = [sid EXCEPT ![c] = sessionId]
             /\ UNCHANGED <<kind, mic, blob>>
    <3>1. Orderly'
      BY <1>0, <1>a, <2>1, <2>3 DEF TypeOK, Orderly, Goto, Waiting, Turning
    <3> QED BY <1>a, <1>b, <2>3, <3>1
  <2> QED BY <1>1, <2>2, <2>3 DEF Boot
<1>2. CASE OpenHistory(c)
  <2>1. PICK s \in Sids : /\ sessionId' = s /\ Call(c, "load", "load")
                          /\ sid' = [sid EXCEPT ![c] = s]
    BY <1>2 DEF OpenHistory
  <2>2. UNCHANGED blob
    BY <1>2 DEF OpenHistory
  <2>4. Orderly'
    BY <1>0, <1>a, <2>1 DEF TypeOK, Orderly, Call, Goto, Waiting, Turning
  <2> QED BY <1>a, <1>b, <2>2, <2>4
<1>3. CASE Loaded(c)
  BY <1>a, <1>b, <1>c, <1>3 DEF Loaded
<1>4. CASE Created(c)
  <2>1. pc[c] = "create" /\ kind[c] = "start"
    BY <1>0, <1>4 DEF Created, Orderly
  <2>2. Goto(c, "mic") /\ UNCHANGED <<kind, blob>>
    BY <1>4, <2>1 DEF Created
  <2>4. Orderly'
    BY <1>0, <1>a, <2>1, <2>2 DEF TypeOK, Orderly, Goto, Waiting, Turning
  <2> QED BY <1>a, <1>b, <2>2, <2>4
<1>5. CASE CreateFails(c)
  BY <1>a, <1>b, <1>c, <1>5 DEF CreateFails
<1> QED BY <1>1, <1>2, <1>3, <1>4, <1>5

LEMMA PatientStart ==
  ASSUME Calm, Patience, NEW c \in Calls,
         StartListen(c) \/ GotMic(c) \/ Listen(c) \/ StartFails(c)
  PROVE  Orderly' /\ OneTape' /\ Blobs'
<1>0. TypeOK /\ Orderly /\ OneTape /\ Blobs
  BY DEF Calm
<1>1. CASE StartListen(c)
  <2>1. /\ \A d \in Calls : kind[d] # "start"
        /\ ~enabled /\ pc[c] = "idle" /\ UNCHANGED <<sid, mic, blob>>
    BY <1>1 DEF StartListen, Starting, Call, Patience
  <2>2. /\ kind' = [kind EXCEPT ![c] = "start"]
        /\ pc' = [pc EXCEPT ![c] = IF sessionId = NoSid THEN "create" ELSE "mic"]
    BY <1>1 DEF StartListen, Call, Goto
  <2>3. UNCHANGED tapeVars
    BY <1>1 DEF StartListen, autoVars, recVars, tapeVars
  <2>4. Orderly'
    BY <1>0, <2>1, <2>2, <2>3 DEF TypeOK, Orderly, Waiting, Turning, tapeVars
  <2> QED BY <1>0, <2>1, <2>3, <2>4, SameTape, KeptBlob
<1>2. CASE GotMic(c)
  <2>1. /\ pc[c] = "mic" /\ pc' = [pc EXCEPT ![c] = "resume"] /\ UNCHANGED <<kind, sid, blob>>
        /\ UNCHANGED tapeVars
    BY <1>2 DEF GotMic, Goto, recVars, tapeVars
  <2>2. Orderly'
    BY <1>0, <2>1 DEF TypeOK, Orderly, Waiting, Turning, tapeVars
  <2> QED BY <1>0, <2>1, <2>2, SameTape, KeptBlob
<1>3. CASE Listen(c)
  <2>1. /\ pc[c] = "resume" /\ enabled' = TRUE /\ phase' = "armed" /\ finishing' = FALSE
        /\ Return(c) /\ UNCHANGED <<recorder, chunks, taping, stopping, begun, hooked>>
    BY <1>3 DEF Listen, recVars
  <2>2. ~enabled /\ kind[c] = "start"
    BY <1>0, <2>1 DEF Orderly, Waiting
  <2>3. OneTape'
    BY <1>0, <2>1, <2>2 DEF OneTape, Speaking
  <2>4. \A d \in Calls : kind[d] # "voice" /\ (kind[d] = "start" => d = c)
    BY <1>0, <2>2 DEF Orderly
  <2>5. Orderly'
    BY <1>0, <2>1, <2>2, <2>4 DEF TypeOK, Orderly, Return, Waiting, Turning
  <2> QED BY <1>0, <2>1, <2>3, <2>5, ReturnBlob, KeptBlob
<1>4. CASE StartFails(c)
  <2>1. Waiting(c) /\ Release /\ Return(c) /\ UNCHANGED recVars
    BY <1>4 DEF StartFails, StopAutoListen, Waiting
  <2>2. ~enabled
    BY <1>0, <2>1 DEF Orderly, Waiting
  <2>3. OneTape' /\ ~enabled'
    BY <1>0, <2>1, <2>2, QuietStop DEF Speaking
  <2>4. \A d \in Calls : kind[d] # "voice"
    BY <1>0, <2>2 DEF Orderly
  <2>5. Orderly'
    BY <1>0, <2>1, <2>3, <2>4 DEF TypeOK, Orderly, Return, Waiting, Turning
  <2> QED BY <1>0, <2>1, <2>3, <2>5, ReturnBlob, KeptBlob
<1> QED BY <1>1, <1>2, <1>3, <1>4

\* The only turn ends: its finally finds listening on and arms it again.
LEMMA PatientEnd ==
  ASSUME Calm, NEW c \in Calls, Turning(c), EndTurn(c), Return(c), UNCHANGED recVars
  PROVE  Orderly' /\ OneTape' /\ Blobs'
<1>0. TypeOK /\ Orderly /\ OneTape /\ Blobs
  BY DEF Calm
<1>1. kind[c] = "voice" /\ enabled /\ phase = "processing"
  BY <1>0 DEF Orderly
<1>2. /\ phase' = "armed" /\ finishing' = FALSE
      /\ UNCHANGED <<enabled, recorder, chunks, taping, stopping, begun, hooked>>
  BY <1>1 DEF EndTurn, EndVoice, recVars
<1>3. OneTape'
  BY <1>0, <1>1, <1>2 DEF OneTape, Speaking
<1>4. \A d \in Calls : kind[d] = "voice" => d = c
  BY <1>0, <1>1 DEF Orderly
<1>5. Orderly'
  BY <1>0, <1>1, <1>2, <1>4 DEF TypeOK, Orderly, Return, Waiting, Turning
<1> QED BY <1>0, <1>3, <1>5, ReturnBlob, KeptBlob

LEMMA PatientTurn ==
  ASSUME Calm, NEW c \in Calls, Posted(c) \/ PostFails(c) \/ Reloaded(c)
  PROVE  Orderly' /\ OneTape' /\ Blobs'
<1>0. TypeOK /\ Orderly /\ OneTape /\ Blobs
  BY DEF Calm
<1>1. Turning(c) /\ UNCHANGED recVars
  BY DEF Posted, PostFails, Reloaded, Turning
<1>3. CASE /\ pc[c] = "post" /\ Goto(c, "reload")
           /\ blob' = [blob EXCEPT ![c] = {}]
           /\ UNCHANGED <<autoVars, kind>>
  <2>1. OneTape'
    BY <1>0, <1>1, <1>3, SameTape DEF autoVars, recVars, tapeVars
  <2>2. Blobs'
    BY <1>0, <1>3, KeptBlob DEF TypeOK
  <2>3. Orderly'
    BY <1>0, <1>1, <1>3 DEF TypeOK, Orderly, Goto, Waiting, Turning, autoVars
  <2> QED BY <2>1, <2>2, <2>3
<1>4. CASE EndTurn(c) /\ Return(c)
  BY <1>1, <1>4, PatientEnd
<1> QED BY <1>3, <1>4 DEF Posted, PostFails, Reloaded

LEMMA PatientVoice ==
  ASSUME Calm, BeginRecording \/ FinishRecording \/ StopListen
  PROVE  Orderly' /\ OneTape' /\ Blobs'
<1>0. TypeOK /\ Orderly /\ OneTape /\ Blobs
  BY DEF Calm
<1>1. UNCHANGED callVars /\ enabled /\ phase \in {"armed", "speaking"}
  BY DEF BeginRecording, FinishRecording, StopListen
<1>2. \A d \in Calls : kind[d] \notin {"voice", "start"}
  BY <1>0, <1>1 DEF Orderly
<1>3. Orderly'
  BY <1>0, <1>1, <1>2 DEF Orderly, Waiting, Turning, callVars
<1>4. Blobs'
  BY <1>1 , <1>0, KeptBlob DEF callVars
<1>5. CASE BeginRecording
  <2>1. taping = {} /\ stopping = {} /\ begun = {} /\ hooked = {}
    BY <1>0, <1>5 DEF BeginRecording, OneTape, Speaking
  <2>2. PICK r \in Recs : recorder' = r /\ taping' = taping \cup {r}
    BY <1>5 DEF BeginRecording
  <2>3. /\ enabled' /\ phase' = "speaking" /\ ~finishing' /\ chunks' = {}
        /\ UNCHANGED <<stopping, begun, hooked>>
    BY <1>1, <1>5 DEF BeginRecording
  <2>4. OneTape'
    BY <2>1, <2>2, <2>3 DEF OneTape, Speaking
  <2> QED BY <1>3, <1>4, <2>4
<1>6. CASE FinishRecording
  <2>1. Speaking /\ ~finishing
    BY <1>6 DEF FinishRecording, Speaking
  <2>2. taping = {recorder} /\ stopping = {} /\ hooked = {}
    BY <1>0, <2>1 DEF OneTape
  <2>3. /\ finishing' = TRUE /\ hooked' = {recorder} /\ taping' = {} /\ stopping' = {recorder}
        /\ UNCHANGED <<enabled, phase, recorder, chunks, begun>>
    BY <1>6, <2>2 DEF FinishRecording
  <2>4. OneTape'
    BY <1>0, <2>1, <2>2, <2>3 DEF OneTape, Speaking
  <2> QED BY <1>3, <1>4, <2>4
<1>7. CASE StopListen
  <2>1. ~Speaking /\ Release /\ UNCHANGED recVars
    BY <1>7 DEF StopListen, StopAutoListen, Speaking
  <2> QED BY <1>0, <1>3, <1>4, <2>1, QuietStop
<1> QED BY <1>5, <1>6, <1>7

\* What onstop leaves: no recorder runs.
LEMMA PatientOnStop ==
  ASSUME TypeOK, OneTape, NEW r \in Recs, OnStop(r), UNCHANGED taping, phase' # "speaking"
  PROVE  Speaking /\ r = recorder /\ OneTape'
<1>1. Speaking /\ finishing /\ r = recorder /\ taping = {} /\ stopping = {r} /\ hooked = {r}
  BY DEF OneTape, OnStop
<1>2. stopping' = {} /\ hooked' = {} /\ begun' = {} /\ ~finishing' /\ taping' = {}
  BY <1>1 DEF OneTape, OnStop, Forget
<1> QED BY <1>1, <1>2 DEF OneTape, Speaking

LEMMA PatientEvent ==
  ASSUME Calm, NEW r \in Recs,
         \/ Data(r) \/ StoppedSilently(r) \/ StoppedShort(r)
         \/ \E c \in Calls : StoppedSend(r, c)
  PROVE  Orderly' /\ OneTape' /\ Blobs'
<1>0. TypeOK /\ Orderly /\ OneTape /\ Blobs
  BY DEF Calm
<1>1. CASE Data(r)
  <2>1. /\ r \in taping /\ chunks' = chunks \cup {PieceOf(r)} /\ begun' = begun \cup {r}
        /\ UNCHANGED <<enabled, phase, finishing, recorder, taping, stopping, hooked>>
        /\ UNCHANGED callVars
    BY <1>1 DEF Data
  <2>2. Speaking /\ ~finishing /\ r = recorder
    BY <1>0, <2>1 DEF OneTape
  <2>3. /\ PieceOf(r) \in {recorder} \X {"first", "rest"}
        /\ r \notin begun => PieceOf(r) = <<recorder, "first">>
    BY <2>2 DEF PieceOf
  <2>4. OneTape'
    BY <1>0, <2>1, <2>2, <2>3 DEF OneTape, Speaking
  <2>5. Orderly'
    BY <1>0, <2>1 DEF Orderly, Waiting, Turning, callVars
  <2> QED BY <1>0, <2>1, <2>4, <2>5, KeptBlob DEF callVars
<1>2. ~StoppedSilently(r)
  BY <1>0 DEF StoppedSilently, OneTape
<1>3. CASE StoppedShort(r)
  <2>1. /\ OnStop(r) /\ UNCHANGED taping /\ phase' # "speaking" /\ UNCHANGED enabled
        /\ UNCHANGED callVars
    BY <1>3 DEF StoppedShort
  <2>2. Speaking /\ OneTape'
    BY <1>0, <2>1, PatientOnStop
  <2>3. \A d \in Calls : kind[d] # "voice"
    BY <1>0, <2>2 DEF Orderly, Speaking
  <2>4. Orderly'
    BY <1>0, <2>1, <2>3 DEF Orderly, Waiting, Turning, callVars
  <2> QED BY <1>0, <2>1, <2>2, <2>4, KeptBlob DEF callVars
<1>4. ASSUME NEW c \in Calls, StoppedSend(r, c)
      PROVE  Orderly' /\ OneTape' /\ Blobs'
  <2>1. /\ OnStop(r) /\ UNCHANGED taping /\ phase' = "processing" /\ UNCHANGED enabled
        /\ pc[c] = "idle" /\ pc' = [pc EXCEPT ![c] = "post"]
        /\ kind' = [kind EXCEPT ![c] = "voice"]
        /\ blob' = [blob EXCEPT ![c] = chunks \cup {PieceOf(r)}]
    BY <1>4 DEF StoppedSend, Call, Goto
  <2>2. Speaking /\ r = recorder /\ OneTape'
    BY <1>0, <2>1, PatientOnStop
  <2>3. \A d \in Calls : kind[d] \notin {"voice", "start"}
    BY <1>0, <2>2 DEF Orderly, Speaking
  <2>5. Orderly'
    BY <1>0, <2>1, <2>2, <2>3 DEF TypeOK, Orderly, Speaking, Waiting, Turning
  <2>6. /\ <<r, "first">> \in chunks \cup {PieceOf(r)}
        /\ chunks \cup {PieceOf(r)} \subseteq {r} \X {"first", "rest"}
    BY <1>0, <2>2 DEF OneTape, PieceOf
  <2>7. \A d \in Calls : blob'[d] = IF d = c THEN chunks \cup {PieceOf(r)} ELSE blob[d]
    BY <1>0, <2>1 DEF TypeOK
  <2>8. Blobs'
    BY <1>0, <2>6, <2>7 DEF Blobs, OneRecording
  <2> QED BY <2>2, <2>5, <2>8
<1> QED BY <1>1, <1>2, <1>3, <1>4

\* Steps outside of the page.
LEMMA SameCalm ==
  ASSUME Calm, UNCHANGED <<tapeVars, callVars>>
  PROVE  Orderly' /\ OneTape' /\ Blobs'
<1>1. Orderly'
  BY DEF Calm, Orderly, Waiting, Turning, tapeVars, callVars
<1>2. Blobs'
  BY KeptBlob DEF Calm, callVars
<1> QED BY <1>1, <1>2, SameTape DEF Calm

LEMMA TidyReturn ==
  ASSUME TypeOK, Tidy, NEW c \in Calls, Return(c)
  PROVE  \A d \in Calls : pc'[d] = "idle" => kind'[d] = "none" /\ blob'[d] = {}
BY DEF TypeOK, Tidy, Return

LEMMA TidyGoto ==
  ASSUME TypeOK, Tidy, NEW c \in Calls, NEW l, l # "idle", Goto(c, l),
         \A d \in Calls : d # c => kind'[d] = kind[d] /\ blob'[d] = blob[d]
  PROVE  \A d \in Calls : pc'[d] = "idle" => kind'[d] = "none" /\ blob'[d] = {}
BY DEF TypeOK, Tidy, Goto

\* A step that only moves recorders from taping to stopping.
LEMMA TidyRecs ==
  ASSUME Tidy, UNCHANGED recVars, taping \cup stopping \subseteq (taping \cup stopping)',
         \A d \in Calls : pc'[d] = "idle" => kind'[d] = "none" /\ blob'[d] = {}
  PROVE  Tidy'
BY DEF Tidy, recVars

LEMMA StopRecs ==
  ASSUME Release \/ StopIfEnabled \/ UNCHANGED autoVars
  PROVE  taping \cup stopping \subseteq (taping \cup stopping)'
BY DEF StopIfEnabled, StopAutoListen, Release, autoVars

LEMMA TidyCalls ==
  ASSUME TypeOK, Tidy, NEW c \in Calls, Click(c) \/ Answer(c) \/ GotMic(c)
  PROVE  Tidy'
<1>1. UNCHANGED recVars
  BY DEF Click, Answer, OpenHistory, NewSession, StartListen, Upload, SendText, Boot,
         Loaded, Peeked, Created, CreateFails, Listen, StartFails, Posted, PostFails,
         Reloaded, GotMic
<1>2. CASE Click(c)
  <2>1. Release \/ StopIfEnabled \/ UNCHANGED autoVars
    BY <1>2 DEF Click, OpenHistory, NewSession, StartListen, Upload, SendText
  <2>2. \E k, l : Call(c, k, l) /\ l # "idle"
    BY <1>2 DEF Click, OpenHistory, NewSession, StartListen, Upload, SendText
  <2>3. \A d \in Calls : d # c => blob'[d] = blob[d]
    BY <1>2 DEF Click, OpenHistory, NewSession, StartListen, Upload, SendText, TypeOK
  <2>4. \A d \in Calls : d # c => kind'[d] = kind[d]
    BY <2>2 DEF Call, TypeOK
  <2> QED BY <1>1, <2>1, <2>2, <2>3, <2>4, StopRecs, TidyGoto, TidyRecs DEF Call
<1>3. CASE Answer(c) \/ GotMic(c)
  <2>1. \/ Return(c)
        \/ \E l : /\ Goto(c, l) /\ l # "idle" /\ UNCHANGED kind
                  /\ UNCHANGED blob \/ blob' = [blob EXCEPT ![c] = {}]
    BY <1>3 DEF Answer, Boot, Loaded, Peeked, Created, CreateFails, Listen, StartFails,
                Posted, PostFails, Reloaded, GotMic
  <2>2. \A d \in Calls : pc'[d] = "idle" => kind'[d] = "none" /\ blob'[d] = {}
    BY <2>1, TidyReturn, TidyGoto DEF TypeOK
  <2>3. taping \cup stopping \subseteq (taping \cup stopping)'
    <3>1. CASE Posted(c) \/ PostFails(c) \/ Reloaded(c)
      BY <3>1 DEF Posted, PostFails, Reloaded, EndTurn, EndVoice, EndText, autoVars
    <3>2. CASE GotMic(c) \/ Listen(c)
      BY <3>2 DEF GotMic, Listen
    <3>3. CASE Boot(c) \/ Loaded(c) \/ Peeked(c) \/ Created(c) \/ CreateFails(c) \/ StartFails(c)
      BY <3>3, StopRecs
         DEF Boot, Loaded, Peeked, Created, CreateFails, StartFails, StopAutoListen
    <3> QED BY <1>3, <3>1, <3>2, <3>3 DEF Answer
  <2> QED BY <1>1, <2>2, <2>3, TidyRecs
<1> QED BY <1>2, <1>3

LEMMA TidyEvents ==
  ASSUME TypeOK, Tidy, NEW r \in Recs, RecorderEvent(r) \/ Data(r)
  PROVE  Tidy'
<1>1. CASE Data(r)
  BY <1>1 DEF Data, Tidy, callVars
<1>2. CASE StoppedSilently(r) \/ StoppedShort(r)
  BY <1>2 DEF StoppedSilently, StoppedShort, OnStop, Forget, Tidy, callVars
<1>3. ASSUME NEW c \in Calls, StoppedSend(r, c) \/ StoppedCreate(r, c)
      PROVE  Tidy'
  <2>0. Forget(r)
    BY <1>3 DEF StoppedSend, StoppedCreate, OnStop
  <2>1. \E k, l : Call(c, k, l) /\ l # "idle"
    <3>1. CASE StoppedSend(r, c)
      BY <3>1 DEF StoppedSend
    <3>2. CASE StoppedCreate(r, c)
      BY <3>2 DEF StoppedCreate
    <3> QED BY <1>3, <3>1, <3>2
  <2>2. \A d \in Calls : d # c => kind'[d] = kind[d] /\ blob'[d] = blob[d]
    BY <1>3, <2>1 DEF StoppedSend, StoppedCreate, Call, TypeOK
  <2>3. \A d \in Calls : pc'[d] = "idle" => kind'[d] = "none" /\ blob'[d] = {}
    BY <2>1, <2>2, TidyGoto DEF Call
  <2>4. (taping \cup stopping) \ {r} \subseteq taping' \cup stopping'
    <3>1. CASE StoppedSend(r, c)
      BY <3>1 DEF StoppedSend, OnStop
    <3>2. CASE StoppedCreate(r, c)
      <4>1. PICK ending \in SUBSET taping :
              taping' = taping \ ending /\ stopping' = (stopping \ {r}) \cup ending
        BY <3>2 DEF StoppedCreate
      <4> QED BY <4>1
    <3> QED BY <1>3, <3>1, <3>2
  <2> QED BY <2>0, <2>3, <2>4 DEF Tidy, Forget
<1> QED BY <1>1, <1>2, <1>3 DEF RecorderEvent

LEMMA TidyStep ==
  ASSUME TypeOK, Tidy, [Next]_vars
  PROVE  Tidy'
<1>1. CASE BeginRecording \/ FinishRecording
  BY <1>1 DEF BeginRecording, FinishRecording, Tidy, callVars
<1>2. CASE \/ StopListen \/ UNCHANGED vars
           \/ \E s \in Sids : Deleted(s)
           \/ \E m \in {"voice", "text"} : SwitchMode(m)
  <2>1. UNCHANGED callVars /\ UNCHANGED recVars /\ (Release \/ StopIfEnabled \/ UNCHANGED autoVars)
    BY <1>2 DEF StopListen, StopAutoListen, Deleted, SwitchMode, vars
  <2> QED BY <2>1, StopRecs, TidyRecs DEF Tidy, callVars
<1> QED BY <1>1, <1>2, TidyCalls, TidyEvents DEF Next

\* Listening started with nothing under way is calm, whatever was before.
LEMMA FreshStart ==
  ASSUME CInv, Tidy, NEW c \in Calls, StartListen(c), Quiet, taping = {}
  PROVE  Orderly' /\ OneTape' /\ Blobs'
<1>1. TypeOK /\ ~enabled /\ ~finishing /\ stopping = {} /\ begun = {} /\ hooked = {}
  BY DEF CInv, Flags, Tidy, Quiet, StartListen
<1>2. \A d \in Calls : pc[d] = "idle" /\ kind[d] = "none" /\ blob[d] = {}
  BY DEF Tidy, Quiet
<1>3. /\ kind' = [kind EXCEPT ![c] = "start"] /\ UNCHANGED blob
      /\ pc' = [pc EXCEPT ![c] = IF sessionId = NoSid THEN "create" ELSE "mic"]
      /\ UNCHANGED tapeVars
  BY DEF StartListen, Call, Goto, autoVars, recVars, tapeVars
<1>4. Orderly'
  BY <1>1, <1>2, <1>3 DEF TypeOK, Orderly, Waiting, Turning, tapeVars
<1>5. OneTape' /\ Blobs'
  BY <1>1, <1>2, <1>3 DEF OneTape, Speaking, Blobs, tapeVars
<1> QED BY <1>4, <1>5

LEMMA PatientInvariant ==
  ASSUME Patience
  PROVE  Spec => []PInv
<1>1. ASSUME Init PROVE PInv
  <2>1. CInv
    BY <1>1, InitInv
  <2>2. PICK c \in Calls :
          /\ pc = [d \in Calls |-> IF d = c THEN "boot" ELSE "idle"]
          /\ kind = [d \in Calls |-> IF d = c THEN "boot" ELSE "none"]
    BY <1>1 DEF Init
  <2>3. Orderly
    BY <1>1, <2>2 DEF Init, Orderly, Waiting, Turning
  <2>4. OneTape /\ Blobs
    BY <1>1 DEF Init, OneTape, Speaking, Blobs
  <2>5. Tidy
    BY <1>1, <2>2 DEF Init, Tidy
  <2> QED BY <2>1, <2>3, <2>4, <2>5 DEF PInv, Calm, CInv
<1>2. ASSUME PInv, [Next]_vars PROVE PInv'
  <2>1. TypeOK /\ CInv' /\ TypeOK' /\ Tidy'
    BY <1>2, StepInv, TidyStep DEF PInv, CInv
  <2>2. SUFFICES ASSUME ~orphaned' PROVE Orderly' /\ OneTape' /\ Blobs'
    BY <2>1 DEF PInv, Calm
  <2>3. CASE orphaned
    <3>1. PICK c \in Calls : StartListen(c) /\ Quiet /\ taping = {}
      BY <1>2, <2>2, <2>3
         DEF Next, Click, Answer, RecorderEvent, vars, pageVars, OpenHistory, NewSession,
             StartListen, Upload, SendText, Boot, Loaded, Peeked, Created, CreateFails,
             Listen, StartFails, Posted, PostFails, Reloaded, GotMic, StoppedSilently,
             StoppedShort, StoppedSend, StoppedCreate, Data, Deleted, SwitchMode,
             BeginRecording, FinishRecording, StopListen
    <3> QED BY <1>2, <3>1, FreshStart DEF PInv
  <2>4. CASE ~orphaned /\ Next
    <3>0. Calm
      BY <1>2, <2>4 DEF PInv
    <3>1. \A c \in Calls : ~NewSession(c) /\ ~Upload(c) /\ ~SendText(c) /\ ~Peeked(c)
      BY <3>0 DEF Patience, Calm, Orderly, NewSession, Upload, SendText, Peeked
    <3>2. /\ \A m \in {"voice", "text"} : ~SwitchMode(m)
          /\ \A r \in Recs, c \in Calls : ~StoppedCreate(r, c)
      BY <2>2 DEF Patience, SwitchMode, StoppedCreate
    <3>3. \/ \E c \in Calls :
               \/ Boot(c) \/ OpenHistory(c) \/ Loaded(c) \/ Created(c) \/ CreateFails(c)
               \/ StartListen(c) \/ GotMic(c) \/ Listen(c) \/ StartFails(c)
               \/ Posted(c) \/ PostFails(c) \/ Reloaded(c)
          \/ \E r \in Recs :
               \/ Data(r) \/ StoppedSilently(r) \/ StoppedShort(r)
               \/ \E c \in Calls : StoppedSend(r, c)
          \/ \E s \in Sids : Deleted(s)
          \/ BeginRecording \/ FinishRecording \/ StopListen
      BY <2>4, <3>1, <3>2 DEF Next, Click, Answer, RecorderEvent
    <3>4. CASE \E s \in Sids : Deleted(s)
      <4>1. UNCHANGED <<tapeVars, callVars>>
        BY <3>4 DEF Deleted, autoVars, recVars, tapeVars
      <4> QED BY <3>0, <4>1, SameCalm
    <3> QED BY <3>0, <3>3, <3>4, PatientPage, PatientStart, PatientTurn, PatientVoice, PatientEvent
  <2>5. CASE ~orphaned /\ UNCHANGED vars
    <3>1. Calm /\ UNCHANGED <<tapeVars, callVars>>
      BY <1>2, <2>5 DEF PInv, vars, autoVars, recVars, tapeVars
    <3> QED BY <3>1, SameCalm
  <2> QED BY <1>2, <2>3, <2>4, <2>5
<1> QED BY <1>1, <1>2, PTL DEF Spec

\* WholeUtterance: a recording that is sent holds the pieces of one recorder
\* from its first one on, for a patient user, although every recorder pushes
\* to the same autoVoice.chunks (beginAutoRecording, finishAutoRecording);
\* the exception is an utterance that found no session open.
THEOREM UtterancesWhole ==
  ASSUME Patience
  PROVE  Spec => []WholeUtterance
<1>1. PInv => WholeUtterance
  BY DEF PInv, Calm, Blobs, WholeUtterance
<1> QED BY <1>1, PatientInvariant, PTL

\* OneTurnAtATime: a patient user's turns do not overlap, neither in sendTurn
\* nor in the reload behind it, although sessions are switched and deleted
\* and requests fail in between, until an utterance finds no session open
\* (loadSession took an error for "not found"); and again from the next start
\* with nothing under way on.
THEOREM TurnsOneByOne ==
  ASSUME Patience
  PROVE  Spec => []OneTurnAtATime
<1>1. ASSUME PInv PROVE OneTurnAtATime
  <2>0. CASE orphaned
    BY <2>0 DEF OneTurnAtATime
  <2>1. CASE ~orphaned
    <3>1. \A c, d \in TurnsUnderWay : c = d
      BY <1>1, <2>1 DEF PInv, Calm, Orderly, TurnsUnderWay
    <3>2. CASE TurnsUnderWay = {}
      BY <3>2, FS_EmptySet DEF OneTurnAtATime
    <3>3. CASE TurnsUnderWay # {}
      <4>1. PICK c \in TurnsUnderWay : TRUE
        BY <3>3
      <4>2. TurnsUnderWay = {c}
        BY <3>1, <4>1
      <4> QED BY <4>2, FS_Singleton DEF OneTurnAtATime
    <3> QED BY <3>2, <3>3
  <2> QED BY <2>0, <2>1
<1> QED BY <1>1, PatientInvariant, PTL
=============================================================================
