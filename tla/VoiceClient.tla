---------------------------- MODULE VoiceClient ----------------------------
(***************************************************************************)
(* The browser client, server/static/app.js: the page's globals, the       *)
(* voice-activity state machine autoVoice, the widgets that are enabled    *)
(* and disabled, and the asynchronous functions that are under way.        *)
(*                                                                         *)
(* JavaScript runs one task at a time.  An action is one task: what runs   *)
(* from a click, a timer tick, a recorder event or an answer to the next   *)
(* await of something outside the page.  (await setTurnBusy only yields to *)
(* microtasks, so nothing comes between.)  A call is one invocation of an  *)
(* async function; pc[c] says what it awaits.                              *)
(***************************************************************************)
EXTENDS Naturals, FiniteSets

CONSTANTS
    Sids,        \* session ids the server can hand out
    NoSid,       \* sessionId === null
    OldSids,     \* sessions that exist when the page is opened
    Calls,       \* invocations of async functions that may overlap
    Mics, NoMic, \* microphone streams; autoVoice.stream === null
    Recs, NoRec, \* recorders; autoVoice.mediaRecorder === null
    Acts         \* what user and environment do in this instance

AllActs == {"start", "again", "stop", "tab", "upload", "text", "history",
            "new", "gone", "lost", "error", "deaf"}

ASSUME ClientAssumption ==
    /\ NoSid \notin Sids /\ OldSids \subseteq Sids
    /\ NoMic \notin Mics
    /\ NoRec \notin Recs
    /\ Acts \subseteq AllActs

Piece  == Recs \X {"first", "rest"}
Phases == {"off", "armed", "speaking", "processing"}
Kinds  == {"none", "boot", "load", "new", "start", "voice", "text"}

VARIABLES
    server,      \* each session: "unborn", "live" or "gone"
    sessionId,   \* the global; also kept in localStorage
    shown,       \* the session whose turns chatLog shows
    mode,        \* "voice" or "text" tab
    orphaned,    \* history: an utterance found no session open, and
                 \* listening was not started afresh since
    enabled, phase, stream, recorder, chunks, finishing,    \* autoVoice
    busy, recordOff, stopOff, sendOff,       \* busyEl and button.disabled
    open,        \* streams whose tracks are not stopped
    taping,      \* recorders in state "recording"
    stopping,    \* stopped, last dataavailable and stop event still to come
    begun,       \* recorders that have delivered their first piece
    hooked,      \* recorders whose onstop is set
    source,      \* the stream of each recorder
    pc, kind, sid, mic, blob                 \* the calls and their locals

autoVars   == <<enabled, phase, stream, recorder, chunks, finishing, open,
                taping, stopping>>
widgetVars == <<busy, recordOff, stopOff, sendOff>>
recVars    == <<begun, hooked, source>>
callVars   == <<pc, kind, sid, mic, blob>>
pageVars   == <<server, sessionId, shown, mode, orphaned>>
vars == <<pageVars, autoVars, widgetVars, recVars, callVars>>

TypeOK ==
    /\ server \in [Sids -> {"unborn", "live", "gone"}]
    /\ sessionId \in Sids \cup {NoSid} /\ shown \in Sids \cup {NoSid}
    /\ mode \in {"voice", "text"} /\ orphaned \in BOOLEAN
    /\ enabled \in BOOLEAN /\ phase \in Phases /\ finishing \in BOOLEAN
    /\ stream \in Mics \cup {NoMic} /\ recorder \in Recs \cup {NoRec}
    /\ chunks \subseteq Piece
    /\ busy \in BOOLEAN /\ recordOff \in BOOLEAN
    /\ stopOff \in BOOLEAN /\ sendOff \in BOOLEAN
    /\ open \subseteq Mics
    /\ taping \subseteq Recs /\ stopping \subseteq Recs
    /\ begun \subseteq Recs /\ hooked \subseteq Recs
    /\ source \in [Recs -> Mics \cup {NoMic}]
    /\ pc \in [Calls -> {"idle", "boot", "load", "peek", "create", "mic",
                         "resume", "post", "reload"}]
    /\ kind \in [Calls -> Kinds]
    /\ sid \in [Calls -> Sids \cup {NoSid}]
    /\ mic \in [Calls -> Mics \cup {NoMic}]
    /\ blob \in [Calls -> SUBSET Piece]

\* The page is opened: sessionId comes from localStorage, the boot function
\* is under way, everything else is as in the declarations.
Init ==
    /\ server = [s \in Sids |-> IF s \in OldSids THEN "live" ELSE "unborn"]
    /\ sessionId \in OldSids \cup {NoSid} /\ shown = NoSid
    /\ mode \in {"voice", "text"} /\ orphaned = FALSE
    /\ enabled = FALSE /\ phase = "off" /\ finishing = FALSE
    /\ stream = NoMic /\ recorder = NoRec /\ chunks = {}
    /\ busy = FALSE /\ recordOff = FALSE /\ stopOff = TRUE /\ sendOff = FALSE
    /\ open = {} /\ taping = {} /\ stopping = {}
    /\ begun = {} /\ hooked = {} /\ source = [r \in Recs |-> NoMic]
    /\ \E c \in Calls :
        /\ pc = [d \in Calls |-> IF d = c THEN "boot" ELSE "idle"]
        /\ kind = [d \in Calls |-> IF d = c THEN "boot" ELSE "none"]
    /\ sid = [c \in Calls |-> NoSid]
    /\ mic = [c \in Calls |-> NoMic] /\ blob = [c \in Calls |-> {}]

-----------------------------------------------------------------------------
(* Helpers that the handlers share.                                        *)

\* updateListenUi for autoVoice in state (e, p); off is btnRecord.disabled.
ListenUi(e, p, off) ==
    /\ recordOff' = (off \/ (e /\ p # "off"))
    /\ stopOff' = (~e \/ p \in {"off", "processing"})

\* Mutant: the tracks of the stream are not stopped.
Release_KeepsTracks ==
    /\ enabled' = FALSE /\ phase' = "off" /\ finishing' = FALSE
    /\ stream' = NoMic /\ recorder' = NoRec /\ chunks' = {}
    /\ taping' = taping \ {recorder}
    /\ stopping' = stopping \cup (taping \cap {recorder})
    /\ UNCHANGED open

\* releaseAutoVoiceStream, called by stopAutoListen only.  Stopping the
\* tracks ends every recorder of the stream, the lost ones too.
Release ==
    LET ending == {r \in taping : r = recorder \/ source[r] = stream}
    IN  /\ enabled' = FALSE /\ phase' = "off" /\ finishing' = FALSE
        /\ stream' = NoMic /\ recorder' = NoRec /\ chunks' = {}
        /\ open' = open \ {stream}
        /\ taping' = taping \ ending /\ stopping' = stopping \cup ending

\* What stopAutoListen leaves in btnRecord.disabled.
RecordOffStopped == busy /\ recordOff

StopAutoListen == Release /\ ListenUi(FALSE, "off", RecordOffStopped)

\* if (autoVoice.enabled) stopAutoListen();
StopIfEnabled ==
    IF enabled THEN StopAutoListen
    ELSE UNCHANGED <<autoVars, recordOff, stopOff>>

Goto(c, label) == pc' = [pc EXCEPT ![c] = label]

\* An async function returns or throws; its locals are dropped.
Return(c) ==
    /\ pc' = [pc EXCEPT ![c] = "idle"] /\ kind' = [kind EXCEPT ![c] = "none"]
    /\ sid' = [sid EXCEPT ![c] = NoSid] /\ mic' = [mic EXCEPT ![c] = NoMic]
    /\ blob' = [blob EXCEPT ![c] = {}]

\* A new invocation of an async function.
Call(c, k, label) ==
    /\ pc[c] = "idle"
    /\ Goto(c, label)
    /\ kind' = [kind EXCEPT ![c] = k]

\* setTurnBusy(true) and the fetch of sendTurn and sendTextTurn.
PostTurn(c, s) ==
    /\ busy' = TRUE /\ recordOff' = TRUE /\ stopOff' = TRUE /\ sendOff' = TRUE
    /\ sid' = [sid EXCEPT ![c] = s]

\* Mutant: the phase is left as it is.
EndVoice_NoResume ==
    /\ busy' = FALSE /\ sendOff' = FALSE
    /\ recordOff' = enabled
    /\ stopOff' = (~enabled \/ phase = "processing")
    /\ UNCHANGED autoVars

\* finally of sendTurn: setTurnBusy(false), resumeAutoListenAfterTurn.
EndVoice ==
    /\ busy' = FALSE /\ sendOff' = FALSE
    /\ IF enabled
       THEN /\ phase' = "armed" /\ finishing' = FALSE
            /\ ListenUi(TRUE, "armed", TRUE)
            /\ UNCHANGED <<enabled, stream, recorder, chunks, open, taping, stopping>>
       ELSE recordOff' = FALSE /\ stopOff' = TRUE /\ UNCHANGED autoVars

\* finally of sendTextTurn: setTurnBusy(false).
EndText ==
    /\ busy' = FALSE /\ sendOff' = FALSE
    /\ recordOff' = enabled
    /\ stopOff' = (~enabled \/ phase = "processing")
    /\ UNCHANGED autoVars

EndTurn(c) == IF kind[c] = "voice" THEN EndVoice ELSE EndText

-----------------------------------------------------------------------------
(* Conversations: loadSession, createSession.                              *)

\* loadSession(): the boot function asks for the session of localStorage.
\* (checkHealth and loadLlmModels, called beside it, may fetch and show the
\* same session once more; shown leaves that out.)
Boot(c) ==
    /\ pc[c] = "boot"
    /\ \/ sessionId = NoSid /\ Return(c)
       \/ /\ sessionId # NoSid
          /\ Goto(c, "load")
          /\ sid' = [sid EXCEPT ![c] = sessionId]
          /\ UNCHANGED <<kind, mic, blob>>
    /\ UNCHANGED <<pageVars, autoVars, widgetVars, recVars>>

\* A click on a session of the history panel, which may be gone by now.
OpenHistory(c) ==
    /\ "history" \in Acts
    /\ \E s \in Sids :
        /\ server[s] # "unborn"
        /\ sessionId' = s
        /\ Call(c, "load", "load")
        /\ sid' = [sid EXCEPT ![c] = s]
    /\ UNCHANGED <<server, shown, mode, orphaned, autoVars, widgetVars, recVars,
                   mic, blob>>

\* The end of loadSession: found, "Session not found", or the fetch failed.
\* fetchSession makes no difference between 404 and another error status.
SessionAnswer(c) ==
    \/ /\ server[sid[c]] = "live"
       /\ shown' = sid[c] /\ UNCHANGED sessionId
    \/ /\ server[sid[c]] = "gone" \/ "lost" \in Acts
       /\ sessionId' = NoSid /\ shown' = NoSid
    \/ /\ "error" \in Acts
       /\ UNCHANGED <<sessionId, shown>>

Loaded(c) ==
    /\ pc[c] = "load"
    /\ SessionAnswer(c)
    /\ Return(c)
    /\ UNCHANGED <<server, mode, orphaned, autoVars, widgetVars, recVars>>

\* "New conversation": with a session open its turns are fetched first.
NewSession(c) ==
    /\ "new" \in Acts
    /\ \/ /\ sessionId # NoSid
          /\ Call(c, "new", "peek")
          /\ UNCHANGED <<autoVars, recordOff, stopOff>>
       \/ /\ sessionId = NoSid
          /\ Call(c, "new", "create")
          /\ StopIfEnabled
    /\ UNCHANGED <<pageVars, busy, sendOff, recVars, sid, mic, blob>>

\* The user declines, or the fetch fails; or createSession goes on.
Peeked(c) ==
    /\ pc[c] = "peek"
    /\ \/ /\ Return(c)
          /\ UNCHANGED <<autoVars, recordOff, stopOff>>
       \/ /\ Goto(c, "create")
          /\ StopIfEnabled
          /\ UNCHANGED <<kind, sid, mic, blob>>
    /\ UNCHANGED <<pageVars, busy, sendOff, recVars>>

\* POST /api/sessions is answered; the caller of createSession goes on.
Created(c) ==
    /\ pc[c] = "create"
    /\ \E s \in Sids :
        /\ server[s] = "unborn"
        /\ server' = [server EXCEPT ![s] = "live"]
        /\ sessionId' = s /\ shown' = s
        /\ \/ /\ kind[c] = "new" /\ Return(c)
              /\ UNCHANGED widgetVars
           \/ /\ kind[c] = "start" /\ Goto(c, "mic")
              /\ UNCHANGED <<widgetVars, kind, sid, mic, blob>>
           \/ /\ kind[c] \in {"voice", "text"} /\ Goto(c, "post")
              /\ PostTurn(c, s)
              /\ UNCHANGED <<kind, mic, blob>>
    /\ UNCHANGED <<mode, orphaned, autoVars, recVars>>

\* createSession throws, outside of the try of each of its callers.
CreateFails(c) ==
    /\ "error" \in Acts
    /\ pc[c] = "create"
    /\ Return(c)
    /\ UNCHANGED <<pageVars, autoVars, widgetVars, recVars>>

\* Somebody else deletes a session on the server.
Deleted(s) ==
    /\ "gone" \in Acts
    /\ server[s] = "live"
    /\ server' = [server EXCEPT ![s] = "gone"]
    /\ UNCHANGED <<sessionId, shown, mode, orphaned, autoVars, widgetVars, recVars,
                   callVars>>

-----------------------------------------------------------------------------
(* Listening: startAutoListen, the voice-activity timer, the recorder.     *)

Starting == {c \in Calls : kind[c] = "start"}

\* No call is under way and no recorder event is outstanding.
Quiet == stopping = {} /\ \A c \in Calls : pc[c] = "idle"

\* btnRecord stays enabled until the stream is there: "again" is a second
\* click while a start is under way.
StartListen(c) ==
    /\ "start" \in Acts
    /\ Starting = {} \/ "again" \in Acts
    /\ mode = "voice" /\ ~recordOff /\ ~enabled
    /\ Call(c, "start", IF sessionId = NoSid THEN "create" ELSE "mic")
    /\ orphaned' = (orphaned /\ ~(Quiet /\ taping = {}))
    /\ UNCHANGED <<server, sessionId, shown, mode, autoVars, widgetVars, recVars,
                   sid, mic, blob>>

\* getMicStream resolves: the microphone is on from here.
GotMic(c) ==
    /\ pc[c] = "mic"
    /\ \E m \in Mics \ open :
        /\ open' = open \cup {m}
        /\ mic' = [mic EXCEPT ![c] = m]
    /\ Goto(c, "resume")
    /\ UNCHANGED <<pageVars, enabled, phase, stream, recorder, chunks, finishing,
                   taping, stopping, widgetVars, recVars, kind, sid, blob>>

\* audioContext.resume resolves: the rest of startAutoListen.
Listen(c) ==
    /\ pc[c] = "resume"
    /\ enabled' = TRUE /\ phase' = "armed" /\ finishing' = FALSE
    /\ stream' = mic[c]
    /\ ListenUi(TRUE, "armed", recordOff)
    /\ Return(c)
    /\ UNCHANGED <<pageVars, recorder, chunks, open, taping, stopping,
                   busy, sendOff, recVars>>

\* The catch of startAutoListen.  After getMicStream its stream is in no
\* variable that stopAutoListen knows.
StartFails(c) ==
    /\ "deaf" \in Acts
    /\ pc[c] \in {"mic", "resume"}
    /\ StopAutoListen
    /\ Return(c)
    /\ UNCHANGED <<pageVars, busy, sendOff, recVars>>

\* Recorders that record, stop, or have data somewhere.
KnownRecs ==
    taping \cup stopping \cup {recorder}
        \cup {p[1] : p \in chunks \cup UNION {blob[c] : c \in Calls}}

\* Mutant: the guard on the phase forgets the turn under way.
BeginRecording_AnyTime ==
    /\ enabled /\ phase # "speaking" /\ ~finishing
    /\ \E r \in Recs \ KnownRecs :
        /\ recorder' = r /\ taping' = taping \cup {r}
        /\ source' = [source EXCEPT ![r] = stream]
    /\ chunks' = {}
    /\ phase' = "speaking"
    /\ ListenUi(TRUE, "speaking", recordOff)
    /\ UNCHANGED <<pageVars, enabled, stream, finishing, open, stopping,
                   busy, sendOff, begun, hooked, callVars>>

\* vadTick hears speech: beginAutoRecording.
BeginRecording ==
    /\ enabled /\ phase = "armed" /\ ~finishing
    /\ stream # NoMic
    /\ \E r \in Recs \ KnownRecs :
        /\ recorder' = r /\ taping' = taping \cup {r}
        /\ source' = [source EXCEPT ![r] = stream]
    /\ chunks' = {}
    /\ phase' = "speaking"
    /\ ListenUi(TRUE, "speaking", recordOff)
    /\ UNCHANGED <<pageVars, enabled, stream, finishing, open, stopping,
                   busy, sendOff, begun, hooked, callVars>>

\* ondataavailable, every TICK_MS: all recorders push to autoVoice.chunks.
PieceOf(r) == <<r, IF r \in begun THEN "rest" ELSE "first">>

Data(r) ==
    /\ r \in taping
    /\ chunks' = chunks \cup {PieceOf(r)}
    /\ begun' = begun \cup {r}
    /\ UNCHANGED <<pageVars, enabled, phase, stream, recorder, finishing, open,
                   taping, stopping, widgetVars, hooked, source, callVars>>

\* finishAutoRecording: by vadTick after silence or MAX_TURN_MS, or by
\* "Send now".
FinishRecording ==
    /\ enabled /\ phase = "speaking" /\ ~finishing
    /\ \/ /\ recorder \in taping
          /\ finishing' = TRUE
          /\ hooked' = hooked \cup {recorder}
          /\ taping' = taping \ {recorder}
          /\ stopping' = stopping \cup {recorder}
          /\ UNCHANGED <<phase, recordOff, stopOff>>
       \/ /\ recorder \notin taping
          /\ phase' = "armed"
          /\ ListenUi(TRUE, "armed", recordOff)
          /\ UNCHANGED <<finishing, hooked, taping, stopping>>
    /\ UNCHANGED <<pageVars, enabled, stream, recorder, chunks, open,
                   busy, sendOff, begun, source, callVars>>

\* The recorder fires no more events.
Forget(r) ==
    /\ begun' = begun \ {r} /\ hooked' = hooked \ {r}
    /\ source' = [source EXCEPT ![r] = NoMic]

\* The last dataavailable and the stop event of a recorder are one task.
\* Without onstop its data only joins autoVoice.chunks.
StoppedSilently(r) ==
    /\ r \in stopping \ hooked
    /\ stopping' = stopping \ {r}
    /\ chunks' = chunks \cup {PieceOf(r)}
    /\ Forget(r)
    /\ UNCHANGED <<pageVars, enabled, phase, stream, recorder, finishing, open,
                   taping, widgetVars, callVars>>

\* What onstop does before it looks at the size of the blob.
OnStop(r) ==
    /\ r \in stopping \cap hooked
    /\ stopping' = stopping \ {r}
    /\ recorder' = NoRec /\ chunks' = {} /\ finishing' = FALSE
    /\ Forget(r)

\* Mutant: a phase nobody knows.
StoppedShort_Idle(r) ==
    /\ OnStop(r)
    /\ phase' = IF enabled THEN "armed" ELSE "idle"
    /\ ListenUi(enabled, IF enabled THEN "armed" ELSE "idle", recordOff)
    /\ UNCHANGED <<pageVars, enabled, stream, open, taping, busy, sendOff, callVars>>

\* Less than 256 bytes: no turn.
StoppedShort(r) ==
    /\ OnStop(r)
    /\ phase' = IF enabled THEN "armed" ELSE "off"
    /\ ListenUi(enabled, IF enabled THEN "armed" ELSE "off", recordOff)
    /\ UNCHANGED <<pageVars, enabled, stream, open, taping, busy, sendOff, callVars>>

\* sendTurn(blob) with a session open.
StoppedSend(r, c) ==
    /\ OnStop(r)
    /\ sessionId # NoSid
    /\ phase' = "processing"
    /\ Call(c, "voice", "post")
    /\ PostTurn(c, sessionId)
    /\ blob' = [blob EXCEPT ![c] = chunks \cup {PieceOf(r)}]
    /\ UNCHANGED <<pageVars, enabled, stream, open, taping, mic>>

\* sendTurn(blob) without one: createSession first, which stops listening.
StoppedCreate(r, c) ==
    /\ r \in stopping \cap hooked
    /\ sessionId = NoSid
    /\ orphaned' = TRUE
    /\ Call(c, "voice", "create")
    /\ blob' = [blob EXCEPT ![c] = chunks \cup {PieceOf(r)}]
    /\ Forget(r)
    /\ finishing' = FALSE /\ recorder' = NoRec /\ chunks' = {}
    /\ enabled' = FALSE
    /\ phase' = IF enabled THEN "off" ELSE "processing"
    /\ LET ending == {q \in taping : enabled /\ source[q] = stream}
       IN  /\ taping' = taping \ ending
           /\ stopping' = (stopping \ {r}) \cup ending
    /\ stream' = IF enabled THEN NoMic ELSE stream
    /\ open' = IF enabled THEN open \ {stream} ELSE open
    /\ ListenUi(FALSE, "off", IF enabled THEN RecordOffStopped ELSE recordOff)
    /\ UNCHANGED <<server, sessionId, shown, mode, busy, sendOff, sid, mic>>

\* Mutant: btnStop stops in every phase.
StopListen_AnyPhase ==
    /\ "stop" \in Acts
    /\ mode = "voice" /\ ~stopOff /\ enabled
    /\ StopAutoListen
    /\ UNCHANGED <<pageVars, busy, sendOff, recVars, callVars>>

\* btnStop while armed.  While speaking it is FinishRecording.
StopListen ==
    /\ "stop" \in Acts
    /\ mode = "voice" /\ ~stopOff /\ enabled /\ phase = "armed"
    /\ StopAutoListen
    /\ UNCHANGED <<pageVars, busy, sendOff, recVars, callVars>>

\* The Voice and Text tabs: setInputMode, applyInputModeUi.
SwitchMode(m) ==
    /\ "tab" \in Acts
    /\ mode' = m
    /\ IF m = "text" THEN StopIfEnabled ELSE UNCHANGED <<autoVars, recordOff, stopOff>>
    /\ UNCHANGED <<server, sessionId, shown, orphaned, busy, sendOff, recVars,
                   callVars>>

-----------------------------------------------------------------------------
(* Turns: Upload WAV, Send, and the answers of the server.                 *)

\* The file input is never disabled, so a turn may be under way.
Upload(c) ==
    /\ "upload" \in Acts
    /\ mode = "voice"
    /\ blob' = [blob EXCEPT ![c] = {}]
    /\ \/ /\ sessionId = NoSid
          /\ Call(c, "voice", "create")
          /\ StopIfEnabled
          /\ UNCHANGED <<busy, sendOff, sid>>
       \/ /\ sessionId # NoSid
          /\ Call(c, "voice", "post")
          /\ PostTurn(c, sessionId)
          /\ IF enabled THEN Release ELSE UNCHANGED autoVars
    /\ UNCHANGED <<pageVars, recVars, mic>>

SendText(c) ==
    /\ "text" \in Acts
    /\ mode = "text" /\ ~sendOff
    /\ \/ /\ sessionId = NoSid
          /\ Call(c, "text", "create")
          /\ StopIfEnabled
          /\ UNCHANGED <<busy, sendOff, sid>>
       \/ /\ sessionId # NoSid
          /\ Call(c, "text", "post")
          /\ PostTurn(c, sessionId)
          /\ UNCHANGED autoVars
    /\ UNCHANGED <<pageVars, recVars, mic, blob>>

\* The turn is answered: loadSession() asks for the session open now.
Posted(c) ==
    /\ pc[c] = "post"
    /\ server[sid[c]] = "live"
    /\ \/ /\ sessionId # NoSid
          /\ Goto(c, "reload")
          /\ sid' = [sid EXCEPT ![c] = sessionId]
          /\ blob' = [blob EXCEPT ![c] = {}]
          /\ UNCHANGED <<autoVars, widgetVars, kind, mic>>
       \/ /\ sessionId = NoSid
          /\ EndTurn(c)
          /\ Return(c)
    /\ UNCHANGED <<pageVars, recVars>>

\* Mutant: catch without finally.
PostFails_NoFinally(c) ==
    /\ pc[c] = "post"
    /\ server[sid[c]] = "gone" \/ "error" \in Acts
    /\ Return(c)
    /\ UNCHANGED <<pageVars, autoVars, widgetVars, recVars>>

\* An error status (the session is gone, the turn failed) or no answer: the
\* message is shown in an error box, finally runs.
PostFails(c) ==
    /\ pc[c] = "post"
    /\ server[sid[c]] = "gone" \/ "error" \in Acts
    /\ EndTurn(c)
    /\ Return(c)
    /\ UNCHANGED <<pageVars, recVars>>

Reloaded(c) ==
    /\ pc[c] = "reload"
    /\ SessionAnswer(c)
    /\ EndTurn(c)
    /\ Return(c)
    /\ UNCHANGED <<server, mode, orphaned, recVars>>

-----------------------------------------------------------------------------
Click(c) ==
    \/ OpenHistory(c) \/ NewSession(c) \/ StartListen(c)
    \/ Upload(c) \/ SendText(c)

\* What the page owes its calls: answers of the server and of the browser.
Answer(c) ==
    \/ Boot(c) \/ Loaded(c) \/ Peeked(c) \/ Created(c) \/ CreateFails(c)
    \/ Listen(c) \/ StartFails(c) \/ Posted(c) \/ PostFails(c) \/ Reloaded(c)

RecorderEvent(r) ==
    \/ StoppedSilently(r) \/ StoppedShort(r)
    \/ \E c \in Calls : StoppedSend(r, c) \/ StoppedCreate(r, c)

Next ==
    \/ \E c \in Calls : Click(c) \/ Answer(c) \/ GotMic(c)
    \/ \E r \in Recs : RecorderEvent(r) \/ Data(r)
    \/ \E s \in Sids : Deleted(s)
    \/ \E m \in {"voice", "text"} : SwitchMode(m)
    \/ BeginRecording \/ FinishRecording \/ StopListen

Spec == Init /\ [][Next]_vars

\* Requests are answered (VoiceServer, EveryRequestEnds), and the browser
\* delivers the events of a stopped recorder.  Nothing is owed by the user:
\* not a click, not a word, not the permission to use the microphone.
FairSpec ==
    /\ Spec
    /\ \A c \in Calls : WF_vars(Answer(c))
    /\ \A r \in Recs : WF_vars(RecorderEvent(r))

-----------------------------------------------------------------------------
(* Properties.                                                             *)

\* The page never locks itself up: whenever nothing is under way the busy
\* sign is gone, text can be sent, and either listening is on, alive and can
\* be stopped, or it can be started.  Several functions set the same flags
\* (setTurnBusy, updateListenUi, stopAutoListen, the finally blocks), and
\* turns, starts and recorder events may overlap in any order.
Operable ==
    Quiet =>
        /\ ~busy /\ ~sendOff
        /\ enabled => phase \in {"armed", "speaking"} /\ ~finishing /\ ~stopOff
        /\ ~enabled => ~recordOff

\* After an utterance the page listens again, or listening was switched off:
\* neither finishing nor "processing" lasts for ever (onstop, sendTurn's
\* finally, resumeAutoListenAfterTurn).
ListeningResumes ==
    (enabled /\ (finishing \/ phase = "processing")) ~>
        (~enabled \/ (~finishing /\ phase # "processing"))

\* The microphone is on only for a start under way or for the stream that
\* stopAutoListen will stop: with listening off, no tracks are left running.
MicAccounted ==
    open \subseteq {stream} \cup {mic[c] : c \in {d \in Calls : pc[d] = "resume"}}

\* The pieces of one recorder, from its first one on.
OneRecording(pieces) ==
    \E r \in Recs :
        /\ <<r, "first">> \in pieces
        /\ pieces \subseteq {r} \X {"first", "rest"}

\* Every recording that is sent is one recorder's, from its first piece on:
\* chunks is shared by all recorders and reset in three places.  The exception
\* is orphaned: sendTurn creates a session, listening is off and Start enabled
\* although a turn begins, and the finally of that turn rearms a recording.
WholeUtterance ==
    orphaned \/ \A c \in Calls : blob[c] # {} => OneRecording(blob[c])

TurnsUnderWay == {c \in Calls : kind[c] \in {"voice", "text"}}

\* One turn of the page at a time, with the same exception: Start may be
\* clicked, and the next utterance sent, beside the turn that createSession
\* belongs to.
OneTurnAtATime == orphaned \/ Cardinality(TurnsUnderWay) <= 1
=============================================================================
