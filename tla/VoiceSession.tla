---------------------------- MODULE VoiceSession ----------------------------
(***************************************************************************)
(* One hub connection: the receive loop of voice/ws.py with its            *)
(* VoiceSessionHandler (voice/service.py), and the pipeline tasks the      *)
(* handler starts, each in its own asyncio task.                           *)
(*                                                                         *)
(* The event loop is single-threaded: a step of the model is the code a    *)
(* task runs between two awaits at which it may be suspended.  A send is   *)
(* such an await (it waits under back-pressure), so a sequence "check the  *)
(* cancel event, then send" is one step and "send, then go on" is two.     *)
(* Task.cancel() takes effect at the await where the victim is suspended;  *)
(* unwinding may take several turns of the loop (database sessions and     *)
(* HTTP streams are closed on the way out), so the idle message of the     *)
(* victim's finally block comes at any later moment.                       *)
(*                                                                         *)
(* cancelSet and sessionId are attributes of the handler, shared by all    *)
(* its pipelines and read live by them: the event is replaced, not reset,  *)
(* but a pipeline always tests the current one.                            *)
(*                                                                         *)
(* Abstracted: texts, audio and confidences (an STT result is usable or    *)
(* not, an LLM stream delivers any events), the contents of the context.   *)
(* ping, unknown types and frames without the uplink tag change no state.  *)
(***************************************************************************)
EXTENDS Naturals, Sequences

CONSTANTS
    MaxTurns,    \* bound on the turns started on this connection
    MaxFrames,   \* uplink frames an utterance may hold (_MAX_UTTERANCE_BYTES)
    Sessions,    \* the session ids the hub uses
    NoSession    \* the empty id: before utterance.start, or in unlabelled messages

ASSUME VoiceConstants ==
    /\ MaxTurns \in Nat
    /\ MaxFrames \in Nat
    /\ NoSession \notin Sessions

Turns == 1 .. MaxTurns
Labels == Sessions \cup {NoSession}

VARIABLES
    open,        \* the receive loop is running
    peer,        \* the hub is still there: a send does not raise
    collecting,  \* _collecting
    audio,       \* _audio, as a number of frames
    sessionId,   \* _session_id
    turn,        \* the turn _pipeline_task belongs to, 0 for None
    cancelSet,   \* _cancel.is_set()
    pc,          \* where each turn's pipeline task is
    tts,         \* tts_started of each turn; "starting": tts.start sent, frame not yet
    answered,    \* turns whose response was sent
    history,     \* turns whose messages are committed, in commit order
    wire,        \* the last message sent, with the turn that sent it
    shown,       \* the last state value the hub was told
    origin,      \* the session id of the request that started each turn
    late         \* tool starts and audio frames of a turn already told to stop

intakeVars == <<collecting, audio, sessionId>>
wireVars == <<wire, shown>>
recordVars == <<answered, history>>
vars == <<open, peer, intakeVars, turn, cancelSet, pc, tts, recordVars, wireVars,
          origin, late>>

-----------------------------------------------------------------------------
(* Where a pipeline task can be.  "unwind" is a task that Task.cancel() was *)
(* called on, "last" one that reached its finally block by itself.          *)
Asked == {"textTask", "voiceTask"}              \* created, has not run yet
Speaking == {"speak", "flush", "repeat"}        \* in _speak, and for what
Listening == {"stt", "heard", "context"}
Answering == {"llm", "announced", "tool", "flush", "speak", "reply", "respond"}
Repeating == {"repeat", "repeatReply", "repeatRespond"}
Closing == {"stopped", "save", "roll", "failed", "last"}
Running == Asked \cup Listening \cup Answering \cup Repeating \cup Closing
Over == {"none", "unwind", "done"}

Kinds == {"none", "thinking", "idle", "stt.final", "llm.delta", "tool.running", "tool.result",
          "tts.start", "audio", "tts.end", "response", "error"}
Labelled == {"stt.final", "llm.delta", "tts.start", "tts.end", "response", "error"}

TypeOK ==
    /\ open \in BOOLEAN
    /\ peer \in BOOLEAN
    /\ collecting \in BOOLEAN
    /\ audio \in 0 .. MaxFrames
    /\ sessionId \in Labels
    /\ turn \in 0 .. MaxTurns
    /\ cancelSet \in BOOLEAN
    /\ pc \in [Turns -> Running \cup Over]
    /\ tts \in [Turns -> {"no", "starting", "yes"}]
    /\ answered \in SUBSET Turns
    /\ history \in Seq(Turns)
    /\ wire \in [kind : Kinds, turn : 0 .. MaxTurns, session : Labels]
    /\ shown \in {"none", "thinking", "idle"}
    /\ origin \in [Turns -> Labels]
    /\ late \in Nat

Init ==
    /\ open = TRUE
    /\ peer = TRUE
    /\ collecting = FALSE
    /\ audio = 0
    /\ sessionId = NoSession
    /\ turn = 0
    /\ cancelSet = FALSE
    /\ pc = [t \in Turns |-> "none"]
    /\ tts = [t \in Turns |-> "no"]
    /\ answered = {}
    /\ history = <<>>
    /\ wire = [kind |-> "none", turn |-> 0, session |-> NoSession]
    /\ shown = "none"
    /\ origin = [t \in Turns |-> NoSession]
    /\ late = 0

-----------------------------------------------------------------------------
(* Sending.                                                                *)

Message(kind, t) ==
    [kind |-> kind, turn |-> t, session |-> IF kind \in Labelled THEN sessionId ELSE NoSession]

Emit(kind, t) ==
    /\ wire' = Message(kind, t)
    /\ shown' = IF kind \in {"thinking", "idle"} THEN kind ELSE shown

Go(t, next) == pc' = [pc EXCEPT ![t] = next] /\ UNCHANGED wireVars

\* Mutant: a failed send is logged and the pipeline goes on.
SayOrGo(t, kind, next) ==
    IF peer THEN Emit(kind, t) /\ pc' = [pc EXCEPT ![t] = next] ELSE Go(t, next)

\* A pipeline sends and goes on.  With the hub gone the send raises, the except
\* branch's error message raises too, and so does the idle of the finally block.
Say(t, kind, next) ==
    IF peer
    THEN Emit(kind, t) /\ pc' = [pc EXCEPT ![t] = next]
    ELSE Go(t, "done")

\* A tool starts or a frame leaves: late if the turn was told to stop before.
Tally(t) == late' = IF cancelSet \/ t # turn THEN late + 1 ELSE late

-----------------------------------------------------------------------------
(* The receive loop.                                                       *)

\* Mutant: a replaced turn is only told through the cancel event.
CancelledByEventOnly(p) == p
\* Mutant: the cancellation is caught like any other exception.
CancelledIsFailure(p) == IF p \in Running THEN "failed" ELSE p

\* Task.cancel(): a task that never ran dies without entering its try block.
Cancelled(p) ==
    IF p \in Asked THEN "done" ELSE IF p \in Running THEN "unwind" ELSE p

\* _start_pipeline: the running turn is cancelled, not awaited, and replaced; the
\* new turn gets a fresh cancel event.
StartPipeline(task, label) ==
    /\ turn < MaxTurns
    /\ turn' = turn + 1
    /\ pc' = [t \in Turns |-> IF t = turn + 1 THEN task
                              ELSE IF t = turn THEN Cancelled(pc[t]) ELSE pc[t]]
    /\ cancelSet' = FALSE
    /\ late' = 0
    /\ origin' = [origin EXCEPT ![turn + 1] = label]
    /\ UNCHANGED <<tts, recordVars>>

UtteranceStart(s) ==
    /\ open
    /\ collecting' = TRUE
    /\ audio' = 0
    /\ sessionId' = s
    /\ UNCHANGED <<open, peer, turn, cancelSet, pc, tts, recordVars, wireVars, origin, late>>

\* _reset_utterance, for utterance.cancel
UtteranceCancel ==
    /\ open
    /\ collecting' = FALSE
    /\ audio' = 0
    /\ UNCHANGED <<open, peer, sessionId, turn, cancelSet, pc, tts, recordVars, wireVars,
                   origin, late>>

\* Mutant: the length check lets one frame too many in.
FitsWithOneMore == audio <= MaxFrames
Fits == audio < MaxFrames

AudioFrame ==
    /\ open
    /\ collecting
    /\ IF Fits
       THEN audio' = audio + 1 /\ UNCHANGED <<collecting, wireVars>>
       ELSE /\ audio' = 0
            /\ collecting' = FALSE
            /\ peer
            /\ Emit("error", 0)
    /\ UNCHANGED <<open, peer, sessionId, turn, cancelSet, pc, tts, recordVars, origin, late>>

\* utterance.end: its session id is not read, the label stays utterance.start's.
UtteranceEnd ==
    /\ open
    /\ collecting
    /\ collecting' = FALSE
    /\ audio' = 0
    /\ StartPipeline("voiceTask", sessionId)
    /\ UNCHANGED <<open, peer, sessionId, wireVars>>

\* text.query: the session id of the message is not read either.
TextQuery(s) ==
    /\ open
    /\ StartPipeline("textTask", s)
    /\ UNCHANGED <<open, peer, intakeVars, wireVars>>

\* _barge_in for tts.cancel: sets the event of the current turn, whichever turn the
\* hub meant.  The provider's cancel only makes the next stream event come sooner.
TtsCancel ==
    /\ open
    /\ cancelSet' = TRUE
    /\ UNCHANGED <<open, peer, intakeVars, turn, pc, tts, recordVars, wireVars, origin, late>>

BadMessage ==
    /\ open
    /\ peer
    /\ Emit("error", 0)
    /\ UNCHANGED <<open, peer, intakeVars, turn, cancelSet, pc, tts, recordVars, origin, late>>

\* The hub vanishes; the receive loop has not read the disconnect yet.
PeerGone ==
    /\ peer
    /\ peer' = FALSE
    /\ UNCHANGED <<open, intakeVars, turn, cancelSet, pc, tts, recordVars, wireVars, origin,
                   late>>

\* The loop ends (disconnect read, or a reply of the loop itself raised): close().
Disconnect ==
    /\ open
    /\ open' = FALSE
    /\ peer' = FALSE
    /\ pc' = [t \in Turns |-> IF t = turn THEN Cancelled(pc[t]) ELSE pc[t]]
    /\ UNCHANGED <<intakeVars, turn, cancelSet, tts, recordVars, wireVars, origin, late>>

ReceiveLoop ==
    \/ \E s \in Sessions : UtteranceStart(s) \/ TextQuery(s)
    \/ UtteranceCancel \/ AudioFrame \/ UtteranceEnd
    \/ TtsCancel \/ BadMessage \/ Disconnect

-----------------------------------------------------------------------------
(* _run_pipeline.  What a pipeline step leaves alone is the same for all.  *)

Aside == UNCHANGED <<open, peer, intakeVars, turn, cancelSet, origin>>

Begin(t) ==
    /\ pc[t] \in Asked
    /\ Go(t, IF pc[t] = "textTask" THEN "heard" ELSE "stt")
    /\ Aside /\ UNCHANGED <<tts, recordVars, late>>

\* A usable transcript is announced; an empty or doubtful one is asked again.
Transcribed(t) ==
    /\ pc[t] = "stt"
    /\ Say(t, "stt.final", "heard") \/ Go(t, "repeat")
    /\ Aside /\ UNCHANGED <<tts, recordVars, late>>

Think(t) ==
    /\ pc[t] = "heard"
    /\ Say(t, "thinking", "context")
    /\ Aside /\ UNCHANGED <<tts, recordVars, late>>

ContextLoaded(t) ==
    /\ pc[t] = "context"
    /\ Go(t, "llm")
    /\ Aside /\ UNCHANGED <<tts, recordVars, late>>

\* Mutant: the barge-in is not looked at between two LLM events.
NoticeNothing == FALSE
\* Whether a pipeline sees, at this moment, that it was told to stop.
ToldToStop == cancelSet

LlmDelta(t) ==
    /\ pc[t] = "llm"
    /\ ~ToldToStop
    /\ \E next \in {"llm", "speak"} : Say(t, "llm.delta", next)
    /\ Aside /\ UNCHANGED <<tts, recordVars, late>>

ToolRunning(t) ==
    /\ pc[t] = "llm"
    /\ ~ToldToStop
    /\ Say(t, "tool.running", "announced")
    /\ Aside /\ UNCHANGED <<tts, recordVars, late>>

\* Control went back into run_turn: the tool runs whatever happened meanwhile.
ToolStart(t) ==
    /\ pc[t] = "announced"
    /\ Go(t, "tool")
    /\ Tally(t)
    /\ Aside /\ UNCHANGED <<tts, recordVars>>

ToolEnd(t) ==
    /\ pc[t] = "tool"
    /\ IF ToldToStop THEN Go(t, "stopped") ELSE Say(t, "tool.result", "llm")
    /\ Aside /\ UNCHANGED <<tts, recordVars, late>>

\* The stream ends: the turn's text is complete, or the loop broke on the event.
StreamEnds(t) ==
    /\ pc[t] = "llm"
    /\ Go(t, IF ToldToStop THEN "stopped" ELSE "flush")
    /\ Aside /\ UNCHANGED <<tts, recordVars, late>>

\* The first idle of a turn that broke off; the finally block sends another.
StopIdle(t) ==
    /\ pc[t] = "stopped"
    /\ Say(t, "idle", "last")
    /\ Aside /\ UNCHANGED <<tts, recordVars, late>>

\* Mutant: the last sentence is spoken again and again.
AfterSpeakAgain(p) == IF p = "repeat" THEN "repeatReply" ELSE IF p = "speak" THEN "llm" ELSE p
AfterSpeak(p) ==
    CASE p = "speak" -> "llm"
      [] p = "flush" -> "reply"
      [] OTHER -> "repeatReply"

\* _speak: the event is tested per chunk, then tts.start, if due, and the frame go out.
SpeakChunk(t) ==
    /\ pc[t] \in Speaking
    /\ peer
    /\ \/ /\ tts[t] = "no" /\ ~ToldToStop
          /\ Say(t, "tts.start", pc[t])
          /\ tts' = [tts EXCEPT ![t] = "starting"]
          /\ UNCHANGED late
       \/ /\ tts[t] = "starting" \/ (tts[t] = "yes" /\ ~ToldToStop)
          /\ Say(t, "audio", pc[t])
          /\ tts' = [tts EXCEPT ![t] = "yes"]
          /\ Tally(t)
    /\ Aside /\ UNCHANGED recordVars

\* The sentence ends, is cut by the event, or failed (TTS or send): _speak swallows it.
SpeakReturns(t) ==
    /\ pc[t] \in Speaking
    /\ tts[t] # "starting" \/ ~peer
    /\ Go(t, AfterSpeak(pc[t]))
    /\ tts' = [tts EXCEPT ![t] = IF @ = "starting" THEN "yes" ELSE @]
    /\ Aside /\ UNCHANGED <<recordVars, late>>

TtsEnd(t) ==
    /\ pc[t] \in {"reply", "repeatReply"}
    /\ LET next == IF pc[t] = "reply" THEN "respond" ELSE "repeatRespond" IN
       IF tts[t] = "yes" THEN Say(t, "tts.end", next) ELSE Go(t, next)
    /\ Aside /\ UNCHANGED <<tts, recordVars, late>>

\* The response: an answer goes on to the history, a fixed phrase does not.
Respond(t) ==
    /\ pc[t] \in {"respond", "repeatRespond"}
    /\ Say(t, "response", IF pc[t] = "respond" THEN "save" ELSE "last")
    /\ answered' = IF peer THEN answered \cup {t} ELSE answered
    /\ Aside /\ UNCHANGED <<tts, history, late>>

\* append_messages commits; a cancellation before this step leaves nothing behind.
Save(t) ==
    /\ pc[t] = "save"
    /\ Go(t, "roll")
    /\ history' = Append(history, t)
    /\ Aside /\ UNCHANGED <<tts, answered, late>>

RollSummary(t) ==
    /\ pc[t] = "roll"
    /\ Go(t, "last")
    /\ Aside /\ UNCHANGED <<tts, recordVars, late>>

\* STT, the database, the LLM or the summary raises: pipeline_failed.
Raises(t) ==
    /\ pc[t] \in {"stt", "context", "llm", "save", "roll"}
    /\ Go(t, "failed")
    /\ Aside /\ UNCHANGED <<tts, recordVars, late>>

\* Mutant: the error message is the last word of a failed turn.
ReportAndQuit(t) ==
    /\ pc[t] = "failed"
    /\ Say(t, "error", "done")
    /\ Aside /\ UNCHANGED <<tts, recordVars, late>>

ReportFailure(t) ==
    /\ pc[t] = "failed"
    /\ Say(t, "error", "last")
    /\ Aside /\ UNCHANGED <<tts, recordVars, late>>

\* The finally block, reached by itself or through CancelledError.
FinallyIdle(t) ==
    /\ pc[t] \in {"last", "unwind"}
    /\ Say(t, "idle", "done")
    /\ Aside /\ UNCHANGED <<tts, recordVars, late>>

Pipeline(t) ==
    \/ Begin(t) \/ Transcribed(t) \/ Think(t) \/ ContextLoaded(t)
    \/ LlmDelta(t) \/ ToolRunning(t) \/ ToolStart(t) \/ ToolEnd(t) \/ StreamEnds(t) \/ StopIdle(t)
    \/ SpeakChunk(t) \/ SpeakReturns(t) \/ TtsEnd(t) \/ Respond(t)
    \/ Save(t) \/ RollSummary(t) \/ Raises(t) \/ ReportFailure(t) \/ FinallyIdle(t)

Next == ReceiveLoop \/ PeerGone \/ \E t \in Turns : Pipeline(t)

Spec == Init /\ [][Next]_vars

\* A ready task is run, and STT, TTS, the database and the summary call answer or
\* raise.  The frames of a sentence run out, and an LLM stream may yield many events but
\* ends: the providers cap the tokens and run_turn its iterations.
Fairness ==
    \A t \in Turns :
        WF_vars(Pipeline(t)) /\ WF_vars(SpeakReturns(t)) /\ SF_vars(StreamEnds(t))

FairSpec == Spec /\ Fairness

-----------------------------------------------------------------------------
(* Safety.                                                                 *)

\* Serial processing per hub (design section 8): of all the pipeline tasks a
\* connection ever started, only the handler's current one can still act; the others
\* ended or are unwinding, and after close() none acts.
OneTurnAtATime ==
    /\ \A t \in Turns : pc[t] \in Running => t = turn
    /\ ~open => \A t \in Turns : pc[t] \notin Running

\* The hub is never left showing "thinking": once every pipeline is over, however the
\* cancellations interleaved with the finally blocks, the last state it was told is
\* not "thinking".
LastWordIsIdle ==
    (peer /\ \A t \in Turns : pc[t] \in {"none", "done"}) => shown # "thinking"

\* Barge-in stops a turn at its next await: at most one tool start, or one audio frame,
\* that was already announced gets through afterwards.
AtMostOneLateEffect == late <= 1

\* Once its turn was told to stop, a pipeline begins nothing new towards the hub: no
\* further subtitle, tool or speech.
BargeInIsHeard ==
    [][(wire' # wire /\ wire'.kind \in {"llm.delta", "tool.running", "tts.start"})
           => ~cancelSet]_vars

\* A turn replaced by a newer one says nothing but idle any more: no response, no
\* audio and no error of an old turn can appear in the middle of the new one.
ReplacedTurnsOnlySayIdle ==
    [][(wire' # wire /\ wire'.turn # 0 /\ wire'.turn < turn) => wire'.kind = "idle"]_vars

\* The connection implements the ledger of its turns: the acting turn is the handler's
\* current one while its task was not cancelled, and the history is committed by it.
Acting == IF \E t \in Turns : t = turn /\ pc[t] \in Running THEN turn ELSE 0
Ledger == INSTANCE TurnLedger WITH opened <- turn, acting <- Acting, remembered <- history
ImplementsLedger == Ledger!LedgerSpec
\* The history of the connection holds answered turns only, each once and in order.
HistoryInOrder == Ledger!HistoryFollowsAnswers

\* Every turn that was started ends.
TurnsEnd == \A t \in Turns : (pc[t] \in Running \cup {"unwind"}) ~> (pc[t] = "done")

-----------------------------------------------------------------------------
(* What the documents say and the code does not do.                        *)

\* docs section 5-1: a labelled message carries the session id of the request it
\* answers.
RepliesCarryTheirSession ==
    [][(wire' # wire /\ wire'.turn # 0 /\ wire'.kind \in Labelled)
           => wire'.session = origin[wire'.turn]]_vars
=============================================================================
