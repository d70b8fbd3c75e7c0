------------------------ MODULE VoiceSession_proofs ------------------------
(* Proofs about VoiceSession, for any number of turns, frames and sessions. *)
EXTENDS VoiceSession, TLAPS

Places == Running \cup Over
\* Before its response, a turn is somewhere in here.
PreAnswer == Asked \cup Listening \cup Answering \cup Repeating \cup {"none"}
Messages == [kind : Kinds, turn : 0 .. MaxTurns, session : Labels]

\* A message of a known kind, from a turn or from the receive loop, is well formed.
LEMMA EmitType ==
    ASSUME TypeOK, NEW kind \in Kinds, NEW t \in 0 .. MaxTurns, Emit(kind, t)
    PROVE  wire' \in Messages /\ shown' \in {"none", "thinking", "idle"}
  <1>1. Message(kind, t) \in Messages
    BY VoiceConstants DEF TypeOK, Message, Messages, Labels
  <1>2. shown' \in {"none", "thinking", "idle"}
    BY DEF Emit, TypeOK
  <1>3. QED
    BY <1>1, <1>2 DEF Emit

\* What one step of a pipeline may do to the places of the tasks: it moves its own
\* task, which was not over, and a cancelled task only ends.
Moves(t) ==
    \E p \in Running \cup {"done"} :
        /\ pc' = [pc EXCEPT ![t] = p]
        /\ pc[t] \in Running \/ (pc[t] = "unwind" /\ p = "done")
        /\ p \in PreAnswer => pc[t] \in PreAnswer

WireOK == wire' \in Messages /\ shown' \in {"none", "thinking", "idle"}

LEMMA SayMoves ==
    ASSUME TypeOK, NEW t \in Turns, NEW kind \in Kinds, NEW p \in Running \cup {"done"},
           Say(t, kind, p),
           pc[t] \in Running \/ (pc[t] = "unwind" /\ p = "done"),
           p \in PreAnswer => pc[t] \in PreAnswer
    PROVE  Moves(t) /\ WireOK
  <1>1. CASE peer
    <2>1. Emit(kind, t) /\ pc' = [pc EXCEPT ![t] = p]
      BY <1>1 DEF Say
    <2>2. t \in 0 .. MaxTurns
      BY VoiceConstants DEF Turns
    <2>3. QED
      BY <2>1, <2>2, EmitType DEF Moves, WireOK
  <1>2. CASE ~peer
    <2>1. pc' = [pc EXCEPT ![t] = "done"] /\ UNCHANGED wireVars
      BY <1>2 DEF Say, Go
    <2>2. WireOK
      BY <2>1 DEF TypeOK, WireOK, Messages, wireVars
    <2>3. "done" \notin PreAnswer
      BY DEF PreAnswer, Asked, Listening, Answering, Repeating
    <2>4. QED
      BY <2>1, <2>2, <2>3 DEF Moves
  <1>3. QED
    BY <1>1, <1>2

LEMMA GoMoves ==
    ASSUME TypeOK, NEW t \in Turns, NEW p \in Running \cup {"done"}, Go(t, p),
           pc[t] \in Running, p \in PreAnswer => pc[t] \in PreAnswer
    PROVE  Moves(t) /\ WireOK
  BY DEF Go, Moves, WireOK, TypeOK, Messages, wireVars

\* Every step of a pipeline is such a move.
LEMMA PipelineMoves ==
    ASSUME TypeOK, NEW t \in Turns, Pipeline(t)
    PROVE  Moves(t) /\ WireOK
  <1> USE DEF Running, Asked, Listening, Answering, Repeating, Closing, Speaking, Kinds, PreAnswer
  <1>1. CASE Begin(t)
    BY <1>1, GoMoves DEF Begin
  <1>2. CASE Transcribed(t)
    BY <1>2, GoMoves, SayMoves DEF Transcribed
  <1>3. CASE Think(t)
    BY <1>3, SayMoves DEF Think
  <1>4. CASE ContextLoaded(t)
    BY <1>4, GoMoves DEF ContextLoaded
  <1>5. CASE LlmDelta(t)
    BY <1>5, SayMoves DEF LlmDelta
  <1>6. CASE ToolRunning(t)
    BY <1>6, SayMoves DEF ToolRunning
  <1>7. CASE ToolStart(t)
    BY <1>7, GoMoves DEF ToolStart
  <1>8. CASE ToolEnd(t)
    BY <1>8, GoMoves, SayMoves DEF ToolEnd
  <1>9. CASE StreamEnds(t)
    BY <1>9, GoMoves DEF StreamEnds
  <1>10. CASE StopIdle(t)
    BY <1>10, SayMoves DEF StopIdle
  <1>11. CASE SpeakChunk(t)
    BY <1>11, SayMoves DEF SpeakChunk
  <1>12. CASE SpeakReturns(t)
    BY <1>12, GoMoves DEF SpeakReturns, AfterSpeak
  <1>13. CASE TtsEnd(t)
    BY <1>13, GoMoves, SayMoves DEF TtsEnd
  <1>14. CASE Respond(t)
    BY <1>14, SayMoves DEF Respond
  <1>15. CASE Save(t)
    BY <1>15, GoMoves DEF Save
  <1>16. CASE RollSummary(t)
    BY <1>16, GoMoves DEF RollSummary
  <1>17. CASE Raises(t)
    BY <1>17, GoMoves DEF Raises
  <1>18. CASE ReportFailure(t)
    BY <1>18, SayMoves DEF ReportFailure
  <1>19. CASE FinallyIdle(t)
    BY <1>19, SayMoves DEF FinallyIdle
  <1>20. QED
    BY <1>1, <1>2, <1>3, <1>4, <1>5, <1>6, <1>7, <1>8, <1>9, <1>10, <1>11, <1>12, <1>13,
       <1>14, <1>15, <1>16, <1>17, <1>18, <1>19 DEF Pipeline

\* What the pipeline steps do to the records: nothing, one response or one commit.
Records(t) ==
    \/ UNCHANGED recordVars /\ pc'[t] # "save"
    \/ Respond(t)
    \/ Save(t)

LEMMA PipelineLeaves ==
    ASSUME TypeOK, NEW t \in Turns, Pipeline(t)
    PROVE  /\ Aside
           /\ tts' \in [Turns -> {"no", "starting", "yes"}]
           /\ late' \in Nat
           /\ Records(t)
  <1> USE DEF TypeOK, recordVars, Records, Say, Go
  <1>1. CASE ToolStart(t)
    BY <1>1 DEF ToolStart, Tally
  <1>2. CASE SpeakChunk(t)
    <2>1. late' \in Nat /\ tts' \in [Turns -> {"no", "starting", "yes"}]
      BY <1>2 DEF SpeakChunk, Tally
    <2>2. pc'[t] # "save"
      BY <1>2 DEF SpeakChunk, Speaking
    <2>3. QED
      BY <1>2, <2>1, <2>2 DEF SpeakChunk
  <1>3. CASE SpeakReturns(t)
    BY <1>3 DEF SpeakReturns, AfterSpeak
  <1>4. CASE Respond(t)
    BY <1>4 DEF Respond
  <1>5. CASE Save(t)
    BY <1>5 DEF Save
  <1>6. CASE Begin(t) \/ Transcribed(t) \/ Think(t) \/ ContextLoaded(t)
    BY <1>6 DEF Begin, Transcribed, Think, ContextLoaded
  <1>7. CASE LlmDelta(t) \/ ToolRunning(t) \/ ToolEnd(t) \/ StreamEnds(t) \/ StopIdle(t)
    BY <1>7 DEF LlmDelta, ToolRunning, ToolEnd, StreamEnds, StopIdle
  <1>8. CASE TtsEnd(t) \/ RollSummary(t) \/ Raises(t) \/ ReportFailure(t) \/ FinallyIdle(t)
    BY <1>8 DEF TtsEnd, RollSummary, Raises, ReportFailure, FinallyIdle
  <1>9. QED
    BY <1>1, <1>2, <1>3, <1>4, <1>5, <1>6, <1>7, <1>8 DEF Pipeline

LEMMA PipelineType ==
    ASSUME TypeOK, NEW t \in Turns, Pipeline(t)
    PROVE  TypeOK'
  <1>1. Moves(t) /\ WireOK
    BY PipelineMoves
  <1>2. pc' \in [Turns -> Places]
    BY <1>1 DEF Moves, TypeOK, Places, Over
  <1>3. /\ Aside
        /\ tts' \in [Turns -> {"no", "starting", "yes"}]
        /\ late' \in Nat
        /\ Records(t)
    BY PipelineLeaves
  <1>4. answered' \in SUBSET Turns /\ history' \in Seq(Turns)
    <2>1. CASE UNCHANGED recordVars
      BY <2>1 DEF TypeOK, recordVars
    <2>2. CASE Respond(t)
      BY <2>2 DEF Respond, TypeOK
    <2>3. CASE Save(t)
      BY <2>3 DEF Save, TypeOK
    <2>4. QED
      BY <1>3, <2>1, <2>2, <2>3 DEF Records
  <1>5. QED
    BY <1>1, <1>2, <1>3, <1>4 DEF TypeOK, Aside, WireOK, Messages, Places, intakeVars

\* A request that starts a pipeline keeps the handler's variables in their types.
LEMMA StartType ==
    ASSUME TypeOK, NEW task \in Asked, NEW label \in Labels, StartPipeline(task, label)
    PROVE  /\ turn' \in 0 .. MaxTurns
           /\ cancelSet' \in BOOLEAN
           /\ pc' \in [Turns -> Places]
           /\ late' \in Nat
           /\ origin' \in [Turns -> Labels]
           /\ UNCHANGED <<tts, recordVars>>
  <1>1. turn' \in 0 .. MaxTurns /\ turn + 1 \in Turns
    BY VoiceConstants DEF StartPipeline, TypeOK, Turns
  <1>2. \A p \in Places : Cancelled(p) \in Places
    BY DEF Cancelled, Places, Over
  <1>3. pc' \in [Turns -> Places]
    BY <1>2 DEF StartPipeline, TypeOK, Places, Running
  <1>4. QED
    BY <1>1, <1>3 DEF StartPipeline, TypeOK

LEMMA LoopType ==
    ASSUME TypeOK, ReceiveLoop
    PROVE  TypeOK'
  <1>1. ASSUME NEW s \in Sessions, UtteranceStart(s) PROVE TypeOK'
    BY <1>1, VoiceConstants DEF UtteranceStart, TypeOK, recordVars, wireVars, Labels
  <1>2. ASSUME NEW s \in Sessions, TextQuery(s) PROVE TypeOK'
    <2>1. s \in Labels /\ "textTask" \in Asked
      BY DEF Labels, Asked
    <2>2. QED
      BY <1>2, <2>1, StartType
         DEF TextQuery, TypeOK, intakeVars, wireVars, recordVars, Places
  <1>3. CASE UtteranceCancel
    <2>1. collecting' \in BOOLEAN
      BY <1>3, Zenon DEF UtteranceCancel
    <2>2. QED
      BY <1>3, <2>1, VoiceConstants DEF UtteranceCancel, TypeOK, recordVars, wireVars
  <1>4. CASE AudioFrame
    <2>1. CASE Fits
      BY <1>4, <2>1, VoiceConstants DEF AudioFrame, Fits, TypeOK, recordVars, wireVars
    <2>2. CASE ~Fits
      <3>1. "error" \in Kinds /\ 0 \in 0 .. MaxTurns
        BY VoiceConstants DEF Kinds
      <3>2. wire' \in Messages /\ shown' \in {"none", "thinking", "idle"}
        BY <1>4, <2>2, <3>1, EmitType DEF AudioFrame
      <3>3. collecting' \in BOOLEAN
        BY <1>4, <2>2, Zenon DEF AudioFrame
      <3>4. QED
        BY <1>4, <2>2, <3>2, <3>3, VoiceConstants DEF AudioFrame, TypeOK, recordVars, Messages
    <2>3. QED
      BY <2>1, <2>2
  <1>5. CASE UtteranceEnd
    <2>1. sessionId \in Labels /\ "voiceTask" \in Asked
      BY DEF TypeOK, Asked
    <2>2. collecting' \in BOOLEAN
      BY <1>5, Zenon DEF UtteranceEnd
    <2>3. QED
      BY <1>5, <2>1, <2>2, StartType, VoiceConstants
         DEF UtteranceEnd, TypeOK, wireVars, recordVars, Places
  <1>6. CASE TtsCancel
    BY <1>6 DEF TtsCancel, TypeOK, intakeVars, recordVars, wireVars
  <1>7. CASE BadMessage
    <2>1. "error" \in Kinds /\ 0 \in 0 .. MaxTurns
      BY VoiceConstants DEF Kinds
    <2>2. wire' \in Messages /\ shown' \in {"none", "thinking", "idle"}
      BY <1>7, <2>1, EmitType DEF BadMessage
    <2>3. QED
      BY <1>7, <2>2 DEF BadMessage, TypeOK, intakeVars, recordVars, Messages
  <1>8. CASE Disconnect
    <2>1. \A p \in Places : Cancelled(p) \in Places
      BY DEF Cancelled, Places, Over
    <2>2. pc' \in [Turns -> Places]
      BY <1>8, <2>1 DEF Disconnect, TypeOK, Places
    <2>3. QED
      BY <1>8, <2>2 DEF Disconnect, TypeOK, intakeVars, recordVars, wireVars, Places
  <1>9. QED
    BY <1>1, <1>2, <1>3, <1>4, <1>5, <1>6, <1>7, <1>8 DEF ReceiveLoop

-----------------------------------------------------------------------------
(* Every variable of the connection keeps its type.                        *)
THEOREM TypeCorrect == Spec => []TypeOK
  <1>1. Init => TypeOK
    <2> SUFFICES ASSUME Init PROVE TypeOK
      OBVIOUS
    <2>1. wire \in Messages
      BY VoiceConstants DEF Init, Messages, Kinds, Labels
    <2>2. open \in BOOLEAN /\ peer \in BOOLEAN /\ collecting \in BOOLEAN /\ cancelSet \in BOOLEAN
      BY Zenon DEF Init
    <2>3. QED
      BY <2>1, <2>2, VoiceConstants DEF Init, TypeOK, Messages, Labels, Over
  <1>2. TypeOK /\ [Next]_vars => TypeOK'
    <2> SUFFICES ASSUME TypeOK, [Next]_vars PROVE TypeOK'
      OBVIOUS
    <2>1. CASE ReceiveLoop
      BY <2>1, LoopType
    <2>2. CASE PeerGone
      BY <2>2 DEF PeerGone, TypeOK, intakeVars, recordVars, wireVars
    <2>3. ASSUME NEW t \in Turns, Pipeline(t) PROVE TypeOK'
      BY <2>3, PipelineType
    <2>4. CASE UNCHANGED vars
      BY <2>4 DEF vars, TypeOK, intakeVars, recordVars, wireVars
    <2>5. QED
      BY <2>1, <2>2, <2>3, <2>4 DEF Next
  <1>3. QED
    BY <1>1, <1>2, PTL DEF Spec

-----------------------------------------------------------------------------
(* Serial processing.  OneTurnAtATime is not inductive: a turn not started *)
(* yet could be anywhere.  It becomes so with the first conjunct below.    *)
SerialInv ==
    /\ \A t \in Turns : t > turn => pc[t] = "none"
    /\ OneTurnAtATime

\* A replaced or disconnected task is no longer running.
LEMMA CancelledStops == \A p \in Places : Cancelled(p) \in Over
  BY DEF Cancelled, Places, Over, Running, Asked

LEMMA StartKeepsSerial ==
    ASSUME TypeOK, SerialInv, open, UNCHANGED open,
           NEW task \in Asked, NEW label \in Labels, StartPipeline(task, label)
    PROVE  SerialInv'
  <1>1. turn' = turn + 1 /\ turn \in Nat
    BY VoiceConstants DEF StartPipeline, TypeOK
  <1>2. ASSUME NEW t \in Turns, t # turn + 1 PROVE pc'[t] \notin Running
    <2>1. CASE t = turn
      <3>1. pc'[t] = Cancelled(pc[t]) /\ pc[t] \in Places
        BY <1>1, <2>1 DEF StartPipeline, TypeOK, Places
      <3>2. QED
        BY <3>1, CancelledStops
           DEF Over, Running, Asked, Listening, Answering, Repeating, Closing
    <2>2. CASE t # turn
      BY <1>2, <2>2 DEF StartPipeline, SerialInv, OneTurnAtATime
    <2>3. QED
      BY <2>1, <2>2
  <1>3. ASSUME NEW t \in Turns, t > turn + 1 PROVE pc'[t] = "none"
    BY <1>1, <1>3 DEF StartPipeline, SerialInv, Turns
  <1>4. QED
    BY <1>1, <1>2, <1>3 DEF SerialInv, OneTurnAtATime

LEMMA SerialStep == TypeOK /\ SerialInv /\ [Next]_vars => SerialInv'
  <1> SUFFICES ASSUME TypeOK, SerialInv, [Next]_vars PROVE SerialInv'
    OBVIOUS
  <1>1. CASE UNCHANGED <<open, turn, pc>>
    BY <1>1 DEF SerialInv, OneTurnAtATime
  <1>2. ASSUME NEW s \in Sessions, TextQuery(s) PROVE SerialInv'
    BY <1>2, StartKeepsSerial DEF TextQuery, Labels, Asked
  <1>3. CASE UtteranceEnd
    BY <1>3, StartKeepsSerial DEF UtteranceEnd, Asked, TypeOK
  <1>4. CASE Disconnect
    <2>1. \A t \in Turns : pc'[t] \notin Running
      <3> TAKE t \in Turns
      <3>1. CASE t = turn
        <4>1. pc'[t] = Cancelled(pc[t]) /\ pc[t] \in Places
          BY <1>4, <3>1 DEF Disconnect, TypeOK, Places
        <4>2. QED
          BY <4>1, CancelledStops
             DEF Over, Running, Asked, Listening, Answering, Repeating, Closing
      <3>2. CASE t # turn
        BY <1>4, <3>2 DEF Disconnect, SerialInv, OneTurnAtATime
      <3>3. QED
        BY <3>1, <3>2
    <2>2. \A t \in Turns : t > turn => pc'[t] = "none"
      BY <1>4, VoiceConstants DEF Disconnect, SerialInv, TypeOK, Turns
    <2>3. QED
      BY <1>4, <2>1, <2>2 DEF Disconnect, SerialInv, OneTurnAtATime
  <1>5. ASSUME NEW t \in Turns, Pipeline(t) PROVE SerialInv'
    <2>1. Moves(t) /\ UNCHANGED <<open, turn>>
      BY <1>5, PipelineMoves, PipelineLeaves DEF Aside
    <2>2. PICK p \in Running \cup {"done"} :
            /\ pc' = [pc EXCEPT ![t] = p]
            /\ pc[t] \in Running \/ (pc[t] = "unwind" /\ p = "done")
      BY <2>1 DEF Moves
    <2>3. pc[t] # "none"
      BY <2>2 DEF Running, Asked, Listening, Answering, Repeating, Closing, Speaking
    <2>4. p \in Running => pc[t] \in Running
      BY <2>2 DEF Running, Asked, Listening, Answering, Repeating, Closing, Speaking
    <2>5. ~ t > turn
      BY <2>3 DEF SerialInv
    <2>6. \A u \in Turns : pc'[u] \in Running => pc[u] \in Running
      BY <2>2, <2>4 DEF TypeOK
    <2>7. \A u \in Turns : u > turn => pc'[u] = "none"
      BY <2>2, <2>5 DEF TypeOK, SerialInv
    <2>8. QED
      BY <2>1, <2>6, <2>7 DEF SerialInv, OneTurnAtATime
  <1>6. CASE UNCHANGED vars
    BY <1>6, <1>1 DEF vars
  <1>7. QED
    BY <1>1, <1>2, <1>3, <1>4, <1>5, <1>6
       DEF Next, ReceiveLoop, UtteranceStart, UtteranceCancel, AudioFrame, TtsCancel, BadMessage,
           PeerGone

(* However the hub's requests, barge-ins and disconnects fall between the  *)
(* pipeline's awaits, only the newest turn of a connection can act.        *)
THEOREM SerialProcessing == Spec => []OneTurnAtATime
  <1>1. Init => SerialInv
    BY DEF Init, SerialInv, OneTurnAtATime, Running, Asked, Listening, Answering, Repeating,
           Closing, Speaking
  <1>2. SerialInv => OneTurnAtATime
    BY DEF SerialInv
  <1>3. QED
    BY <1>1, <1>2, TypeCorrect, SerialStep, PTL DEF Spec

-----------------------------------------------------------------------------
(* The records.  The history is in turn order because only the newest turn *)
(* commits, and only from the one place its response leads to.             *)
RecordInv ==
    /\ \A t \in Turns : pc[t] \in PreAnswer => t \notin answered
    /\ \A t \in Turns : pc[t] = "save" =>
           t \in answered /\ \A i \in DOMAIN history : history[i] # t
    /\ HistoryInOrder

OrderInv == TypeOK /\ SerialInv /\ RecordInv

\* The history holds no turn later than the handler's current one.
LEMMA HistoryIsPast ==
    ASSUME OrderInv, NEW i \in DOMAIN history
    PROVE  history[i] \in answered /\ history[i] \in Turns /\ history[i] <= turn
  <1>1. history[i] \in answered /\ history[i] \in Turns
    BY DEF OrderInv, RecordInv, TypeOK, HistoryInOrder, Ledger!HistoryFollowsAnswers
  <1>2. pc[history[i]] # "none"
    BY <1>1 DEF OrderInv, RecordInv, PreAnswer
  <1>3. QED
    BY <1>1, <1>2, VoiceConstants DEF OrderInv, SerialInv, TypeOK, Turns

LEMMA RecordPipelineStep ==
    ASSUME OrderInv, NEW t \in Turns, Pipeline(t)
    PROVE  RecordInv'
  <1> USE DEF OrderInv
  <1>1. PICK p \in Running \cup {"done"} :
          /\ pc' = [pc EXCEPT ![t] = p]
          /\ p \in PreAnswer => pc[t] \in PreAnswer
    BY PipelineMoves DEF Moves
  <1>2. \A u \in Turns : pc'[u] \in PreAnswer => pc[u] \in PreAnswer
    BY <1>1 DEF TypeOK
  <1>3. pc'[t] = p /\ \A u \in Turns : u # t => pc'[u] = pc[u]
    BY <1>1 DEF TypeOK
  <1>4. CASE UNCHANGED recordVars /\ pc'[t] # "save"
    BY <1>2, <1>3, <1>4
       DEF RecordInv, HistoryInOrder, Ledger!HistoryFollowsAnswers, recordVars
  <1>5. CASE Respond(t)
    <2>1. pc[t] \in PreAnswer /\ pc'[t] \notin PreAnswer
      BY <1>5 DEF Respond, Say, Go, TypeOK, PreAnswer, Answering, Repeating, Asked, Listening
    <2>2. t \notin answered /\ \A i \in DOMAIN history : history[i] # t
      BY <2>1, HistoryIsPast DEF RecordInv
    <2>3. history' = history /\ answered \subseteq answered' /\ answered' \subseteq answered \cup {t}
      BY <1>5 DEF Respond
    <2>4. pc'[t] = "save" => t \in answered'
      BY <1>5 DEF Respond, Say, Go, TypeOK
    <2>5. \A u \in Turns : pc'[u] \in PreAnswer => u \notin answered'
      BY <1>2, <2>1, <2>3 DEF RecordInv
    <2>6. HistoryInOrder'
      BY <2>3 DEF RecordInv, HistoryInOrder, Ledger!HistoryFollowsAnswers
    <2>7. \A u \in Turns : pc'[u] = "save" =>
            u \in answered' /\ \A i \in DOMAIN history' : history'[i] # u
      BY <1>3, <2>2, <2>3, <2>4 DEF RecordInv
    <2>8. QED
      BY <2>5, <2>6, <2>7 DEF RecordInv
  <1>6. CASE Save(t)
    <2>1. /\ pc[t] = "save" /\ pc'[t] = "roll"
          /\ history' = Append(history, t) /\ answered' = answered
      BY <1>6 DEF Save, Go, TypeOK
    <2>2. t = turn
      BY <2>1 DEF SerialInv, OneTurnAtATime, Running, Closing
    <2>3. t \in answered /\ \A i \in DOMAIN history : history[i] # t
      BY <2>1 DEF RecordInv
    <2>4. \A i \in DOMAIN history : history[i] < t /\ history[i] \in answered
      BY <2>2, <2>3, HistoryIsPast, VoiceConstants DEF TypeOK, Turns
    <2>5. /\ Len(history) \in Nat /\ DOMAIN history = 1 .. Len(history)
          /\ DOMAIN history' = 1 .. Len(history) + 1
          /\ \A i \in 1 .. Len(history) : history'[i] = history[i]
          /\ history'[Len(history) + 1] = t
      BY <2>1 DEF TypeOK
    <2>6. HistoryInOrder'
      BY <2>1, <2>3, <2>4, <2>5 DEF RecordInv, HistoryInOrder, Ledger!HistoryFollowsAnswers
    <2>7. \A u \in Turns : pc'[u] # "save"
      BY <1>3, <2>1, <2>2 DEF SerialInv, OneTurnAtATime, Running, Closing
    <2>8. QED
      BY <1>2, <2>1, <2>6, <2>7 DEF RecordInv
  <1>7. QED
    BY <1>4, <1>5, <1>6, PipelineLeaves DEF Records

LEMMA RecordStep == OrderInv /\ [Next]_vars => RecordInv'
  <1> SUFFICES ASSUME OrderInv, [Next]_vars PROVE RecordInv'
    OBVIOUS
  <1> USE DEF OrderInv
  <1>1. ASSUME UNCHANGED recordVars,
               \A t \in Turns : pc'[t] \in PreAnswer => pc[t] \in PreAnswer,
               \A t \in Turns : pc'[t] = "save" => pc[t] = "save"
        PROVE  RecordInv'
    BY <1>1 DEF RecordInv, HistoryInOrder, Ledger!HistoryFollowsAnswers, recordVars
  <1>2. ASSUME NEW task \in Asked, NEW label \in Labels, open, StartPipeline(task, label)
        PROVE  RecordInv'
    <2>1. \A t \in Turns : pc'[t] = "save" => pc[t] = "save"
      BY <1>2 DEF StartPipeline, Cancelled, Asked
    <2>2. \A t \in Turns : pc'[t] \in PreAnswer => pc[t] \in PreAnswer
      BY <1>2, VoiceConstants
         DEF StartPipeline, Cancelled, PreAnswer, Asked, Listening, Answering, Repeating,
             SerialInv, TypeOK, Turns
    <2>3. QED
      BY <1>1, <1>2, <2>1, <2>2 DEF StartPipeline
  <1>3. ASSUME NEW s \in Sessions, TextQuery(s) PROVE RecordInv'
    BY <1>2, <1>3 DEF TextQuery, Labels, Asked
  <1>4. CASE UtteranceEnd
    BY <1>2, <1>4 DEF UtteranceEnd, Asked, TypeOK
  <1>5. CASE Disconnect
    <2>1. \A t \in Turns : pc'[t] = pc[t] \/ pc'[t] \in {"done", "unwind"}
      BY <1>5 DEF Disconnect, Cancelled
    <2>2. QED
      BY <1>1, <1>5, <2>1 DEF Disconnect, PreAnswer, Asked, Listening, Answering, Repeating
  <1>6. ASSUME NEW t \in Turns, Pipeline(t) PROVE RecordInv'
    BY <1>6, RecordPipelineStep
  <1>7. CASE UNCHANGED <<pc, recordVars>>
    BY <1>1, <1>7
  <1>8. CASE UNCHANGED vars
    BY <1>7, <1>8 DEF vars
  <1>9. QED
    BY <1>3, <1>4, <1>5, <1>6, <1>7, <1>8
       DEF Next, ReceiveLoop, UtteranceStart, UtteranceCancel, AudioFrame, TtsCancel, BadMessage,
           PeerGone

LEMMA OrderInvariant == Spec => []OrderInv
  <1>1. Init => SerialInv /\ RecordInv
    BY DEF Init, SerialInv, OneTurnAtATime, RecordInv, HistoryInOrder,
           Ledger!HistoryFollowsAnswers, Running, Asked, Listening, Answering, Repeating, Closing,
           Speaking
  <1>2. TypeOK /\ SerialInv /\ RecordInv /\ [Next]_vars => (SerialInv /\ RecordInv)'
    BY SerialStep, RecordStep DEF OrderInv
  <1>3. OrderInv <=> TypeOK /\ SerialInv /\ RecordInv
    BY DEF OrderInv
  <1>4. QED
    BY <1>1, <1>2, <1>3, TypeCorrect, PTL DEF Spec

(* The chat history of a connection holds answered turns only, each once,  *)
(* in the order they were asked for, whatever was replaced in between.     *)
THEOREM HistoryOrdered == Spec => []HistoryInOrder
  <1>1. OrderInv => HistoryInOrder
    BY DEF OrderInv, RecordInv
  <1>2. QED
    BY <1>1, OrderInvariant, PTL

-----------------------------------------------------------------------------
(* Implementation of the ledger: each step of the connection is a step of  *)
(* the ledger, or leaves it alone.                                         *)

\* The acting turn, said without the mapping's quantifier.
LEMMA ActingIs ==
    ASSUME OrderInv
    PROVE  /\ \A t \in Turns : pc[t] \in Running => Acting = t
           /\ (\A t \in Turns : pc[t] \notin Running) => Acting = 0
  BY DEF OrderInv, SerialInv, OneTurnAtATime, Acting

LEMMA PipelineRefines ==
    ASSUME OrderInv, OrderInv', NEW t \in Turns, Pipeline(t)
    PROVE  [Ledger!LedgerNext]_(Ledger!ledgerVars)
  <1> USE DEF Ledger!LedgerNext, Ledger!ledgerVars
  <1>1. PICK p \in Running \cup {"done"} :
          /\ pc' = [pc EXCEPT ![t] = p]
          /\ pc[t] \in Running \/ (pc[t] = "unwind" /\ p = "done")
    BY PipelineMoves DEF Moves, OrderInv
  <1>2. pc'[t] = p /\ (\A u \in Turns : u # t => pc'[u] = pc[u]) /\ turn' = turn
    BY <1>1, PipelineLeaves DEF OrderInv, TypeOK, Aside
  <1>3. "done" \notin Running /\ "unwind" \notin Running /\ 0 \notin Turns
    BY DEF Running, Asked, Listening, Answering, Repeating, Closing, Speaking, Turns
  <1>4. CASE pc[t] \in Running /\ p \in Running
    <2>1. Acting = t /\ Acting' = t
      BY <1>2, <1>4, ActingIs DEF Acting, OrderInv, SerialInv, OneTurnAtATime
    <2>2. CASE UNCHANGED recordVars
      BY <1>2, <2>1, <2>2 DEF recordVars
    <2>3. CASE Respond(t)
      <3>1. t \notin answered
        BY <2>3 DEF Respond, OrderInv, RecordInv, PreAnswer, Answering, Repeating
      <3>2. peer /\ answered' = answered \cup {t} /\ history' = history
        BY <1>2, <1>3, <1>4, <2>3 DEF Respond, Say, Go, OrderInv, TypeOK
      <3>3. Ledger!AnswerTurn
        BY <1>2, <1>3, <2>1, <3>1, <3>2 DEF Ledger!AnswerTurn
      <3>4. QED
        BY <3>3
    <2>4. CASE Save(t)
      <3>1. t \in answered /\ \A i \in DOMAIN history : history[i] # t
        BY <2>4 DEF Save, OrderInv, RecordInv
      <3>2. Ledger!RememberTurn
        BY <1>2, <2>1, <2>4, <3>1 DEF Ledger!RememberTurn, Save
      <3>3. QED
        BY <3>2
    <2>5. QED
      BY <2>2, <2>3, <2>4, PipelineLeaves DEF Records, OrderInv
  <1>5. CASE p = "done"
    <2>1. UNCHANGED recordVars
      BY <1>2, <1>5, PipelineLeaves
         DEF Records, Respond, Save, Say, Go, OrderInv, TypeOK, recordVars
    <2>2. \A u \in Turns : pc'[u] \in Running => pc[u] \in Running /\ u # t
      BY <1>2, <1>3, <1>5
    <2>3. CASE pc[t] \in Running
      <3>1. Acting = t /\ Acting' = 0
        BY <1>2, <1>3, <2>2, <2>3 DEF Acting, OrderInv, SerialInv, OneTurnAtATime
      <3>2. Ledger!RetireTurn
        BY <1>2, <1>3, <2>1, <3>1 DEF Ledger!RetireTurn, recordVars
      <3>3. QED
        BY <3>2
    <2>4. CASE pc[t] = "unwind"
      <3>1. \A u \in Turns : pc'[u] \in Running <=> pc[u] \in Running
        BY <1>2, <1>3, <1>5, <2>4
      <3>2. Acting' = Acting
        BY <1>2, <3>1 DEF Acting
      <3>3. QED
        BY <1>2, <2>1, <3>2 DEF recordVars
    <2>5. QED
      BY <1>1, <2>3, <2>4
  <1>6. QED
    BY <1>1, <1>4, <1>5, <1>3

LEMMA StartRefines ==
    ASSUME OrderInv, NEW task \in Asked, NEW label, StartPipeline(task, label)
    PROVE  Ledger!OpenTurn
  <1>1. turn + 1 \in Turns /\ turn' = turn + 1 /\ turn < MaxTurns
    BY VoiceConstants DEF StartPipeline, OrderInv, TypeOK, Turns
  <1>2. pc'[turn'] \in Running
    BY <1>1 DEF StartPipeline, Running
  <1>3. Acting' = turn + 1
    BY <1>1, <1>2 DEF Acting
  <1>4. QED
    BY <1>1, <1>3 DEF Ledger!OpenTurn, StartPipeline, recordVars

LEMMA StepRefines == OrderInv /\ OrderInv' /\ [Next]_vars => [Ledger!LedgerNext]_(Ledger!ledgerVars)
  <1> SUFFICES ASSUME OrderInv, OrderInv', [Next]_vars
               PROVE  [Ledger!LedgerNext]_(Ledger!ledgerVars)
    OBVIOUS
  <1> USE DEF Ledger!LedgerNext, Ledger!ledgerVars
  <1>1. ASSUME NEW s \in Sessions, TextQuery(s) PROVE Ledger!OpenTurn
    BY <1>1, StartRefines DEF TextQuery, Asked
  <1>2. ASSUME UtteranceEnd PROVE Ledger!OpenTurn
    BY <1>2, StartRefines DEF UtteranceEnd, Asked
  <1>3. CASE Disconnect
    <2>1. \A t \in Turns : pc'[t] \notin Running
      BY <1>3, CancelledStops
         DEF Disconnect, OrderInv, SerialInv, OneTurnAtATime, TypeOK, Places, Over, Running, Asked,
             Listening, Answering, Repeating, Closing
    <2>2. Acting' = 0 /\ UNCHANGED <<turn, recordVars>>
      BY <1>3, <2>1 DEF Acting, Disconnect
    <2>3. CASE Acting = 0
      BY <2>2, <2>3 DEF recordVars
    <2>4. CASE Acting # 0
      BY <2>2, <2>4 DEF recordVars, Ledger!RetireTurn
    <2>5. QED
      BY <2>3, <2>4
  <1>4. ASSUME NEW t \in Turns, Pipeline(t) PROVE [Ledger!LedgerNext]_(Ledger!ledgerVars)
    BY <1>4, PipelineRefines
  <1>5. CASE UNCHANGED <<turn, pc, recordVars>>
    BY <1>5 DEF recordVars, Acting
  <1>6. CASE UNCHANGED vars
    BY <1>5, <1>6 DEF vars
  <1>7. QED
    BY <1>1, <1>2, <1>3, <1>4, <1>5, <1>6
       DEF Next, ReceiveLoop, UtteranceStart, UtteranceCancel, AudioFrame, TtsCancel, BadMessage,
           PeerGone

(* The receive loop and its pipelines implement the ledger of turns.       *)
THEOREM LedgerImplemented == Spec => ImplementsLedger
  <1>1. Init => Ledger!LedgerInit
    BY DEF Init, Ledger!LedgerInit, Acting, Running, Asked, Listening, Answering, Repeating,
           Closing, Speaking
  <1>2. QED
    BY <1>1, StepRefines, OrderInvariant, PTL DEF Spec, ImplementsLedger, Ledger!LedgerSpec
-----------------------------------------------------------------------------
(* What reaches the hub.                                                   *)

\* What a pipeline begins anew, and where a turn has something left to say.
Begins == {"llm.delta", "tool.running", "tts.start"}
Indebted == (Running \ Asked) \cup {"unwind"}

\* A turn that speaks speaks for itself; it begins nothing once the event is set, and a
\* cancelled one only says idle.  Nobody ends without having said idle, if it can be heard.
Speaks(t) ==
    /\ wire' # wire =>
        /\ wire'.turn = t
        /\ wire'.kind \in Begins => ~cancelSet
        /\ pc[t] \notin Running => wire'.kind = "idle"
    /\ pc'[t] \in Indebted \/ (pc'[t] = "done" /\ (peer => shown' = "idle"))

LEMMA SaySpeaks ==
    ASSUME TypeOK, NEW t \in Turns, NEW kind \in Kinds, NEW p \in Running \ Asked,
           Say(t, kind, p), kind \in Begins => ~cancelSet, pc[t] \in Running
    PROVE  Speaks(t)
  <1>1. CASE peer
    <2>1. wire'.turn = t /\ wire'.kind = kind
      BY <1>1 DEF Say, Emit, Message
    <2>2. pc'[t] = p
      BY <1>1 DEF Say, TypeOK
    <2>3. QED
      BY <2>1, <2>2 DEF Speaks, Indebted
  <1>2. CASE ~peer
    BY <1>2 DEF Say, Go, TypeOK, Speaks, wireVars
  <1>3. QED
    BY <1>1, <1>2

LEMMA GoSpeaks ==
    ASSUME TypeOK, NEW t \in Turns, NEW p \in Running \ Asked, Go(t, p)
    PROVE  Speaks(t)
  BY DEF Go, TypeOK, Speaks, wireVars, Indebted

LEMMA PipelineSpeaks ==
    ASSUME TypeOK, NEW t \in Turns, Pipeline(t)
    PROVE  Speaks(t)
  <1> USE DEF Running, Asked, Listening, Answering, Repeating, Closing, Speaking, Kinds, Begins,
              ToldToStop
  <1>1. CASE Begin(t)
    BY <1>1, GoSpeaks DEF Begin
  <1>2. CASE Transcribed(t)
    BY <1>2, GoSpeaks, SaySpeaks DEF Transcribed
  <1>3. CASE Think(t)
    BY <1>3, SaySpeaks DEF Think
  <1>4. CASE ContextLoaded(t)
    BY <1>4, GoSpeaks DEF ContextLoaded
  <1>5. CASE LlmDelta(t)
    BY <1>5, SaySpeaks DEF LlmDelta
  <1>6. CASE ToolRunning(t)
    BY <1>6, SaySpeaks DEF ToolRunning
  <1>7. CASE ToolStart(t)
    BY <1>7, GoSpeaks DEF ToolStart
  <1>8. CASE ToolEnd(t)
    BY <1>8, GoSpeaks, SaySpeaks DEF ToolEnd
  <1>9. CASE StreamEnds(t)
    BY <1>9, GoSpeaks DEF StreamEnds
  <1>10. CASE StopIdle(t)
    BY <1>10, SaySpeaks DEF StopIdle
  <1>11. CASE SpeakChunk(t)
    BY <1>11, SaySpeaks DEF SpeakChunk
  <1>12. CASE SpeakReturns(t)
    BY <1>12, GoSpeaks DEF SpeakReturns, AfterSpeak
  <1>13. CASE TtsEnd(t)
    BY <1>13, GoSpeaks, SaySpeaks DEF TtsEnd
  <1>14. CASE Respond(t)
    BY <1>14, SaySpeaks DEF Respond
  <1>15. CASE Save(t)
    BY <1>15, GoSpeaks DEF Save
  <1>16. CASE RollSummary(t)
    BY <1>16, GoSpeaks DEF RollSummary
  <1>17. CASE Raises(t)
    BY <1>17, GoSpeaks DEF Raises
  <1>18. CASE ReportFailure(t)
    BY <1>18, SaySpeaks DEF ReportFailure
  <1>19. CASE FinallyIdle(t)
    <2>1. pc'[t] = "done"
      BY <1>19 DEF FinallyIdle, Say, Go, TypeOK
    <2>2. CASE peer
      BY <1>19, <2>1, <2>2 DEF FinallyIdle, Say, Emit, Message, Speaks
    <2>3. CASE ~peer
      BY <1>19, <2>1, <2>3 DEF FinallyIdle, Say, Go, wireVars, Speaks
    <2>4. QED
      BY <2>2, <2>3
  <1>20. QED
    BY <1>1, <1>2, <1>3, <1>4, <1>5, <1>6, <1>7, <1>8, <1>9, <1>10, <1>11, <1>12, <1>13,
       <1>14, <1>15, <1>16, <1>17, <1>18, <1>19 DEF Pipeline

\* The receive loop itself says nothing but errors, in no turn's name.
LEMMA LoopSpeaks ==
    ASSUME ReceiveLoop \/ PeerGone \/ UNCHANGED vars
    PROVE  wire' # wire => wire'.kind = "error" /\ wire'.turn = 0
  BY DEF ReceiveLoop, PeerGone, UtteranceStart, UtteranceCancel, AudioFrame, UtteranceEnd,
         TextQuery, TtsCancel, BadMessage, Disconnect, Emit, Message, wireVars, vars

(* A turn that was told to stop begins no subtitle, no tool and no speech  *)
(* any more, whichever await it was at.                                    *)
THEOREM BargeInHeard == Spec => BargeInIsHeard
  <1> DEFINE A == (wire' # wire /\ wire'.kind \in {"llm.delta", "tool.running", "tts.start"})
                      => ~cancelSet
  <1>1. TypeOK /\ [Next]_vars => [A]_vars
    BY PipelineSpeaks, LoopSpeaks DEF Next, Speaks, Begins
  <1>2. QED
    BY <1>1, TypeCorrect, PTL DEF Spec, BargeInIsHeard

(* Between the messages of a turn, an older turn of the connection says    *)
(* idle at most: only the newest one is anywhere else than unwinding.      *)
THEOREM ReplacedTurnsQuiet == Spec => ReplacedTurnsOnlySayIdle
  <1> DEFINE A == (wire' # wire /\ wire'.turn # 0 /\ wire'.turn < turn) => wire'.kind = "idle"
  <1>1. ASSUME OrderInv, NEW t \in Turns, Pipeline(t) PROVE A
    <2>1. wire' # wire => wire'.turn = t /\ (pc[t] \notin Running => wire'.kind = "idle")
      BY <1>1, PipelineSpeaks DEF OrderInv, Speaks
    <2>2. pc[t] \in Running => t = turn
      BY <1>1 DEF OrderInv, SerialInv, OneTurnAtATime
    <2>3. turn \in Nat
      BY <1>1 DEF OrderInv, TypeOK
    <2>4. QED
      BY <2>1, <2>2, <2>3
  <1>2. OrderInv /\ [Next]_vars => [A]_vars
    BY <1>1, LoopSpeaks DEF Next
  <1>3. QED
    BY <1>2, OrderInvariant, PTL DEF Spec, ReplacedTurnsOnlySayIdle

-----------------------------------------------------------------------------
(* The last word.  LastWordIsIdle says nothing while a turn is under way;  *)
(* what holds all along is that "thinking" is shown only as long as some   *)
(* turn, the current one or one that unwinds, still owes the hub its idle. *)
WordInv == peer /\ shown = "thinking" => \E t \in Turns : pc[t] \in Indebted

LEMMA StartKeepsDebt ==
    ASSUME TypeOK, SerialInv, WordInv, UNCHANGED <<peer, shown>>,
           NEW task \in Asked, NEW label, StartPipeline(task, label)
    PROVE  WordInv'
  <1> SUFFICES ASSUME peer, shown = "thinking" PROVE \E t \in Turns : pc'[t] \in Indebted
    BY DEF WordInv
  <1>1. PICK t \in Turns : pc[t] \in Indebted
    BY DEF WordInv
  <1>2. pc[t] # "none" /\ turn \in Nat
    BY <1>1 DEF Indebted, Running, Asked, Listening, Answering, Repeating, Closing, Speaking, TypeOK
  <1>3. t # turn + 1
    BY <1>2, VoiceConstants DEF SerialInv, Turns
  <1>4. pc'[t] = pc[t] \/ pc'[t] = Cancelled(pc[t])
    BY <1>3 DEF StartPipeline
  <1>5. Cancelled(pc[t]) \in Indebted
    BY <1>1 DEF Cancelled, Indebted, Asked
  <1>6. QED
    BY <1>1, <1>4, <1>5

LEMMA WordStep == OrderInv /\ WordInv /\ [Next]_vars => WordInv'
  <1> SUFFICES ASSUME OrderInv, WordInv, [Next]_vars PROVE WordInv'
    OBVIOUS
  <1> USE DEF OrderInv
  <1>1. ASSUME NEW s \in Sessions, TextQuery(s) PROVE WordInv'
    BY <1>1, StartKeepsDebt DEF TextQuery, Asked, wireVars
  <1>2. CASE UtteranceEnd
    BY <1>2, StartKeepsDebt DEF UtteranceEnd, Asked, wireVars
  <1>3. CASE Disconnect \/ PeerGone
    BY <1>3 DEF Disconnect, PeerGone, WordInv
  <1>4. ASSUME NEW t \in Turns, Pipeline(t) PROVE WordInv'
    BY <1>4, PipelineSpeaks, PipelineLeaves DEF Speaks, Aside, WordInv
  <1>5. CASE UNCHANGED <<peer, pc, shown>>
    BY <1>5 DEF WordInv
  <1>6. ASSUME peer, Emit("error", 0), UNCHANGED <<peer, pc>> PROVE WordInv'
    BY <1>5, <1>6 DEF Emit
  <1>7. CASE UNCHANGED vars
    BY <1>5, <1>7 DEF vars, wireVars
  <1>8. QED
    BY <1>1, <1>2, <1>3, <1>4, <1>5, <1>6, <1>7
       DEF Next, ReceiveLoop, UtteranceStart, UtteranceCancel, AudioFrame, TtsCancel, BadMessage,
           wireVars

(* However requests, cancellations and the idles of their finally blocks   *)
(* fall together, a hub whose turns are all over is not left "thinking".   *)
THEOREM HubIsReleased == Spec => []LastWordIsIdle
  <1>1. Init => WordInv
    BY DEF Init, WordInv
  <1>2. WordInv => LastWordIsIdle
    BY DEF WordInv, LastWordIsIdle, Indebted, Running, Asked, Listening, Answering, Repeating,
           Closing, Speaking
  <1>3. QED
    BY <1>1, <1>2, OrderInvariant, WordStep, PTL DEF Spec

-----------------------------------------------------------------------------
(* Late effects.  A tool start and a first frame are the two things a turn *)
(* has already announced when the event is set; it can owe one of them at  *)
(* most, and what it owed is paid once it was late.                        *)
Owes(t) == pc[t] = "announced" \/ (pc[t] \in Speaking /\ tts[t] = "starting")

LateInv ==
    /\ late <= 1
    /\ late # 0 => cancelSet /\ \A t \in Turns : ~Owes(t)
    /\ \A t \in Turns : tts[t] = "starting" => pc[t] \in Speaking \cup {"unwind", "done"}

\* A step of a pipeline lets an effect out that the turn owed or may still begin, or none;
\* and it owes a new one only while the event is not set.
Effects(t) ==
    /\ \A u \in Turns : u # t => pc'[u] = pc[u] /\ tts'[u] = tts[u]
    /\ \/ late' = late
       \/ Tally(t) /\ pc[t] \in Running /\ ~Owes(t)' /\ (Owes(t) \/ ~cancelSet)
    /\ Owes(t)' => Owes(t) \/ ~cancelSet
    /\ tts'[t] = "starting" => pc'[t] \in Speaking \cup {"unwind", "done"}

LEMMA PipelineEffects ==
    ASSUME OrderInv, LateInv, NEW t \in Turns, Pipeline(t)
    PROVE  Effects(t)
  <1> USE DEF OrderInv
  <1>1. \A u \in Turns : u # t => pc'[u] = pc[u]
    BY PipelineMoves DEF Moves, TypeOK
  <1> USE DEF Say, Go, TypeOK
  <1>2. CASE SpeakChunk(t)
    <2>1. pc'[t] = pc[t] /\ pc[t] \in Speaking
      BY <1>2 DEF SpeakChunk
    <2>2. CASE tts'[t] = "starting"
      BY <1>1, <1>2, <2>1, <2>2 DEF SpeakChunk, Effects, Owes, ToldToStop
    <2>3. CASE tts'[t] # "starting"
      BY <1>1, <1>2, <2>1, <2>3
         DEF SpeakChunk, Effects, Owes, ToldToStop, Running, Answering, Repeating, Speaking
    <2>4. QED
      BY <2>2, <2>3
  <1>3. CASE SpeakReturns(t)
    <2>1. tts'[t] # "starting" /\ pc'[t] # "announced"
      BY <1>3 DEF SpeakReturns, AfterSpeak
    <2>2. QED
      BY <1>1, <1>3, <2>1 DEF SpeakReturns, Effects, Owes
  <1>4. ASSUME pc[t] \notin Speaking \cup {"unwind", "done"} PROVE tts[t] # "starting"
    BY <1>4 DEF LateInv
  <1>5. CASE ToolStart(t)
    BY <1>1, <1>4, <1>5 DEF ToolStart, Effects, Owes, Running, Answering, Speaking
  <1>6. CASE ToolRunning(t)
    BY <1>1, <1>4, <1>6 DEF ToolRunning, Effects, Owes, Speaking, ToldToStop
  <1>7. CASE FinallyIdle(t)
    BY <1>1, <1>7 DEF FinallyIdle, Effects, Owes, Speaking
  <1>8. ASSUME UNCHANGED <<tts, late>>, pc[t] \notin Speaking \cup {"unwind", "done"},
               pc'[t] # "announced"
        PROVE  Effects(t)
    BY <1>1, <1>4, <1>8 DEF Effects, Owes
  <1>9. CASE Begin(t) \/ Transcribed(t) \/ Think(t) \/ ContextLoaded(t) \/ LlmDelta(t)
    BY <1>8, <1>9 DEF Begin, Transcribed, Think, ContextLoaded, LlmDelta, Asked, Speaking
  <1>10. CASE ToolEnd(t) \/ StreamEnds(t) \/ StopIdle(t) \/ TtsEnd(t) \/ Respond(t)
    BY <1>8, <1>10 DEF ToolEnd, StreamEnds, StopIdle, TtsEnd, Respond, Speaking
  <1>11. CASE Save(t) \/ RollSummary(t) \/ Raises(t) \/ ReportFailure(t)
    BY <1>8, <1>11 DEF Save, RollSummary, Raises, ReportFailure, Speaking
  <1>12. QED
    BY <1>2, <1>3, <1>5, <1>6, <1>7, <1>9, <1>10, <1>11 DEF Pipeline

LEMMA LateStep == OrderInv /\ LateInv /\ [Next]_vars => LateInv'
  <1> SUFFICES ASSUME OrderInv, LateInv, [Next]_vars PROVE LateInv'
    OBVIOUS
  <1> USE DEF OrderInv
  <1>1. ASSUME NEW task \in Asked, NEW label, StartPipeline(task, label) PROVE LateInv'
    <2>1. late' = 0 /\ tts' = tts
      BY <1>1 DEF StartPipeline
    <2>2. ASSUME NEW t \in Turns, tts[t] = "starting" PROVE pc'[t] \in Speaking \cup {"unwind", "done"}
      <3>1. pc[t] \in Speaking \cup {"unwind", "done"}
        BY <2>2 DEF LateInv
      <3>2. pc[t] # "none" /\ turn \in Nat
        BY <3>1 DEF Speaking, TypeOK
      <3>3. t # turn + 1
        BY <3>2, VoiceConstants DEF SerialInv, Turns
      <3>4. QED
        BY <1>1, <3>1, <3>3
           DEF StartPipeline, Cancelled, Running, Asked, Answering, Repeating, Speaking
    <2>3. QED
      BY <2>1, <2>2 DEF LateInv
  <1>2. ASSUME NEW s \in Sessions, TextQuery(s) PROVE LateInv'
    BY <1>1, <1>2 DEF TextQuery, Asked
  <1>3. CASE UtteranceEnd
    BY <1>1, <1>3 DEF UtteranceEnd, Asked
  <1>4. CASE Disconnect
    <2>1. \A t \in Turns : pc'[t] = pc[t] \/ pc'[t] \in {"unwind", "done"}
      BY <1>4 DEF Disconnect, Cancelled
    <2>2. QED
      BY <1>4, <2>1 DEF Disconnect, LateInv, Owes, Speaking
  <1>5. ASSUME NEW t \in Turns, Pipeline(t) PROVE LateInv'
    <2>1. Effects(t) /\ UNCHANGED <<cancelSet, turn>>
      BY <1>5, PipelineEffects, PipelineLeaves DEF Aside
    <2>2. pc[t] \in Running \cup {"unwind"}
      BY <1>5, PipelineMoves DEF Moves
    <2>3. \A u \in Turns : tts'[u] = "starting" => pc'[u] \in Speaking \cup {"unwind", "done"}
      BY <2>1 DEF Effects, LateInv
    <2>4. CASE late' = late
      <3>1. late' # 0 => cancelSet' /\ \A u \in Turns : ~Owes(u)'
        BY <2>1, <2>4 DEF Effects, LateInv, Owes
      <3>2. QED
        BY <2>3, <2>4, <3>1 DEF LateInv
    <2>5. CASE Tally(t) /\ pc[t] \in Running /\ ~Owes(t)' /\ (Owes(t) \/ ~cancelSet) /\ late' # late
      <3>1. Running \cap {"unwind"} = {} /\ "announced" \in Running /\ Speaking \subseteq Running
        BY DEF Running, Asked, Listening, Answering, Repeating, Closing, Speaking
      <3>2. t = turn
        BY <2>5 DEF SerialInv, OneTurnAtATime
      <3>3. cancelSet /\ late' = late + 1 /\ Owes(t)
        BY <2>5, <3>2 DEF Tally
      <3>4. late = 0
        BY <3>3 DEF LateInv
      <3>5. \A u \in Turns : u # t => ~Owes(u)
        BY <3>1, <3>2 DEF Owes, SerialInv, OneTurnAtATime
      <3>6. \A u \in Turns : ~Owes(u)'
        BY <2>1, <2>5, <3>5 DEF Effects, Owes
      <3>7. QED
        BY <2>1, <2>3, <3>3, <3>4, <3>6 DEF LateInv
    <2>6. QED
      BY <2>1, <2>4, <2>5 DEF Effects
  <1>6. CASE UNCHANGED <<pc, tts, late, cancelSet>>
    BY <1>6 DEF LateInv, Owes
  <1>7. CASE TtsCancel
    BY <1>7 DEF TtsCancel, LateInv, Owes
  <1>8. CASE UNCHANGED vars
    BY <1>6, <1>8 DEF vars
  <1>9. QED
    BY <1>2, <1>3, <1>4, <1>5, <1>6, <1>7, <1>8
       DEF Next, ReceiveLoop, UtteranceStart, UtteranceCancel, AudioFrame, BadMessage, PeerGone

(* Of a turn that was told to stop, one tool start or one frame that it    *)
(* had announced gets through at most.                                     *)
THEOREM BargeInIsPrompt == Spec => []AtMostOneLateEffect
  <1>1. Init => LateInv
    BY DEF Init, LateInv
  <1>2. LateInv => AtMostOneLateEffect
    BY DEF LateInv, AtMostOneLateEffect
  <1>3. QED
    BY <1>1, <1>2, OrderInvariant, LateStep, PTL DEF Spec
=============================================================================
