---------------------------- MODULE ChatHistory ----------------------------
(***************************************************************************)
(* The chat sessions of one hub (chat/service.py, chat/crud.py) and the    *)
(* two places of a voice turn that use them: before the LLM, to read the   *)
(* context, and after the response, to save the turn and roll the summary  *)
(* (voice/service.py _run_pipeline).                                       *)
(*                                                                         *)
(* VoiceSession shows that the turns of a connection follow one another,   *)
(* so one turn is modelled at a time; a new request, a failure or the end  *)
(* of the connection may break it off at any await.                        *)
(*                                                                         *)
(* A message is its role and the number of its tool calls (ToolMessages).  *)
(* A summary is the list of pieces folded into it, each the number of      *)
(* oldest messages it covers; the text is cut off at a length, which loses *)
(* the pieces at the end.                                                  *)
(***************************************************************************)
EXTENDS Naturals, Sequences, ToolMessages

CONSTANTS
    Window,       \* CONTEXT_MESSAGE_LIMIT
    Trigger,      \* SUMMARY_TRIGGER_COUNT
    Idle,         \* SESSION_IDLE_SECONDS, in ticks
    Cap,          \* how many pieces fit into the summary's 2000 characters
    MaxTime,      \* bound on the clock
    MaxSessions,  \* bound on the sessions
    MaxMessages,  \* bound on the messages of a session
    Answers       \* what a turn may leave to be saved: new_messages of OrchDone

ASSUME ChatConstants ==
    /\ Window \in Nat \ {0}
    /\ Trigger \in Nat /\ Trigger >= Window
    /\ Idle \in Nat
    /\ Cap \in Nat
    /\ MaxTime \in Nat
    /\ MaxSessions \in Nat
    /\ MaxMessages \in Nat
    /\ Answers \subseteq Seq(Messages)

Sessions == 1 .. MaxSessions

VARIABLES
    now,         \* the clock
    sessions,    \* how many sessions there are; the highest id is the latest
    lastActive,  \* last_active_at
    log,         \* the messages of each session, as committed
    pieces,      \* its summary
    pc,          \* where the hub's turn is
    context,     \* the session the turn read its context from, 0 before
    dest,        \* the session it saves to, 0 before
    pending,     \* the messages it will save
    unrolled     \* sessions whose last roll failed or was broken off

dataVars == <<sessions, lastActive, log, pieces>>
turnVars == <<pc, context, dest, pending>>
vars == <<now, dataVars, turnVars, unrolled>>

TypeOK ==
    /\ now \in 0 .. MaxTime
    /\ sessions \in 0 .. MaxSessions
    /\ lastActive \in [Sessions -> 0 .. MaxTime]
    /\ log \in [Sessions -> Seq(Messages)]
    /\ pieces \in [Sessions -> Seq(Nat)]
    /\ \A s \in Sessions : Len(pieces[s]) <= Cap
    /\ pc \in {"none", "asked", "context", "answering", "saving", "appending", "counting",
               "summarizing"}
    /\ context \in 0 .. MaxSessions
    /\ dest \in 0 .. MaxSessions
    /\ pending \in Seq(Messages)
    /\ unrolled \in SUBSET Sessions

Init ==
    /\ now = 0
    /\ sessions = 0
    /\ lastActive = [s \in Sessions |-> 0]
    /\ log = [s \in Sessions |-> <<>>]
    /\ pieces = [s \in Sessions |-> <<>>]
    /\ pc = "none"
    /\ context = 0
    /\ dest = 0
    /\ pending = <<>>
    /\ unrolled = {}

-----------------------------------------------------------------------------
(* chat/service.py                                                         *)

\* The latest session is continued while its last save is less than Idle ago.
LatestIsFresh == sessions > 0 /\ now - lastActive[sessions] < Idle

\* get_or_create_session, returning `session'
GetOrCreate(session) ==
    IF LatestIsFresh
    THEN session = sessions /\ UNCHANGED <<sessions, lastActive>>
    ELSE /\ sessions < MaxSessions
         /\ sessions' = sessions + 1
         /\ session = sessions + 1
         /\ lastActive' = [lastActive EXCEPT ![session] = now]

\* crud.get_recent_messages with the limit of load_context
Recent(messages) ==
    IF Len(messages) <= Window
    THEN messages
    ELSE SubSeq(messages, Len(messages) - Window + 1, Len(messages))

\* Mutant: each message is committed on its own, and the turn may be cut in between.
AnyPrefix(messages) == {SubSeq(messages, 1, n) : n \in 1 .. Len(messages)}
\* append_messages adds all messages of the turn and commits once.
Committed(messages) == {messages}

\* Mutant: the roll is due at one length only.
RollDueOnce(total) == total = Trigger + 1
RollDue(total) == total > Trigger

Target(total) == total - Window

\* Mutant: the summary is not cut off.
FoldedUncut(old, piece) == Append(old, piece)
\* The piece is put behind the old summary, and the end is cut off.
Folded(old, piece) == IF Len(old) < Cap THEN Append(old, piece) ELSE old

-----------------------------------------------------------------------------
(* The turn of the hub.                                                    *)

\* The turn is over; a session whose roll was not done stays unrolled.
Over(failed) ==
    /\ context' = 0 /\ dest' = 0 /\ pending' = <<>>
    /\ unrolled' = IF failed /\ pc \in {"counting", "summarizing"} THEN unrolled \cup {dest}
                                                                  ELSE unrolled

\* A request comes, and replaces the turn that runs.
Ask ==
    /\ pc' = "asked"
    /\ Over(TRUE)
    /\ UNCHANGED <<now, dataVars>>

\* The turn fails, is told to stop, or its connection closes.
BreakOff ==
    /\ pc # "none"
    /\ pc' = "none"
    /\ Over(TRUE)
    /\ UNCHANGED <<now, dataVars>>

OpenContext ==
    /\ pc = "asked"
    /\ \E s \in Sessions : GetOrCreate(s) /\ context' = s
    /\ pc' = "context"
    /\ UNCHANGED <<now, log, pieces, dest, pending, unrolled>>

LoadContext ==
    /\ pc = "context"
    /\ pc' = "answering"
    /\ UNCHANGED <<now, dataVars, context, dest, pending, unrolled>>

\* run_turn ends and the response is sent; the turn is the question and new_messages.
Answer ==
    /\ pc = "answering"
    /\ \E new \in Answers : pending' = <<User>> \o new
    /\ pc' = "saving"
    /\ UNCHANGED <<now, dataVars, context, dest, unrolled>>

OpenSave ==
    /\ pc = "saving"
    /\ \E s \in Sessions : GetOrCreate(s) /\ dest' = s
    /\ pc' = "appending"
    /\ UNCHANGED <<now, log, pieces, context, pending, unrolled>>

AppendMessages ==
    /\ pc = "appending"
    /\ Len(log[dest]) + Len(pending) <= MaxMessages
    /\ \E messages \in Committed(pending) : log' = [log EXCEPT ![dest] = @ \o messages]
    /\ lastActive' = [lastActive EXCEPT ![dest] = now]
    /\ pc' = "counting"
    /\ UNCHANGED <<now, sessions, pieces, context, dest, pending, unrolled>>

\* maybe_roll_summary counts the messages; most turns end here.
CountMessages ==
    /\ pc = "counting"
    /\ \/ /\ RollDue(Len(log[dest]))
          /\ pc' = "summarizing"
          /\ UNCHANGED <<context, dest, pending, unrolled>>
       \/ /\ ~RollDue(Len(log[dest]))
          /\ pc' = "none"
          /\ Over(FALSE)
    /\ UNCHANGED <<now, dataVars>>

RollSummary ==
    /\ pc = "summarizing"
    /\ pieces' = [pieces EXCEPT ![dest] = Folded(@, Target(Len(log[dest])))]
    /\ pc' = "none"
    /\ unrolled' = unrolled \ {dest}
    /\ context' = 0 /\ dest' = 0 /\ pending' = <<>>
    /\ UNCHANGED <<now, sessions, lastActive, log>>

\* The LLM raises or returns nothing: a warning, the summary is what it was.
RollFails ==
    /\ pc = "summarizing"
    /\ pc' = "none"
    /\ Over(TRUE)
    /\ UNCHANGED <<now, dataVars>>

Tick ==
    /\ now < MaxTime
    /\ now' = now + 1
    /\ UNCHANGED <<dataVars, turnVars, unrolled>>

Next ==
    \/ Ask \/ BreakOff
    \/ OpenContext \/ LoadContext \/ Answer \/ OpenSave \/ AppendMessages
    \/ CountMessages \/ RollSummary \/ RollFails
    \/ Tick

Spec == Init /\ [][Next]_vars

-----------------------------------------------------------------------------
(* Properties.                                                             *)

\* A session holds whole turns, every call with its result and no result without its call,
\* wherever turns are broken off (append_messages).
WholeTurns == \A s \in Sessions : ResultsFollowCalls(log[s])

Covered(s) == IF pieces[s] = <<>> THEN 0 ELSE pieces[s][Len(pieces[s])]

\* What an LLM is not told, neither word for word nor summarized, is bounded: at most
\* Trigger - Window messages, while the last roll succeeded and the summary has room.
ForgettingIsBounded ==
    \A s \in Sessions \ unrolled :
        (Len(pieces[s]) < Cap /\ ~(dest = s /\ pc \in {"counting", "summarizing"}))
            => Len(log[s]) - Covered(s) <= Trigger

-----------------------------------------------------------------------------
(* What the documents say and the code does not do.                        *)

\* docs section 7-3: results are given to the LLM by the standard of OpenAI, that is, each
\* behind the call it answers.  load_context counts messages, and may cut in between.
ContextIsWhole == pc = "answering" => ResultsFollowCalls(Recent(log[context]))
=============================================================================
