----------------------------- MODULE TurnLedger -----------------------------
(***************************************************************************)
(* What a hub connection promises about its turns, with no pipeline, no    *)
(* frame and no cancellation in sight: turns are numbered in the order the *)
(* hub asked for them, at most one of them is allowed to act, only that    *)
(* one can answer, and only an answered turn enters the chat history, once *)
(* and in order.  VoiceSession implements this module.                     *)
(***************************************************************************)
EXTENDS Naturals, Sequences

CONSTANT MaxTurns

VARIABLES
    opened,      \* how many turns the hub has asked for
    acting,      \* the turn that may act, 0 when there is none
    answered,    \* the turns whose response was sent
    remembered   \* the turns in the chat history, oldest first

ledgerVars == <<opened, acting, answered, remembered>>

LedgerInit ==
    /\ opened = 0
    /\ acting = 0
    /\ answered = {}
    /\ remembered = <<>>

\* A new request takes over from whatever was acting.
OpenTurn ==
    /\ opened < MaxTurns
    /\ opened' = opened + 1
    /\ acting' = opened + 1
    /\ UNCHANGED <<answered, remembered>>

\* The acting turn sends its response, once.
AnswerTurn ==
    /\ acting # 0
    /\ acting \notin answered
    /\ answered' = answered \cup {acting}
    /\ UNCHANGED <<opened, acting, remembered>>

\* The acting turn, answered, is written to the history, once.
RememberTurn ==
    /\ acting \in answered
    /\ \A i \in DOMAIN remembered : remembered[i] # acting
    /\ remembered' = Append(remembered, acting)
    /\ UNCHANGED <<opened, acting, answered>>

\* The acting turn is over: it ended, it failed, or the connection closed.
RetireTurn ==
    /\ acting # 0
    /\ acting' = 0
    /\ UNCHANGED <<opened, answered, remembered>>

LedgerNext == OpenTurn \/ AnswerTurn \/ RememberTurn \/ RetireTurn

LedgerSpec == LedgerInit /\ [][LedgerNext]_ledgerVars

-----------------------------------------------------------------------------
\* The history is a list of answered turns in the order they were asked for.
HistoryFollowsAnswers ==
    /\ \A i \in DOMAIN remembered : remembered[i] \in answered
    /\ \A i, j \in DOMAIN remembered : i < j => remembered[i] < remembered[j]
=============================================================================
