---------------------------- MODULE ToolProtocol ----------------------------
(***************************************************************************)
(* What the providers of LLMs ask of a conversation, and what a turn of    *)
(* the orchestrator promises to keep to: the model makes calls, every call *)
(* gets its result, in the order they were made, before the model is asked *)
(* again or the turn is concluded with an answer; and a turn enters the    *)
(* history whole or, but for what the user said, not at all.  Orchestrator *)
(* implements this module.                                                 *)
(***************************************************************************)
EXTENDS Naturals, Sequences

CONSTANT Ids   \* what identifies a call

VARIABLES
    log,       \* the messages of the turn after the user's
    waiting,   \* the calls without a result, in order
    outcome,   \* "open", "concluded" or "abandoned"
    kept       \* what of the turn is in the history

protocolVars == <<log, waiting, outcome, kept>>

Calls(ids) == [kind |-> "calls", ids |-> ids]
Result(id) == [kind |-> "result", ids |-> <<id>>]
Answer == [kind |-> "answer", ids |-> <<>>]

ProtocolInit == log = <<>> /\ waiting = <<>> /\ outcome = "open" /\ kept = <<>>

MakeCalls ==
    /\ outcome = "open" /\ waiting = <<>>
    /\ waiting' \in Seq(Ids) \ {<<>>}
    /\ log' = Append(log, Calls(waiting'))
    /\ UNCHANGED <<outcome, kept>>

\* The result of the first call that waits.  The last one may come with the answer of a
\* turn that has called often enough.
GiveResult ==
    /\ outcome = "open" /\ waiting # <<>>
    /\ waiting' = Tail(waiting)
    /\ \/ log' = Append(log, Result(Head(waiting))) /\ outcome' = outcome
       \/ /\ waiting' = <<>>
          /\ log' = log \o <<Result(Head(waiting)), Answer>>
          /\ outcome' = "concluded"
    /\ UNCHANGED kept

Conclude ==
    /\ outcome = "open" /\ waiting = <<>>
    /\ log' = Append(log, Answer)
    /\ outcome' = "concluded"
    /\ UNCHANGED <<waiting, kept>>

\* The turn is given up, or a concluded one is not kept.
Abandon ==
    /\ outcome # "abandoned" /\ kept = <<>>
    /\ outcome' = "abandoned"
    /\ log' = <<>> /\ waiting' = <<>>
    /\ UNCHANGED kept

Keep ==
    /\ outcome = "concluded" /\ kept = <<>>
    /\ kept' = log
    /\ UNCHANGED <<log, waiting, outcome>>

ProtocolNext == MakeCalls \/ GiveResult \/ Conclude \/ Abandon \/ Keep

ProtocolSpec == ProtocolInit /\ [][ProtocolNext]_protocolVars
=============================================================================
