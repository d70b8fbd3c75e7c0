---------------------------- MODULE ToolMessages ----------------------------
(***************************************************************************)
(* The messages of a conversation with tools (llm/providers/base.py        *)
(* Message), as the modules tell them apart: who speaks, and how many      *)
(* tools an assistant message calls.  Orchestrator makes such messages,    *)
(* ChatHistory stores them.                                                *)
(***************************************************************************)
EXTENDS Naturals, Sequences

Messages == [role : {"user", "tool"}, calls : {0}] \cup [role : {"assistant"}, calls : Nat]

User == [role |-> "user", calls |-> 0]
Assistant(calls) == [role |-> "assistant", calls |-> calls]
Tool == [role |-> "tool", calls |-> 0]

\* Behind a message with n calls stand n results, and each result is one of those.
ResultsFollowCalls(messages) ==
    /\ \A i \in DOMAIN messages : \A k \in 1 .. messages[i].calls :
          i + k <= Len(messages) /\ messages[i + k].role = "tool"
    /\ \A i \in DOMAIN messages : messages[i].role = "tool" =>
          \E j \in 1 .. (i - 1) : i - j <= messages[j].calls
=============================================================================
