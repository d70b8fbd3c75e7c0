--------------------------- MODULE MCChatHistory ---------------------------
(* ChatHistory with windows shrunk from 20 and 30 messages to 2 and 3.      *)
EXTENDS ChatHistory

\* A plain answer; none, after a timeout; an answer after one tool call, and after two.
MCAnswers == {<<Assistant(0)>>, <<>>, <<Assistant(1), Tool, Assistant(0)>>,
              <<Assistant(2), Tool, Tool, Assistant(0)>>}
=============================================================================
