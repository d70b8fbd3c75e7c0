---------------------------- MODULE Orchestrator ----------------------------
(***************************************************************************)
(* One turn of the LLM: the tool loop of Orchestrator.run_turn, the stream *)
(* of the provider under it (AnthropicProvider, OpenAICompatProvider), the *)
(* registry of tools, and the part of the voice pipeline that consumes the *)
(* events (llm/service.py, llm/providers, llm/tools/registry.py,           *)
(* voice/service.py, with voice/sentence.py in SentenceSplitter).          *)
(*                                                                         *)
(* Three generators hang on each other: a step is what happens from one    *)
(* event of the model, one result of a tool or one answer of the pipeline  *)
(* to the next await.  A pipeline that leaves its loop lets the generators *)
(* go, and they are closed later (Released).  What is synthesized is       *)
(* spoken; a synthesizer that fails is VoiceSession's.                     *)
(***************************************************************************)
EXTENDS Integers, Sequences, FiniteSets, SentenceSplitter, ToolMessages

CONSTANTS
    Dialects,        \* providers, a subset of {"anthropic", "openai"}
    MaxIterations,   \* MAX_TOOL_ITERATIONS
    MaxIndex,        \* bound on the content blocks or calls of one iteration
    MaxArgs,         \* bound on the pieces the arguments of a call come in
    Pieces,          \* the pieces of text the model sends
    MaxText          \* bound on the text of a turn

ASSUME OrchestratorConstants ==
    /\ Dialects \subseteq {"anthropic", "openai"}
    /\ MaxIterations \in Nat \ {0}
    /\ MaxIndex \in Nat /\ MaxArgs \in Nat /\ MaxText \in Nat
    /\ \A piece \in Pieces : piece \in Seq(Chars)

VARIABLES
    at,         \* where the turn is
    dialect,
    iteration,
    blocks,     \* anthropic: the content blocks so far, each "text", "tool" or "other"
    asked,      \* ghost: the model's own calls of this iteration, by their number
    strayed,    \* ghost: a piece of one of them was put to another index than its number
    acc,        \* tool_calls_acc: index -> the call as far as it came
    calls,      \* the calls without a result, once the stream is over
    log,        \* new_messages
    badArgs,    \* anthropic: the messages hold a call whose arguments are no JSON
    text,       \* full_text
    cut,        \* the splitter's buffer begins behind this position
    spoken,     \* the stretches of the text that were synthesized, in order
    notice,     \* done.text is a fixed message
    told,       \* _cancel is set
    table,      \* the request is in _cancel_events
    event,      \* its cancel event is set
    saved       \* what append_messages wrote after the user's message

streamVars == <<blocks, asked, strayed, acc>>
textVars == <<text, cut, spoken>>
cancelVars == <<told, table, event>>
vars == <<at, dialect, iteration, streamVars, calls, log, badArgs, textVars, notice,
          cancelVars, saved>>

Streaming == {"first", "stream"}
Over == {"saved", "raised", "stopped", "cut"}
Open == {"request", "tool", "running", "answered"} \cup Streaming
Places == Open \cup {"speaking", "replied"} \cup Over

\* A call comes with an id or not, and its arguments come in pieces, each of which may be
\* what json.loads stumbles over.
Indices == 0 .. MaxIndex
Id(by, turn, index) == [by |-> by, turn |-> turn, index |-> index]
NoId == Id("nobody", 0, 0)
Ids == {Id("model", turn, index) : turn \in 1 .. MaxIterations, index \in Indices}
       \cup {Id("server", 0, index) : index \in Indices}
ArgPieces == {"json", "junk"}
CallRecords == [id : Ids \cup {NoId}, args : Seq(ArgPieces)]

Protocol == INSTANCE ToolProtocol WITH
    waiting <- [k \in DOMAIN calls |-> calls[k].id],
    outcome <- IF at \in Open THEN "open"
               ELSE IF log # <<>> THEN "concluded" ELSE "abandoned",
    kept <- saved

\* Types; nothing is in hand that the stream under way has not brought.
TypeOK ==
    /\ at \in Places
    /\ dialect \in Dialects
    /\ iteration \in 1 .. MaxIterations
    /\ blocks \in Seq({"text", "tool", "other"}) /\ Len(blocks) <= MaxIndex + 1
    /\ DOMAIN asked \cup DOMAIN acc \subseteq Indices
    /\ \A i \in DOMAIN asked : asked[i] \in CallRecords /\ Len(asked[i].args) <= MaxArgs
    /\ \A i \in DOMAIN acc : acc[i] \in CallRecords
    /\ calls \in Seq(CallRecords) /\ Len(calls) <= Cardinality(DOMAIN acc)
    /\ log \in Seq([kind : {"calls", "result", "answer"}, ids : Seq(Ids)])
    /\ text \in Seq(Chars) /\ cut \in 0 .. Len(text)
    /\ {strayed, badArgs, notice, told, table, event} \subseteq BOOLEAN
    /\ event => told

NoCalls == [i \in {} |-> 0]

Init ==
    /\ at = "request"
    /\ dialect \in Dialects
    /\ iteration = 1
    /\ blocks = <<>> /\ asked = NoCalls /\ strayed = FALSE /\ acc = NoCalls
    /\ calls = <<>> /\ log = <<>> /\ badArgs = FALSE
    /\ text = <<>> /\ cut = 0 /\ spoken = <<>>
    /\ notice = FALSE /\ told = FALSE /\ table = FALSE /\ event = FALSE
    /\ saved = <<>>

\* What an iteration has of its stream is new in each, and ends with it.
StreamEnds == blocks' = <<>> /\ asked' = NoCalls /\ strayed' = FALSE /\ acc' = NoCalls

\* The messages and calls of the turn are let go.
Forgets == StreamEnds /\ calls' = <<>> /\ log' = <<>> /\ badArgs' = FALSE

\* The pipeline leaves the turn.
Leaves(to) ==
    /\ at' = to
    /\ Forgets
    /\ UNCHANGED <<dialect, iteration, textVars, notice, saved>>

\* Mutant: what is left behind stays in the table.
StaysInTable == table
\* The finally of chat_stream.
OutOfTable == FALSE

-----------------------------------------------------------------------------
(* chat_stream and the arms of run_turn that read it.                      *)

\* setdefault: the calls of f, and one more that nothing is known of yet.
Opened(f, i) == [j \in DOMAIN f \cup {i} |->
    IF j \in DOMAIN f THEN f[j] ELSE [id |-> NoId, args |-> <<>>]]

\* Mutant: the arguments are what came last.
LastPiece(call, id, args) == [id |-> IF id = NoId THEN call.id ELSE id, args |-> args]
\* The arm for ToolCallDelta: an id that comes is the call's from now on, arguments are
\* added.  (The name, which no property is about, comes as the id does.)
Extended(call, id, args) ==
    [id |-> IF id = NoId THEN call.id ELSE id, args |-> call.args \o args]

\* The model says a piece of its call i, and the orchestrator puts it with what it has of
\* the index the piece came with.
CallPiece(i, index, id, args) ==
    /\ asked' = [Opened(asked, i) EXCEPT ![i] = [id |-> IF id = NoId THEN @.id ELSE id,
                                                args |-> @.args \o args]]
    /\ strayed' = (strayed \/ index # i)
    /\ acc' = [Opened(acc, index) EXCEPT ![index] = Extended(@, id, args)]

\* The provider is called.  The messages are converted first, which for anthropic reads
\* the arguments of the calls made so far as JSON.
Request ==
    /\ at = "request"
    /\ IF dialect = "anthropic" /\ badArgs
       THEN Leaves("raised") /\ UNCHANGED cancelVars
       ELSE /\ at' = "first"
            /\ table' = TRUE /\ event' = FALSE
            /\ UNCHANGED <<dialect, iteration, streamVars, calls, log, badArgs, textVars, notice,
                           told, saved>>

\* The model goes on, and the provider has not been cancelled.
Hears == at \in Streaming /\ ~event

\* A delta of text reaches the pipeline, which sends it and feeds the splitter.
TextDelta(piece) ==
    /\ Hears
    /\ dialect = "anthropic" => blocks # <<>> /\ blocks[Len(blocks)] = "text"
    /\ Len(text) + Len(piece) <= MaxText
    /\ IF told THEN Leaves("stopped")
       ELSE /\ at' = "stream"
            /\ text' = text \o piece
            /\ spoken' = spoken \o Sentences(text', cut)
            /\ cut' = LastCut(text', cut)
            /\ UNCHANGED <<dialect, iteration, streamVars, calls, log, badArgs, notice, saved>>
    /\ UNCHANGED cancelVars

\* content_block_start; a tool_use block opens a call.
BlockStart(kind) ==
    /\ Hears /\ dialect = "anthropic"
    /\ Len(blocks) <= MaxIndex
    /\ blocks' = Append(blocks, kind)
    /\ IF kind = "tool"
       THEN /\ CallPiece(Len(blocks), Len(blocks), Id("model", iteration, Len(blocks)), <<>>)
            /\ at' = "stream"
       ELSE UNCHANGED <<asked, strayed, acc, at>>
    /\ UNCHANGED <<dialect, iteration, calls, log, badArgs, textVars, notice, cancelVars, saved>>

\* thinking_delta: nothing but the first sign of life.
Thinks ==
    /\ at = "first" /\ ~event /\ dialect = "anthropic"
    /\ blocks # <<>> /\ blocks[Len(blocks)] = "other"
    /\ at' = "stream"
    /\ UNCHANGED <<dialect, iteration, streamVars, calls, log, badArgs, textVars, notice,
                   cancelVars, saved>>

\* input_json_delta, of a tool_use block
JsonDelta(args) ==
    /\ Hears /\ dialect = "anthropic"
    /\ blocks # <<>> /\ blocks[Len(blocks)] = "tool"
    /\ LET i == Len(blocks) - 1 IN
       Len(asked[i].args) < MaxArgs /\ CallPiece(i, i, NoId, <<args>>)
    /\ UNCHANGED <<at, dialect, iteration, blocks, calls, log, badArgs, textVars, notice,
                   cancelVars, saved>>

\* tc.get("index", 0)
IndexOf(i, numbered) == IF numbered THEN i ELSE 0

\* A chunk with a piece of any call, with its index or without, with its id or without,
\* and with arguments or without; what says nothing new of its call is left out.
ChunkCall(i, numbered, id, args) ==
    /\ Hears /\ dialect = "openai"
    /\ Len(Opened(asked, i)[i].args) + Len(args) <= MaxArgs
    /\ CallPiece(i, IndexOf(i, numbered), id, args) /\ asked' # asked
    /\ at' = "stream"
    /\ UNCHANGED <<dialect, iteration, blocks, calls, log, badArgs, textVars, notice,
                   cancelVars, saved>>

\* wait_for ends the stream; what the turn has done is not among new_messages.
FirstTokenTimeout ==
    /\ at = "first"
    /\ table' = OutOfTable
    /\ IF told THEN Leaves("stopped")
       ELSE /\ at' = "speaking" /\ notice' = TRUE
            /\ Forgets
            /\ UNCHANGED <<dialect, iteration, textVars, saved>>
    /\ UNCHANGED <<told, event>>

\* The connection to the provider fails, or what comes over it cannot be read.
StreamRaises ==
    /\ at \in Streaming
    /\ table' = OutOfTable
    /\ Leaves("raised")
    /\ UNCHANGED <<told, event>>

\* The provider finds its event set: finish_reason is "cancelled".
StreamCancelled ==
    /\ at \in Streaming /\ event
    /\ table' = OutOfTable
    /\ Leaves("stopped")
    /\ UNCHANGED <<told, event>>

\* Mutant: the results are given in the order of arrival, the last call first.
Backwards(indices, k) == Nth(indices, Cardinality(indices) + 1 - k)
\* sorted(tool_calls_acc.items())
InOrder(indices, k) == Nth(indices, k)

\* Mutant: a call without an id stays without.
Nameless == [k \in 1 .. Cardinality(DOMAIN acc) |-> acc[InOrder(DOMAIN acc, k)]]
\* The calls of this iteration; one without an id is named after its index.
Assembled ==
    [k \in 1 .. Cardinality(DOMAIN acc) |->
        LET i == InOrder(DOMAIN acc, k) IN
        [acc[i] EXCEPT !.id = IF @ = NoId THEN Id("server", 0, i) ELSE @]]
IdsOf(list) == [k \in DOMAIN list |-> list[k].id]
Unreadable(list) == \E k \in DOMAIN list : "junk" \in {list[k].args[j] : j \in DOMAIN list[k].args}

\* The stream ends.  Calls are heeded only when that is the reason it ended for; then the
\* pipeline hears of the first of them, and otherwise that the turn is done.
Finish(reason) ==
    /\ Hears
    /\ table' = OutOfTable
    /\ IF told THEN Leaves("stopped")
       ELSE IF reason = "tool_calls" /\ DOMAIN acc # {}
       THEN /\ at' = "tool"
            /\ calls' = Assembled
            /\ log' = Append(log, Protocol!Calls(IdsOf(calls')))
            /\ badArgs' = (badArgs \/ (dialect = "anthropic" /\ Unreadable(calls')))
            /\ UNCHANGED <<dialect, iteration, streamVars, textVars, notice, saved>>
       ELSE /\ at' = "speaking"
            /\ log' = Append(log, Protocol!Answer)
            /\ StreamEnds
            /\ UNCHANGED <<dialect, iteration, calls, badArgs, textVars, notice, saved>>
    /\ UNCHANGED <<told, event>>

-----------------------------------------------------------------------------
(* The tools, and the end of the turn.                                     *)

\* tool.status is sent, and the tool runs.
ToolStarts ==
    /\ at = "tool"
    /\ at' = "running"
    /\ UNCHANGED <<dialect, iteration, streamVars, calls, log, badArgs, textVars, notice,
                   cancelVars, saved>>

\* execute returns: with the tool's answer, or with an error for an unknown tool, for
\* arguments that are no JSON and for a tool that raises.
ToolReturns ==
    /\ at = "running"
    /\ IF told THEN Leaves("stopped")
       ELSE /\ at' = "answered"
            /\ UNCHANGED <<dialect, iteration, streamVars, calls, log, badArgs, textVars,
                           notice, saved>>
    /\ UNCHANGED cancelVars

\* Mutant: the calls that are left are dropped.
NoneLeft(list) == <<>>
CallsLeft(list) == Tail(list)

\* The result joins the messages.  Then comes the next call, the next request, or the
\* fixed answer of a turn that went round too often.
ToolAnswered ==
    /\ at = "answered"
    /\ LET result == Append(log, Protocol!Result(calls[1].id))
           left == CallsLeft(calls)
           exceeds == left = <<>> /\ iteration = MaxIterations IN
       IF told /\ (left # <<>> \/ exceeds) THEN Leaves("stopped")
       ELSE /\ calls' = left
            /\ log' = IF exceeds THEN Append(result, Protocol!Answer) ELSE result
            /\ notice' = exceeds
            /\ at' = IF left # <<>> THEN "tool" ELSE IF exceeds THEN "speaking" ELSE "request"
            /\ iteration' = IF left = <<>> /\ ~exceeds THEN iteration + 1 ELSE iteration
            /\ IF left = <<>> THEN StreamEnds ELSE UNCHANGED streamVars
            /\ UNCHANGED <<dialect, badArgs, textVars, saved>>
    /\ UNCHANGED cancelVars

\* The rest of the text is spoken and, if nothing was until now, the whole answer; then
\* the response is sent.  A pipeline that was told to stop speaks no more.
Whole == IF notice THEN <<<<0, 0>>>> ELSE IF text = <<>> THEN <<>> ELSE <<<<1, Len(text)>>>>
Reply ==
    /\ at = "speaking"
    /\ at' = "replied"
    /\ spoken' = IF told THEN spoken
                 ELSE LET heard == spoken \o Rest(text, cut) IN
                      IF heard = <<>> THEN Whole ELSE heard
    /\ cut' = Len(text)
    /\ UNCHANGED <<dialect, iteration, streamVars, calls, log, badArgs, text, notice,
                   cancelVars, saved>>

Save ==
    /\ at = "replied"
    /\ at' = "saved"
    /\ saved' = log
    /\ UNCHANGED <<dialect, iteration, streamVars, calls, log, badArgs, textVars, notice, cancelVars>>

-----------------------------------------------------------------------------
(* From outside.                                                           *)

\* _barge_in, and cancel of the provider
BargeIn ==
    /\ at \notin Over /\ ~told
    /\ told' = TRUE
    /\ event' = table
    /\ UNCHANGED <<at, dialect, iteration, streamVars, calls, log, badArgs, textVars, notice,
                   table, saved>>

\* The pipeline's task is cancelled, or it cannot send or save: in the midst of the
\* provider's stream, which ends it, or outside of it.
BreaksOff ==
    /\ at \notin Over
    /\ Leaves("cut")
    /\ table' \in {table, OutOfTable}
    /\ UNCHANGED <<told, event>>

\* The generators that were left behind are closed.
Released ==
    /\ at \in {"stopped", "cut"} /\ table
    /\ table' = OutOfTable
    /\ UNCHANGED <<at, dialect, iteration, streamVars, calls, log, badArgs, textVars, notice,
                   told, event, saved>>

\* (Whether arguments are JSON tells only in anthropic's conversion.)
Model ==
    \/ \E piece \in Pieces : TextDelta(piece)
    \/ \E kind \in {"text", "tool", "other"} : BlockStart(kind)
    \/ \E args \in ArgPieces : JsonDelta(args)
    \/ \E i \in Indices, args \in {<<>>, <<"json">>} :
          \E numbered \in BOOLEAN, id \in {NoId, Id("model", iteration, i)} :
             ChunkCall(i, numbered, id, args)
    \/ Thinks
    \/ \E reason \in {"stop", "tool_calls", "length"} : Finish(reason)

Progress ==
    \/ Request \/ StreamRaises \/ ToolStarts \/ ToolReturns \/ ToolAnswered
    \/ Reply \/ Save \/ Released \/ FirstTokenTimeout \/ StreamCancelled \/ Model

Next == Progress \/ BargeIn \/ BreaksOff

Spec == Init /\ [][Next]_vars

\* A stream ends or fails, tools and sends return, and the loop closes generators that
\* were let go.
FairSpec == Spec /\ WF_vars(Progress)

-----------------------------------------------------------------------------
(* Properties.                                                             *)

\* Every call has its result before the model is asked again or the turn is answered, and
\* the history gets the whole turn or nothing of it: whatever the model asks for, however
\* the stream and the tools fail and whenever the turn is stopped.
FollowsProtocol == Protocol!ProtocolSpec

\* What the history gets is what ChatHistory expects of a turn: behind each message with
\* calls their results, those of its calls in their order, and an answer at the end.
MessageOf(entry) == CASE entry.kind = "calls" -> Assistant(Len(entry.ids))
                      [] entry.kind = "result" -> Tool
                      [] entry.kind = "answer" -> Assistant(0)
SavedIsWhole ==
    /\ ResultsFollowCalls([i \in DOMAIN saved |-> MessageOf(saved[i])])
    /\ \A i \in DOMAIN saved : saved[i].kind = "calls" =>
          \A k \in DOMAIN saved[i].ids : saved[i + k] = Protocol!Result(saved[i].ids[k])
    /\ saved # <<>> => saved[Len(saved)] = Protocol!Answer

\* The calls in hand are those the model made, in the order of their numbers, each with
\* its arguments and its id, and no two go by one id.
AsTheModelMadeThem ==
    at \in {"tool", "running", "answered"} =>
        LET done == Cardinality(DOMAIN asked) - Len(calls)
            made(k) == asked[Nth(DOMAIN asked, done + k)] IN
        /\ done >= 0
        /\ \A k \in DOMAIN calls :
              /\ calls[k].args = made(k).args
              /\ made(k).id # NoId => calls[k].id = made(k).id
              /\ \A j \in DOMAIN calls : calls[j].id = calls[k].id => j = k

\* What is executed is what the model asked for, call by call, however the pieces of
\* several calls are mixed and wherever their ids come: of anthropic always, and of the
\* others as long as no piece of any call but the first comes without its index, which
\* the provider takes for the first's.
CallsAreWhole == dialect = "anthropic" \/ ~strayed => AsTheModelMadeThem

\* However the text comes in pieces, it is spoken as it was written: no stretch twice or
\* out of order, and of its letters none is left out but one that stands alone, unless
\* the turn was told to stop.  An answer is never silent.
SpokenAsWritten ==
    /\ \A m, n \in DOMAIN spoken : m < n => spoken[m][2] < spoken[n][1]
    /\ at \in {"replied", "saved"} /\ ~told =>
          /\ notice \/ text # <<>> => spoken # <<>>
          /\ \A p \in DOMAIN text :
                \/ text[p] # "letter"
                \/ \E n \in DOMAIN spoken : p \in spoken[n][1] .. spoken[n][2]
                \/ \A q \in {p - 1, p + 1} \cap DOMAIN text : text[q] # "letter"

\* Every turn ends, and the provider's table is empty then: a request that nobody waits
\* for any longer is not kept.
TurnEndsAndCloses == <>(at \in Over /\ ~table)

-----------------------------------------------------------------------------
(* What the documents say and the code does not do.                        *)

\* llm/tools/registry.py: every failure of a tool becomes a result that the model reads;
\* none ends the turn.
ToolFailuresReachTheModel == [][at = "request" => at' # "raised"]_vars

\* design section 3-2: the contract of a provider includes parallel calls, and where the
\* engines differ in how they send calls, the adapter takes it up.  So calls stay apart
\* also when a server leaves their index out.
CallsStayApart == AsTheModelMadeThem
=============================================================================
