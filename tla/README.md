# Formal models of the Cozy Buddy server

The server (`src/app`, FastAPI on one asyncio event loop) is the home side of a
voice assistant: Android tablets ("hubs") hold one WebSocket each, send speech,
and get speech, subtitles, timer rings and dashboard updates back. These TLA+
modules model the parts of it whose correctness depends on the order in which
tasks, messages, failures and restarts happen. TLC checks them on small
instances; TLAPS proves what matters most for every instance.

Paths below are relative to `src/app`; "docs" is
`src/docs/cozy-buddy-design-v3.md`.

## 1. The system

### Components, their state and operations

| Component | State it keeps | Operations | Model |
|---|---|---|---|
| Voice session (`domain/voice/service.py`, one per socket) | utterance buffer, `_collecting`, `_session_id`, `_pipeline_task`, `_cancel`, the pipeline's own progress | `utterance.start/end/cancel`, audio frames, `text.query`, `tts.cancel`, `close`; the pipeline STT → context → LLM and tools → speech → response → save → summary | `VoiceSession`, `TurnLedger` |
| Gateway and connection manager (`domain/voice/ws.py`, `core/websocket.py`) | `_connections`: hub id → socket | handshake, `register`, `unregister`, `send_to`, `broadcast_all`, `announce` | `HubConnections`, `HubDirectory` |
| Timers (`domain/timer`, `core/scheduler.py`, `main.py` lifespan) | timers table, APScheduler jobs (in memory) | create, cancel, fire, restore at start | `TimerService` |
| Chat sessions (`domain/chat`) | sessions with `last_active_at` and `summary`, messages | get or create, load context, append, roll summary | `ChatHistory` |
| Device control (`domain/device`) | devices table with `online`, adapter cache | resolve, control with retry, query, discover, identify | `DeviceControl` |
| Scenario engine (`domain/scenario`) | scenarios, actions, schedule jobs | run (serial and parallel groups, by schedule, REST or voice), sync schedules, create, delete | `ScenarioEngine`, `StagedRun` |
| Orchestrator and tools (`domain/llm/service.py`, `llm/tools`) | none between turns | tool loop with at most five iterations, assembly of calls, execution, first-token timeout | `Orchestrator`, `ToolProtocol` |
| LLM providers (`llm/providers`) | cancel events of running requests, by id | stream, cancel; conversion of messages | `Orchestrator` |
| Sentence splitter (`voice/sentence.py`) | text buffer | feed, flush | `SentenceSplitter`, within `Orchestrator` |
| Pairing (`domain/auth`, `hub/api.py`, handshake of `voice/ws.py`) | pairing codes (in memory), hubs table | issue, consume, pair, token to JWT, unpair, set the room, delete a room, look the hub up and then its room | `HubPairing` |
| Provider runtime (`voice/runtime.py`, `initialize` of the engines) | the STT and TTS singletons, one lock | lazy initialisation, failing or cancelled loads | `ProviderRuntime` |
| Rooms and hub settings, schema, frame | tables, configuration | single-statement reads and writes | only what decides a step above |

### How they interact

All tasks run on one event loop, so code between two awaits is atomic, and every
await is a place where another task runs or a cancellation arrives.

* A hub's receive loop dispatches to its session handler. A request starts a
  pipeline task; a new request sets the old one's cancel event, cancels its task
  and does not wait for it.
* The pipeline calls the orchestrator, whose tools call devices, scenarios and
  timers in the pipeline's own task: cancelling a turn cuts them at their awaits.
* Timers, scenarios and device control push to hubs through the manager's map,
  concurrently with the pipeline that writes to the same socket.
* Scheduler jobs run in tasks of their own and share the database, and nothing
  else, with the requests that made them.
* A restart loses every task, job, socket and pairing code; the lifespan rebuilds
  the jobs from the database.

### Hard behaviours and what makes the components correct

* **Replacement without waiting** (voice): the old pipeline unwinds while the new
  one runs. One turn acts at a time; a replaced turn says nothing but `idle`; the
  hub never stays on `thinking`; the history stays in order; every turn ends.
* **Test, then act** (barge-in): at most one effect gets through.
* **Late disconnects** (connections): an old socket that ends must not take the
  new one's entry; a hub that is gone must not stay; a broadcast must reach who
  stays, whatever happens to the others.
* **Row and job** (timers): two stores without a transaction. No timer is lost
  silently, none rings twice within one life of the server, none rings after its
  cancellation, one-shots go.
* **Windows and limits** (chat): whole turns only; what is in neither window nor
  summary is bounded.
* **Retries and overtaking** (devices): tasks on one device are not serialized. A
  touch command must land on its own device, every task must end, and a task that
  had the device to itself must leave device, flag and report in agreement.
* **Groups as barriers** (scenarios): actions of a group run at once, the next
  group waits for all of them, and every answer is reported in its place. Rows and
  jobs are two stores here too; a deleted scenario must stay quiet.
* **Three generators in a row** (orchestrator): every call has its result before the
  model is asked again, whatever ends the stream; what is executed and spoken is
  what the model said, however it comes in pieces; no request stays in the table.
* **Look, then commit** (pairing): two pairings of one hub id, unpairing under a
  handshake, codes drawn again while they are stored. A returned token must work
  and a connection must be served with a row its hub has had, though the row and its
  room are read at two awaits.
* **One lock for two loads** (runtime): a load is paid once, and whoever waits comes
  to its turn when the one before fails or is cancelled.

## 2. Modules

| Module | Content |
|---|---|
| `TurnLedger` | abstract: turns opened, acting, answered, remembered |
| `VoiceSession` | one connection and its pipeline tasks; implements `TurnLedger` |
| `MCVoiceSession`, `VoiceSession_proofs` | instance for TLC; theorems |
| `HubDirectory` | abstract: who is a hub's current connection |
| `HubConnections` | sockets, the map, announcements, broadcasts; implements `HubDirectory` |
| `MCHubConnections`, `HubConnections_proofs` | instance for TLC; theorems |
| `TimerService` | rows, jobs, tasks, crash and restore |
| `MCTimerService`, `TimerService_proofs` | instance for TLC; theorems |
| `ToolMessages` | the messages of a conversation: who speaks, how many tools are called; results behind calls |
| `ChatHistory` | sessions, messages, summaries of one hub |
| `MCChatHistory`, `ChatHistory_proofs` | instance for TLC; theorems |
| `DeviceControl` | the table, the devices and the tasks on them |
| `MCDeviceControl`, `DeviceControl_proofs` | instance for TLC; theorems |
| `StagedRun` | abstract: a run begins its actions stage by stage and tells of all of them |
| `ScenarioEngine` | the table, the jobs, the runs; each run implements `StagedRun` |
| `MCScenarioEngine`, `ScenarioEngine_proofs` | instance for TLC; theorems |
| `ToolProtocol` | abstract: calls, results and answers of a turn, and what of it is kept |
| `SentenceSplitter` | feed and flush as operators on positions of the text |
| `Orchestrator`, `MCOrchestrator` | the tool loop with provider and consumer, on `SentenceSplitter`; implements `ToolProtocol`; instance for TLC |
| `HubPairing` | codes, rows, tokens, JWTs, handshakes |
| `MCHubPairing`, `HubPairing_proofs` | instance for TLC; theorems |
| `ProviderRuntime` | the lock, its queue, the loads and the threads they leave behind |
| `MCProviderRuntime` | instance for TLC |
| `TurnAndProviders_proofs` | theorems about `Orchestrator` with `SentenceSplitter`, and about `ProviderRuntime` |

The modules compose by their interfaces rather than by one product state:
`VoiceSession` establishes that a connection's turns follow one another, which
`ChatHistory` takes as its one turn at a time; `HubConnections` is where
`TimerService`'s `hubUp` and every push come from; `VoiceSession`'s cancellation
is `TimerService`'s `CreateCut` and `CancelCut`, `Orchestrator`'s `BreaksOff` and
`ProviderRuntime`'s `CancelLoad`. `Orchestrator` is the inside of the one step
that `VoiceSession` makes of a streamed event, and its `saved` is the turn that
`ChatHistory` appends. An action of a `ScenarioEngine` run answers as a command of
`DeviceControl` or an announcement of `HubConnections` does. `HubPairing` ends
where `HubConnections` begins: with a connection that is greeted.

### Correspondence

*VoiceSession.* `pc[t]` is the await at which the task of turn `t` is suspended;
each action is the code up to the next one. `Cancelled` is `Task.cancel()`: a task
that never ran dies silently, a running one goes to `unwind`, whose finally block
(`FinallyIdle`) comes at any later moment. `_barge_in` awaits the provider's cancel
between setting the event and cancelling the task; `TtsCancel` followed by
`StartPipeline` is that interleaving. `peer` is the far end: a send to a hub that
is gone raises, in the except and finally blocks too, so the task is `done`.
`wire`, `shown`, `late` and `origin` record what the hub is told.

*HubConnections.* `stage` follows a socket through `hub_websocket`; `connections`
is the manager's dictionary, with `Nobody` for a missing key. An announcement
keeps the socket it found (`line`) for audio and looks up the current one for
messages, as `announce` does. `steady` and `received` record which hubs stayed
connected during a broadcast and what they got.

*TimerService.* `rows` and `jobs` are the table and the job store; `creating`,
`cancelling` and `firing` are tasks between two awaits. A job leaves the store
when it is handed to the executor. `restore` is what `reschedule_all` has still
to treat. `spoiled` names the ids that a listed failure has hit, so that the
properties can say "lost, and nobody knows" apart from "failed, and logged".
`zone` is how far the host's zone is ahead of UTC: `fires_at` is stored naive and in
UTC, and the scheduler reads it in the zone of the host, so a job is set for
`firesAt - zone`.
Recurrences are four kinds: none, a crontab, one that does not parse, and a
dictionary without `cron`, which is scheduled once and never deleted.

*ChatHistory.* A message is its role and its number of calls, a summary the list of
pieces folded into it, and the 2000 characters are a number of pieces. `context` and
`dest` are the sessions a turn read from and saves to: they differ when the idle limit
passes in between.

*DeviceControl.* `job[c].at` is the await of task `c`; `place` and `online` are the
table, `lamp` the device itself. A call of the adapter that fails, or is cut off,
may have switched the device. `seen` is the flag as the task's database session
loaded it: SQLAlchemy writes no column that is set to the value it was loaded
with, so `device.online = result.ok` is an UPDATE only when they differ. Which
names fit which device is the constant `Matches`. `alone` and `last` record which
tasks were disturbed and which command to a device was the latest; a task that
has ended keeps only what the properties look at.

*ScenarioEngine.* `creating` holds the ids that `create_scenario` has committed and
not refreshed yet, `deleting` those whose job is gone and whose row is not. `JobOf`
is `sync_schedule`: the triggers in order, each replacing the job of the one before,
up to a crontab that raises. `run[r].at` is the await of a run: `GroupFrom` is
`_group_actions`, `ActionAnswers` the return of one action of the `gather`,
`Settle` the loop over the outcomes with its commit. As in `DeviceControl`, `seen`
is the flag as loaded, and only a different one is written. `spoiled` names the ids
whose job a listed failure may have left wrong. A run that ends before it has told
leaves nothing, so it is `quit`.

*StagedRun.* Stages are stretches of neighbours with one label, which is stated
without the code's loop; the refinement maps `results` and `outcomes` to one
function of answers, and what is loaded but unanswered to `begun`.

*Orchestrator.* `at` is where the chain of generators is suspended: `first` and
`stream` are the provider, `tool` to `answered` the registry, `speaking` and
`replied` the consumer. The model is whatever it likes: content blocks or chunks in
any order, calls with and without ids, arguments in pieces, some of them no JSON.
Of an OpenAI-compatible server a piece may come without its index, which the provider
takes for 0 (`IndexOf`), and any piece may bring an id, which replaces the one before.
`asked` is what the model said, by the model's own number of the call; `acc` is what
the orchestrator holds, by the index it was handed; `strayed` is set when a piece has
gone to an index that is not its call's.
`table` and `event` are the request's entry in `_cancel_events`. `Leaves` is a
pipeline that stops consuming: its generators are closed later (`Released`). For the
anthropic dialect `Request` reads the arguments of earlier calls as JSON, as the
conversion of the messages does.

*SentenceSplitter.* The buffer is the text since the last cut, so `feed` is a set of
cuts of the whole text so far; `IsMatch` is the regular expression, as far to the
right as it goes.

*HubPairing.* A step of a request is what happens between two awaits: look-up and
commit are separate. A token is named after the pairing that drew it, and so is its
row, since a primary key is not used again. `left` is what remains of a code's time;
eviction happens at the next `issue` or `consume`. `credit` counts the uses that the
issues of a code still allow. The handshake looks up the hub (`LookUpHub`) and its room
(`LookUpRoom`) at two awaits, between which the hub may be moved and its old room
deleted (`DeleteRoom`, refused while a hub stands in the room); a room that is gone is
greeted as none. `stood` is what the hub's row was since the JWT came, `deleted` the
tokens whose rows are gone. `Closes` is what a connection leaves when it ends: nothing.

*ProviderRuntime.* `holder` and `queue` are the state of `asyncio.Lock`, which is
modelled from the use of it and marked external. A cancelled `initialize` gives the
lock back while its thread goes on: `stray` counts such threads.

## 3. Runs

| Run | Bounds | What it shows |
|---|---|---|
| `voice` | 3 turns, 1 frame | all safety properties of a connection, and `ImplementsLedger` |
| `voice_live` | 2 turns, 1 frame | `TurnsEnd` |
| `timers` | 2 timers, one of any kind and one a one-shot or a bad crontab, clock 0..1, 1 crash, a host on UTC or ahead of it | type, no ring too many, no silent loss, cancel is final, one-shots go |
| `hubs` | 2 hubs, 3 sockets, 1 announcement, 1 broadcast | the directory, announcements, broadcasts, liveness |
| `chat` | window 2, trigger 3, 2 sessions of at most 7 messages, room for 2 pieces | whole turns, bounded forgetting |
| `device` | 2 lamps, 1 room, 2 tasks, 3 attempts | touch commands land on their device, undisturbed tasks are exact |
| `scenario` | 2 scenarios, 1 device, 2 runs, 1 crash or failure | jobs follow rows, stages, deleted scenarios are quiet, flags follow answers |
| `orchestrator` | 2 rounds of up to 2 calls, arguments in up to 2 pieces, 6 characters of text in 2 deltas, both dialects | `FollowsProtocol`, calls are whole, text is spoken as written, turns end with an empty table |
| `pairing` | 1 code, 3 issues, 2 hubs, 2 rooms, 3 pairings, 1 exchange, unpairing and socket | codes admit once, returned tokens work, hubs are greeted by a row they had |
| `runtime` | 2 providers, 3 tasks, 2 stray threads of each | the cold load is paid once, waiters come to their turn |
| `unpairing` | 1 of each | **violated**: unpairing revokes the token |
| `tool_arguments` | as `orchestrator` | **violated**: a tool's failure does not end the turn |

Why the bounds are enough for the interesting cases: two turns let one replace the
other, the third lets two replaced turns unwind beside it. Two timers let the restore
end between them, and with one more tick everything that is due becomes past; a host
that is ahead of UTC restores what has rung. Two sockets let a hub reconnect before
its old socket ends, the third belongs to another hub. With a window of two and a
trigger of three a turn with one tool call (four messages) or two (five) crosses both
limits, and seven messages roll the summary more than once. The names of the two lamps
contain each other, so each fits both references and a third reference fits one only;
two tasks overlap in every way two can, and three attempts are the code's own number.
One scenario has a bad crontab, the other two triggers and two actions without a group
before a group of two on one device: the smallest plan in which neighbours without a
group, and two answers for one flag, can go wrong. Two rounds are enough for a loop
that is left at its limit and one that is not; two calls can be mixed, or merged when
one comes without its index; a mark followed by a newline, cut apart by the end of a
delta, is where the splitter's match depends on what has come. Three pairings let two
race for a hub id that a third one had before; one code is drawn again while it is
stored, and a life of one tick lets it expire; two rooms let a hub be moved and the
room it left be deleted between the two look-ups of a handshake. Three tasks make a
queue of two behind a holder.

`MaxTurns`, `MaxTime`, `MaxCrashes`, `MaxSessions`, `MaxMessages`, `MaxFaults`,
`MaxIndex`, `MaxArgs`, `MaxText`, `MaxIssues` and `MaxStray` bound the state space and
are named in the guards; nothing else is capped. Deadlock is checked for
`ProviderRuntime`, whose callers call for ever, and where the configuration does not
say otherwise: a connection that is closed, sockets and requests that are all used,
and tasks, runs and turns that have all ended stop for good.

### Divergences

Two runs show the code to differ from what its comments say:

* `unpairing` — "unpair: the token is invalid at once" (`auth/service.py:98`). The
  delete of a hub that has talked once is refused by the foreign key of
  `chat_sessions` on PostgreSQL; the request fails and the token stays valid. The
  tests run on SQLite, which does not enforce the key.
* `tool_arguments` — "every failure becomes a result that the model reads"
  (`llm/tools/registry.py:55`). Arguments that are no JSON are answered, but stay in
  the messages, and the next request of the anthropic provider cannot read them.

Others are stated by properties the modules define and TLC refutes with these
configurations beside the runs:

| Configuration (module) | Property | What happens |
|---|---|---|
| `MCVoiceLabels` (`MCVoiceSession`) | `RepliesCarryTheirSession` | `utterance.start` relabels a running turn |
| `MCTimerRestart` (`MCTimerService`) | `RestartRestoresAll` | the restore gives up at the first error |
| `MCTimerZone` (`MCTimerService`) | `NotMissedEarly` | naive UTC times are read in the host's zone |
| `MCTimerTwice` (`MCTimerService`) | `NotRungAgain` | a host ahead of UTC takes what has rung for due and restores it |
| `MCHubStreams` (`MCHubConnections`) | `FramesArePlayed` | two announcements to one hub share one stream |
| `MCChatWindow` (`MCChatHistory`) | `ContextIsWhole` | the context window begins with an orphaned tool result |
| `MCDeviceLast` (`MCDeviceControl`) | `LastCommandWins` | an earlier command that is slow or retried overtakes the last one |
| `MCScenarioTriggers` (`MCScenarioEngine`) | `TriggersAreScheduled` | of several schedule triggers only the last becomes a job |
| `MCToolCalls` (`MCOrchestrator`) | `CallsStayApart` | calls that come without an index are merged into the first, against "the adapter takes up the differences" (docs, 3-2) |
| `MCHubRevoked` (`MCHubPairing`) | `RevokedHubsAreBlocked` | a connection past the look-up of its hub is served after the row is deleted, and one that is served stays, against "revoking the token blocks the hub at once" (docs, 11, and `voice/ws.py:56`) |

### Fairness

*VoiceSession:* weak fairness of each pipeline (the loop runs ready tasks, and
STT, TTS, the database and the LLM answer or raise), weak fairness of
`SpeakReturns` (a sentence has finitely many chunks), strong fairness of
`StreamEnds` (a stream yields many events, but the providers cap the tokens and
`run_turn` its iterations, so the end cannot be passed over for ever).
*TimerService:* weak fairness of each timer's own steps, of the restart and of the
clock; none of the requests, the crash or the hub. *HubConnections:* the receive
loop of a socket whose hub is gone ends (the server pings its sockets); nothing
is assumed of announcements or broadcasts. *Orchestrator:* weak fairness of the turn
as a whole: a stream goes on, ends or fails, tools and sends return or raise, the
loop closes generators that were let go; that it ends follows from the limit
of iterations and from streams being finite (`MaxIndex`, `MaxArgs`, `MaxText`), not
from fairness of any one outcome. None of the barge-in or the cut.
*ProviderRuntime:* a task that was woken runs, and a load ends, well or badly;
none of new calls or of cancellation. The other modules state no fairness.

## 4. Proofs

`tlapm` checks the eight `_proofs` modules. All results hold for every value of the
constants that satisfies the module's named assumption; the one about whole turns is
for whole answers. Every invariant, action property and refinement that a passing run
checks is stated by a theorem; the runs found out that it holds before it was proved.

* **VoiceSession** — `TypeCorrect`; `SerialProcessing` (`OneTurnAtATime`);
  `HistoryOrdered` (`HistoryInOrder`); `LedgerImplemented` (`ImplementsLedger`).
  "One turn at a time" is not inductive alone: a turn that has not been started
  must have no task (`pc[t] = "none"` beyond `turn`). "In order" needs that every
  entry is an answered turn not above the current one, and that a turn about to be
  saved is answered and not in the history yet (`RecordInv`). The refinement then takes each
  action to the ledger step it implements: `StartPipeline` to `OpenTurn`, `Respond`
  to `AnswerTurn`, `Save` to `RememberTurn`, the end of the current task to
  `RetireTurn`, the rest to stuttering.
  `BargeInHeard` (`BargeInIsHeard`) and `ReplacedTurnsQuiet`
  (`ReplacedTurnsOnlySayIdle`) say for each await what its code may send before the
  next one (`Speaks`), and that only the newest task is anywhere but in its finally
  block. `HubIsReleased` (`LastWordIsIdle`) is about the state in which all turns are
  over, so it says nothing on the way there; what is inductive is that "thinking" is
  shown only as long as some turn still owes the hub its idle (`WordInv`).
  `BargeInIsPrompt` (`AtMostOneLateEffect`): a turn has announced at most one tool or
  stream when the event is set, and having let it through owes nothing more
  (`LateInv`).
* **TimerService** — `TypeCorrect`; `NothingLostSilently` (`NoSilentLoss`), from
  `RowsAndJobs` (which tasks can exist in which state of the server, that an id not
  handed out yet has left no trace, and that a job fits its row) and from
  `Accounted`, which is stronger for a crontab: its job is there while it fires, too;
  `OneRing` (`AtMostOneRing`), for hosts of every zone: a one-shot rings once, and
  where the host is ahead of UTC at most once more for every restart. The part for
  every zone is `RingsOnce` (a one-shot that is neither scheduled nor being fired may
  have rung once more than the server was restarted, one that is may not); where the
  host is not ahead, `RingsInTime` adds that one that rang has no job, is at most being
  deleted, and its moment has come, so that a restore deletes it;
  `CancelIsFinal` (`CancelledStaysSilent`), from the look-up of the row in `_fire`.
* **HubConnections** — `TypeCorrect`; `ServedEntries` (every entry is served), with
  the owner of every greeting or served socket known; `DirectoryImplemented`
  (`ImplementsDirectory`): `Register` is `Attach`, `LoopEnds` and `Reject` are
  `End`, everything else is invisible. `AnnouncementsAreHeard` (`HeardWhole`) needs
  that a socket an announcement has found does not come back into the map
  (`LinesServed`); `SweepsReach` (`SweepReachesSteadyHubs`) that, while a broadcast
  goes round, a steady hub has it or is still to be visited at the socket it kept
  (`SweepInv`).
* **ScenarioEngine** — `TypeCorrect`; `JobsFollowTheTable` (`JobsFollowRows`): the property is
  inductive scenario by scenario (`Follows`), once `SyncIsDue` has shown that a list
  without a bad crontab leaves its last one as the job (a fact about the cardinality
  of an interval); `DeletedScenariosStayQuiet` (`DeletedStaysQuiet`), from
  `ActsComeLate`: a run that has not read its actions has none, and it reads those
  of the table; `FlagsOfAnswers` (`FlagsFollowAnswers`), from `SettleFlags`: what is
  written is the difference to what was loaded; `StagesImplemented`
  (`ImplementsStages`), run by run: `GetActions` opens the abstract run,
  `LoadGroup` begins a stage, `ActionAnswers` gives an answer, `Settle` moves the answers
  without changing them, `PushResults` tells of the run. It needs the place of a
  run in its plan (`RunOK`): in a group, the actions in hand and those that answered
  are the group behind the results; and that what `GroupFrom` finds is a stage.
* **HubPairing** — `TypeCorrect`, with `SubjectsKnown`: whoever got past a look-up is
  about a hub and a row; `CodesAdmitOncePerIssue` (`CodesAdmitOnce`), strengthened by
  "a code that is stored and in its time has a use left" (`CodesAreBacked`);
  `ReturnedTokensWork` (`PairedTokensWork`), which is inductive because a commit finds
  the hub id free and a delete names its victim; `GreetingsAreWitnessed`
  (`GreetedByARow`): the key of the greeting and its room are of one row the hub had
  since its JWT came, or its room is none and the room of that row is deleted. It is
  strengthened by "what a look-up may find, and what it has found, it has witnessed"
  (`LookUpsAreWitnessed`), and by "what tells a greeting goes on telling it when rooms
  are deleted" (`Tells`).
* **Orchestrator** — `TypeCorrect`, with `StreamInv` (the two records of the calls, the
  model's and the orchestrator's, agree as long as no piece has strayed, and none strays
  in anthropic's dialect) and `CallsInv` (the calls without a result are the last of
  those that were assembled); `CallsComeWhole` (`CallsAreWhole`) follows, and that
  nothing more does is what `CallsStayApart` shows (section 3);
  `ProtocolImplemented` (`FollowsProtocol`): `Finish` makes calls or
  concludes, `ToolAnswered` gives the next result (the last one perhaps with the
  answer at the limit of iterations), `Save` keeps the turn, and whatever leaves it
  before abandons it. From the protocol, in turn, comes `KeptTurnsAreWhole`
  (`SavedIsWhole`), which is what `ChatHistory` assumes of its `Answers`: the messages of
  a turn are whole at any time but for the results of the calls that wait (`WholeBut`),
  and a concluded turn has none.
  `SpeechIsWhole` (`SpokenAsWritten`), for texts of any length: `SpeechInv` says that
  the stretches spoken so far rise, lie before the cut, and cover every letter before
  it that is not alone between marks. It rests on what one `feed` returns
  (`SentencesAreRight`): the cuts are the ends of matches (`CutsAreEnds`), in order
  (`NthCounts`), each stretch is stripped to its first and last letter (`Stripped`).
* **ProviderRuntime** — `RuntimeTypes`; `LoadedOnce` (`ColdLoadOnce`), from `LockInv`:
  nobody waits twice, and who has the lock does not wait and has called for a
  provider that is missing.
* **ChatHistory** — `TypeCorrect`, with "a session is summarized only when it is long
  enough", so that a piece is a number of messages and the cut keeps the summary within
  its column; `SessionsHoldWholeTurns` (`WholeTurns`), for answers in which each call
  has its result (what `Orchestrator` keeps of a turn, by `KeptTurnsAreWhole`), from
  `WholeConcat`: whole messages behind whole messages are whole; `BoundedForgetting`
  (`ForgettingIsBounded`), inductive session by session once the types are known.
* **DeviceControl** — `TypeCorrect`, with an attempt left for a command that sleeps;
  `TouchIsExact` (`TouchLandsOnItsDevice`): a device a touch command was given for has
  been in the table, so that while it is there it fits its own name, and a resolution
  that succeeds finds nothing else; `UndisturbedTasksAreExact` (`UndisturbedIsExact`),
  from `Exact`: no running task works on a device of a task that is alone (`Apart`),
  hence the flag is as that task loaded it and the lamp as its last call left or found
  it (`Clean`), and the step that ends it makes flag, lamp and answer agree. `Apart`
  is what the ghost `alone` is for: without it no step of another task could be
  shown to leave the device as it is.

Two things that the prover's induction theorems would give, if an operator could be
passed to them, are proved without: an induction over positions takes the least
counterexample of a set of naturals (`LeastNatural`, from `NatLessThanWellFounded` and
`WFMin`), and that the recursive function which collects the cuts of a text exists is
shown by writing down another definition of it, the least set of positions closed under
"the next cut", and proving that it satisfies the equation (`CutsAreCollected`).

Besides the bounds, the constants are assumed to be what the code gives: that every
scenario has a plan and every plan a scenario (`Scenarios = DOMAIN Plan`: a row is
created with its actions); that a window, a number of attempts and a time to live are
positive, and a summary is written for no fewer messages than the window has; that a
name fits its own device; and that the values for "nobody" are none of the others.
TLC evaluates each of these assumptions on the instances.

Model-checked only: the liveness properties (`TurnsEnd`, `OneShotsGo`,
`GoneHubsAreForgotten`, `TurnEndsAndCloses`, `WaitersComeToTheirTurn`), which need
fairness and ENABLED; and the two violations, which are counterexamples.

## 5. Not modelled, and why

Texts, audio, confidences and prompts (no property tells them apart); the inference
engines (library code in threads, seen as "answers or raises"); the HTTP layer,
settings, logging and wording; the health checks and usage counts of the providers and
the choice of one by the settings (no state); the single-statement CRUD of rooms and
hubs apart from a hub's room and the deletion of rooms; migrations apart from the keys
that decide a step. The database is taken to commit atomically; the scheduler and
`asyncio.Lock` are modelled from how the code uses them and marked external in the
map. `hub.status`, the trigger type `at` and the scenario actions beyond device
commands, waits and announcements are described in the docs and not handled by the
code. That a hub which is unpaired stays connected, against the design, is stated by
`RevokedHubsAreBlocked` (section 3).

## 6. Plan

Built so far, in order of importance: `VoiceSession` with `TurnLedger`,
`TimerService`, `HubConnections` with `HubDirectory`, `ChatHistory`,
`DeviceControl`, `ScenarioEngine` with `StagedRun`, `Orchestrator` with `ToolProtocol`
and `SentenceSplitter`, `HubPairing`, `ProviderRuntime`.

Next, in this order:

1. Proofs — which part of the refuted properties (section 3) does hold, as theorems
   with the condition named; further promises between the modules, as
   `KeptTurnsAreWhole` is one.
2. The splitter as a function on its own, over longer texts than a turn's.
3. Larger instances: a third run of a scenario, a second device in a group, a third
   round of calls.
