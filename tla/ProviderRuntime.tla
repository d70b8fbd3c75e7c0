--------------------------- MODULE ProviderRuntime ---------------------------
(***************************************************************************)
(* voice/runtime.py: STT and TTS are built and initialised on first use,   *)
(* under one asyncio.Lock, and kept for the life of the process.           *)
(*                                                                         *)
(* Callers are tasks: pipelines, which a barge-in may cancel at any await, *)
(* and announcements.  initialize loads the model in a thread              *)
(* (asyncio.to_thread).  Cancelling a task that awaits it ends the await,  *)
(* and with it the async with; the thread goes on, and its model is        *)
(* dropped with the provider it was for.                                   *)
(*                                                                         *)
(* asyncio.Lock is fair: release wakes the first waiter, and whoever comes *)
(* later queues behind it; a waiter that is cancelled leaves the queue.    *)
(***************************************************************************)
EXTENDS Naturals, Sequences, FiniteSets, SequencesExt

CONSTANTS
    Kinds,      \* the two providers, _stt and _tts
    Callers,    \* tasks that call get_stt or get_tts, again and again
    Nobody,     \* no task
    NoKind,     \* no call
    MaxStray    \* bound: loader threads of cancelled calls

ASSUME RuntimeConstants ==
    /\ Nobody \notin Callers
    /\ NoKind \notin Kinds \cup Callers \cup {Nobody}
    /\ MaxStray \in Nat

VARIABLES
    resident,   \* kinds whose provider is kept
    holder,     \* the task inside "async with _lock"
    queue,      \* tasks waiting for the lock, in order
    wants,      \* the kind each task has called for and not yet got
    stray       \* loader threads of each kind that nobody awaits

runtimeVars == <<resident, holder, queue, wants, stray>>

RuntimeTypeOK ==
    /\ resident \in SUBSET Kinds
    /\ holder \in Callers \cup {Nobody}
    /\ queue \in Seq(Callers)
    /\ wants \in [Callers -> Kinds \cup {NoKind}]
    /\ stray \in [Kinds -> Nat]

RuntimeInit ==
    /\ resident = {}
    /\ holder = Nobody
    /\ queue = <<>>
    /\ wants = [c \in Callers |-> NoKind]
    /\ stray = [k \in Kinds |-> 0]

Waiting == ToSet(queue)

\* Mutant: the check under the lock is missing.
AlwaysLoads(k) == TRUE
\* "if _stt is None"
Missing(k) == k \notin resident

\* With the lock, a task whose provider is there returns it and gives the lock back
\* in the same step; another builds the provider and starts to load.
Inside(c, k) ==
    IF Missing(k)
    THEN holder' = c /\ wants' = [wants EXCEPT ![c] = k]
    ELSE UNCHANGED holder /\ wants' = [wants EXCEPT ![c] = NoKind]

\* get_stt, get_tts, on a lock that is free and that nobody waits for.
CallAtOnce(c, k) ==
    /\ wants[c] = NoKind
    /\ holder = Nobody /\ queue = <<>>
    /\ Inside(c, k)
    /\ UNCHANGED <<resident, queue, stray>>

\* The same on a lock that is not, also by a task whose own provider is resident.
CallWaits(c, k) ==
    /\ wants[c] = NoKind
    /\ holder # Nobody \/ queue # <<>>
    /\ wants' = [wants EXCEPT ![c] = k]
    /\ queue' = Append(queue, c)
    /\ UNCHANGED <<resident, holder, stray>>

\* The first waiter, woken by the release.
Enter(c) ==
    /\ holder = Nobody
    /\ queue # <<>> /\ c = Head(queue)
    /\ queue' = Tail(queue)
    /\ Inside(c, wants[c])
    /\ UNCHANGED <<resident, stray>>

\* initialize has its model; the provider is kept.
Loaded(c) ==
    /\ holder = c
    /\ resident' = resident \cup {wants[c]}
    /\ holder' = Nobody
    /\ wants' = [wants EXCEPT ![c] = NoKind]
    /\ UNCHANGED <<queue, stray>>

\* Mutant: the lock is released on the way of success only, and held by no task
\* that is still there.
StaysLocked == NoKind
\* The end of "async with" by an exception.
Unlocked == Nobody

\* No provider of the configured name, no package, no model: the caller gets the exception.
LoadFails(c) ==
    /\ holder = c
    /\ holder' = Unlocked
    /\ wants' = [wants EXCEPT ![c] = NoKind]
    /\ UNCHANGED <<resident, queue, stray>>

\* Task.cancel() while the model loads.
CancelLoad(c) ==
    /\ holder = c
    /\ stray[wants[c]] < MaxStray
    /\ stray' = [stray EXCEPT ![wants[c]] = @ + 1]
    /\ holder' = Unlocked
    /\ wants' = [wants EXCEPT ![c] = NoKind]
    /\ UNCHANGED <<resident, queue>>

\* Task.cancel() in the queue.
CancelWait(c) ==
    /\ \E i \in DOMAIN queue : queue[i] = c /\ queue' = RemoveAt(queue, i)
    /\ wants' = [wants EXCEPT ![c] = NoKind]
    /\ UNCHANGED <<resident, holder, stray>>

\* A thread that nobody awaits comes to its end.
StrayEnds(k) ==
    /\ stray[k] > 0
    /\ stray' = [stray EXCEPT ![k] = @ - 1]
    /\ UNCHANGED <<resident, holder, queue, wants>>

Caller(c) ==
    \/ \E k \in Kinds : CallAtOnce(c, k) \/ CallWaits(c, k)
    \/ Enter(c) \/ Loaded(c) \/ LoadFails(c) \/ CancelLoad(c) \/ CancelWait(c)

RuntimeNext ==
    \/ \E c \in Callers : Caller(c)
    \/ \E k \in Kinds : StrayEnds(k)

\* The event loop runs a task that is woken, and a load ends, well or badly.
Fairness == \A c \in Callers : WF_runtimeVars(Enter(c)) /\ WF_runtimeVars(Loaded(c) \/ LoadFails(c))

RuntimeSpec == RuntimeInit /\ [][RuntimeNext]_runtimeVars /\ Fairness

-----------------------------------------------------------------------------
(* Properties                                                              *)

\* The cold load is paid once: a provider that is kept is never loaded again, although
\* everyone who waits for the lock called while it was missing.
ColdLoadOnce == holder # Nobody => wants[holder] \notin resident

\* Whoever waits for the lock comes to its turn, whatever happens to those before it:
\* a load that fails or is cancelled lets the next one in, and newcomers queue behind.
WaitersComeToTheirTurn == \A c \in Callers : c \in Waiting ~> c \notin Waiting
=============================================================================
