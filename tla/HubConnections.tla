--------------------------- MODULE HubConnections ---------------------------
(***************************************************************************)
(* The connections of all hubs: the handshake and the life of a socket     *)
(* (voice/ws.py), the map from hub to socket (core/websocket.py), and the  *)
(* tasks that push through it: announcements, with their audio             *)
(* (voice/service.py announce), and broadcasts to every hub                *)
(* (broadcast_all, used by device control and by scenarios).               *)
(*                                                                         *)
(* A step is the code between two awaits.  send_to looks the socket up and *)
(* starts the send in one step, but each message of an announcement is     *)
(* looked up anew, while its audio goes to the socket found at the start.  *)
(* A peer may be gone without the server knowing: a send to it may succeed *)
(* or raise; send_to turns the exception into False, announce's audio send *)
(* ends the announcement.                                                  *)
(***************************************************************************)
EXTENDS FiniteSets

CONSTANTS
    Hubs,            \* hub ids
    Sockets,         \* WebSocket objects, each one a connection
    Nobody,          \* no socket, no hub
    Announcements,   \* calls of announce
    Sweeps           \* calls of broadcast_all

ASSUME HubConstants == Nobody \notin Hubs \cup Sockets

VARIABLES
    stage,        \* how far each socket has come
    owner,        \* the hub a socket's token is for
    reachable,    \* sockets whose hub is still there
    connections,  \* _connections
    saying,       \* where each announcement is
    target,       \* its hub
    line,         \* the socket it found at its start
    playing,      \* sockets whose hub has an open TTS stream of announcements
    sweeping,     \* where each broadcast is
    left,         \* the hubs it has still to visit
    steady,       \* hubs whose socket stayed and was reachable since its start
    received      \* broadcasts that each socket received

socketVars == <<stage, owner, reachable>>
announceVars == <<saying, target, line, playing>>
sweepVars == <<sweeping, left, received>>
vars == <<socketVars, connections, announceVars, sweepVars, steady>>

TypeOK ==
    /\ stage \in [Sockets -> {"unused", "handshake", "greeting", "serving", "closed"}]
    /\ owner \in [Sockets -> Hubs \cup {Nobody}]
    /\ reachable \in SUBSET Sockets
    /\ connections \in [Hubs -> Sockets \cup {Nobody}]
    /\ saying \in [Announcements -> {"ready", "synth", "starting", "speaking", "over"}]
    /\ target \in [Announcements -> Hubs \cup {Nobody}]
    /\ line \in [Announcements -> Sockets \cup {Nobody}]
    /\ playing \in SUBSET Sockets
    /\ sweeping \in [Sweeps -> {"ready", "visiting", "over"}]
    /\ left \in [Sweeps -> SUBSET Hubs]
    /\ steady \in [Sweeps -> SUBSET Hubs]
    /\ received \in [Sockets -> SUBSET Sweeps]

Init ==
    /\ stage = [s \in Sockets |-> "unused"]
    /\ owner = [s \in Sockets |-> Nobody]
    /\ reachable = {}
    /\ connections = [h \in Hubs |-> Nobody]
    /\ saying = [a \in Announcements |-> "ready"]
    /\ target = [a \in Announcements |-> Nobody]
    /\ line = [a \in Announcements |-> Nobody]
    /\ playing = {}
    /\ sweeping = [w \in Sweeps |-> "ready"]
    /\ left = [w \in Sweeps |-> {}]
    /\ steady = [w \in Sweeps |-> {}]
    /\ received = [s \in Sockets |-> {}]

\* Ghost: a hub is steady while its entry stands and its socket is reachable.
StillSteady == steady' = [w \in Sweeps |->
    {h \in steady[w] : connections'[h] = connections[h] /\ connections[h] \in reachable'}]

-----------------------------------------------------------------------------
(* hub_websocket                                                           *)

PeerGone(s) ==
    /\ s \in reachable
    /\ reachable' = reachable \ {s}
    /\ UNCHANGED <<stage, owner, connections, announceVars, sweepVars>>
    /\ StillSteady

Accept(s) ==
    /\ stage[s] = "unused"
    /\ stage' = [stage EXCEPT ![s] = "handshake"]
    /\ reachable' = reachable \cup {s}
    /\ UNCHANGED <<owner, connections, announceVars, sweepVars, steady>>

\* The first message is in time, is an auth, its token decodes and the
\* database knows its hub.
Authenticate(s, h) ==
    /\ stage[s] = "handshake"
    /\ owner' = [owner EXCEPT ![s] = h]
    /\ stage' = [stage EXCEPT ![s] = "greeting"]
    /\ UNCHANGED <<reachable, connections, announceVars, sweepVars, steady>>

\* No auth in time, not an auth, a bad token, a hub that was unpaired; or the send of
\* auth.ok raises.
Reject(s) ==
    /\ stage[s] \in {"handshake", "greeting"}
    /\ stage' = [stage EXCEPT ![s] = "closed"]
    /\ UNCHANGED <<owner, reachable, connections, announceVars, sweepVars, steady>>

\* auth.ok is sent; register puts the socket in the place of an older one.
Register(s) ==
    /\ stage[s] = "greeting"
    /\ stage' = [stage EXCEPT ![s] = "serving"]
    /\ connections' = [connections EXCEPT ![owner[s]] = s]
    /\ UNCHANGED <<owner, reachable, announceVars, sweepVars>>
    /\ StillSteady

\* Mutant: whatever socket the hub has is dropped.
WithoutHub(s) == [connections EXCEPT ![owner[s]] = Nobody]
\* Mutant: the entry stays, as after a finally block without unregister.
WithAll(s) == connections
\* Mutant: the hub's key goes, and a later look-up finds no key.
WithoutKey(s) == [h \in {g \in Hubs : connections[g] # s} |-> connections[h]]
\* unregister: only the socket's own entry is removed.
Without(s) == [h \in Hubs |-> IF connections[h] = s THEN Nobody ELSE connections[h]]

\* The receive loop ends -- disconnect or an exception -- and its finally block runs.
LoopEnds(s) ==
    /\ stage[s] = "serving"
    /\ stage' = [stage EXCEPT ![s] = "closed"]
    /\ reachable' = reachable \ {s}
    /\ connections' = Without(s)
    /\ StillSteady
    /\ UNCHANGED <<owner, announceVars, sweepVars>>

Socket(s) ==
    \/ Accept(s) \/ Reject(s) \/ Register(s) \/ LoopEnds(s) \/ PeerGone(s)
    \/ \E h \in Hubs : Authenticate(s, h)

-----------------------------------------------------------------------------
(* announce                                                                *)

Advance(a, next) == saying' = [saying EXCEPT ![a] = next]

\* The broadcast message is sent in the same step; without a connection, nothing is.
AnnounceStart(a, h) ==
    /\ saying[a] = "ready"
    /\ Advance(a, IF connections[h] = Nobody THEN "over" ELSE "synth")
    /\ target' = [target EXCEPT ![a] = h]
    /\ line' = [line EXCEPT ![a] = connections[h]]
    /\ UNCHANGED <<socketVars, connections, playing, sweepVars, steady>>

\* The first chunk is there: tts.start goes to whatever socket the hub has now.
AnnounceStream(a) ==
    /\ saying[a] = "synth"
    /\ Advance(a, "starting")
    /\ playing' = playing \cup ({connections[target[a]]} \cap reachable)
    /\ UNCHANGED <<socketVars, connections, target, line, sweepVars, steady>>

\* Mutant: the first chunk goes out before tts.start.
MaySpeakAtOnce(a) == saying[a] \in {"synth", "starting", "speaking"}
MaySpeak(a) == saying[a] \in {"starting", "speaking"}

AnnounceFrame(a) ==
    /\ MaySpeak(a)
    /\ stage[line[a]] = "serving"
    /\ Advance(a, "speaking")
    /\ UNCHANGED <<socketVars, connections, target, line, playing, sweepVars, steady>>

\* The chunks run out: tts.end, if there was a tts.start.
AnnounceEnd(a) ==
    /\ saying[a] \in {"synth", "speaking"}
    /\ Advance(a, "over")
    /\ playing' = IF saying[a] = "speaking" THEN playing \ {connections[target[a]]} ELSE playing
    /\ UNCHANGED <<socketVars, connections, target, line, sweepVars, steady>>

\* The TTS provider or the send of a frame raises.
AnnounceFails(a) ==
    /\ saying[a] \in {"synth", "starting", "speaking"}
    /\ Advance(a, "over")
    /\ UNCHANGED <<socketVars, connections, target, line, playing, sweepVars, steady>>

Announce(a) == AnnounceStream(a) \/ AnnounceFrame(a) \/ AnnounceEnd(a) \/ AnnounceFails(a)

-----------------------------------------------------------------------------
(* broadcast_all                                                           *)

Connected == {h \in Hubs : connections[h] # Nobody}

SweepStart(w) ==
    /\ sweeping[w] = "ready"
    /\ sweeping' = [sweeping EXCEPT ![w] = "visiting"]
    /\ left' = [left EXCEPT ![w] = Connected]
    /\ steady' = [steady EXCEPT ![w] = {h \in Connected : connections[h] \in reachable}]
    /\ UNCHANGED <<socketVars, connections, announceVars, received>>

\* Mutant: a failed push ends the broadcast.
StopAtFailure(w, h) == IF connections[h] \in reachable THEN left[w] \ {h} ELSE {}
\* send_to returns False for a hub that is not connected or whose send raises.
StillToVisit(w, h) == left[w] \ {h}

SweepVisit(w, h) ==
    /\ h \in left[w]
    /\ left' = [left EXCEPT ![w] = StillToVisit(w, h)]
    /\ received' = [s \in Sockets |-> IF s = connections[h] /\ s \in reachable
                                      THEN received[s] \cup {w} ELSE received[s]]
    /\ UNCHANGED <<socketVars, connections, announceVars, sweeping, steady>>

SweepEnds(w) ==
    /\ sweeping[w] = "visiting"
    /\ left[w] = {}
    /\ sweeping' = [sweeping EXCEPT ![w] = "over"]
    /\ UNCHANGED <<socketVars, connections, announceVars, left, received, steady>>

Sweep(w) == SweepEnds(w) \/ \E h \in Hubs : SweepVisit(w, h)

-----------------------------------------------------------------------------
Next ==
    \/ \E s \in Sockets : Socket(s)
    \/ \E a \in Announcements : Announce(a) \/ \E h \in Hubs : AnnounceStart(a, h)
    \/ \E w \in Sweeps : SweepStart(w) \/ Sweep(w)

Spec == Init /\ [][Next]_vars

\* The loop of a hub that is gone ends: the server pings its sockets.
Fairness == \A s \in Sockets : WF_vars(LoopEnds(s) /\ s \notin reachable)

FairSpec == Spec /\ Fairness

-----------------------------------------------------------------------------
(* Properties.                                                             *)

\* Who is in the map can be pushed to: an entry is a socket that is being served, whose
\* token is for that hub.
EntriesAreServed ==
    \A h \in Hubs : connections[h] # Nobody =>
        stage[connections[h]] = "serving" /\ owner[connections[h]] = h

\* The map implements the directory: an older connection that ends late does not take
\* the entry of the newer one with it, and no connection returns.
Directory == INSTANCE HubDirectory
    WITH current <- connections,
         attached <- {s \in Sockets : stage[s] = "serving"},
         ended <- {s \in Sockets : stage[s] = "closed"}
ImplementsDirectory == Directory!DirectorySpec

\* A hub that keeps its connection and gets no other announcement at the same time hears
\* the whole of one: when a frame leaves, its tts.start has come through that socket.
HeardWhole ==
    \A a \in Announcements :
        (/\ saying[a] \in {"starting", "speaking"}
         /\ connections[target[a]] = line[a]
         /\ line[a] \in reachable
         /\ \A b \in Announcements \ {a} : target[b] # target[a])
        => line[a] \in playing

\* A state change reaches every hub that stays connected while it is sent, whatever
\* happens to the others: hubs vanish, reconnect, or are not there any more.
SweepReachesSteadyHubs ==
    \A w \in Sweeps : sweeping[w] = "over" =>
        \A h \in steady[w] : w \in received[connections[h]]

\* A hub that is gone does not stay in the map for ever.
GoneHubsAreForgotten ==
    \A h \in Hubs :
        connections[h] \notin reachable ~> connections[h] \in reachable \cup {Nobody}

-----------------------------------------------------------------------------
(* What the documents say and the code does not do.                        *)

\* docs section 5-1: tts.start opens the binary downlink and tts.end closes it.  A frame
\* of an announcement only goes to a hub whose stream is open.
FramesArePlayed ==
    [][\A a \in Announcements :
          AnnounceFrame(a) /\ line[a] \in reachable => line[a] \in playing]_vars
=============================================================================
