--------------------------- MODULE DeviceControl ---------------------------
(***************************************************************************)
(* The devices of the house and the tasks that work on them: commands by   *)
(* voice and by touch, queries, and the blinking that identifies a device  *)
(* (device/service.py, device/api.py, device/llm_tools.py, adapters/       *)
(* kasa.py).                                                               *)
(*                                                                         *)
(* Nothing serializes tasks on one device: a step is the code between two  *)
(* awaits, and every adapter call, backoff, commit and push is an await.   *)
(* Each task has a database session of its own, which remembers the row as *)
(* it loaded it: at commit an attribute set to the loaded value is not     *)
(* written.  A call that fails may have taken effect all the same, since   *)
(* the adapter disconnects after it.                                       *)
(*                                                                         *)
(* The state of a device is whether it is on; other capabilities take the  *)
(* same way.  What a reference matches (names that contain each other,     *)
(* aliases of types) is a constant relation, so renaming is not modelled.  *)
(***************************************************************************)
EXTENDS Naturals, FiniteSets

CONSTANTS
    Devices,    \* device ids
    Rooms,
    NoRoom,     \* no room given; the place of a device not registered yet
    Gone,       \* the place of a deleted device
    NoDevice,
    Refs,       \* what a device can be called
    Matches,    \* _match: the pairs of a reference and a device it fits
    NameOf,     \* the name of each device
    Jobs,       \* the tasks
    Attempts    \* 1 + len(RETRY_BACKOFF_SECONDS)

ASSUME DeviceConstants ==
    /\ NoRoom \notin Rooms /\ Gone \notin Rooms /\ Gone # NoRoom
    /\ NoDevice \notin Devices
    /\ Matches \subseteq Refs \X Devices
    /\ NameOf \in [Devices -> Refs]
    /\ \A d \in Devices : <<NameOf[d], d>> \in Matches
    /\ Attempts \in Nat \ {0}

VARIABLES
    place,     \* the room of each registered device
    online,    \* the column of the table
    lamp,      \* whether the device is on
    job,       \* the tasks
    alone      \* ghost: tasks that no other task on their device has overlapped with

vars == <<place, online, lamp, job, alone>>
deviceVars == <<place, online, lamp>>

Controls == {"on", "off"}
Kinds == Controls \cup {"query", "identify"}
Over == {"none", "done", "quit"}
Places == Over \cup {"picked", "calling", "backoff", "flashing", "commit", "push"}

\* for: the device a touch command was for; dev: the device it was resolved to;
\* seen: online as loaded; was: the state an identify or a query found;
\* last: ghost, no later command was addressed to the device.
Blank == [at |-> "none", kind |-> "on", for |-> NoDevice, dev |-> NoDevice, seen |-> FALSE,
          tries |-> 0, ok |-> FALSE, was |-> FALSE, last |-> FALSE]

\* Types; a task past its resolution has a device, and a command has attempts left.
TypeOK ==
    /\ place \in [Devices -> Rooms \cup {NoRoom, Gone}]
    /\ online \in [Devices -> BOOLEAN]
    /\ lamp \in [Devices -> BOOLEAN]
    /\ job \in [Jobs -> [at : Places, kind : Kinds, for : Devices \cup {NoDevice},
                         dev : Devices \cup {NoDevice}, seen : BOOLEAN,
                         tries : 0 .. 3 \cup 0 .. Attempts, ok : BOOLEAN, was : BOOLEAN,
                         last : BOOLEAN]]
    /\ alone \in SUBSET Jobs
    /\ \A c \in Jobs :
          /\ job[c].at \notin Over \cup {"picked"} => job[c].dev \in Devices
          /\ job[c].at # "flashing" => job[c].tries <= Attempts

Init ==
    /\ place = [d \in Devices |-> NoRoom]
    /\ online = [d \in Devices |-> FALSE]
    /\ lamp = [d \in Devices |-> FALSE]
    /\ job = [c \in Jobs |-> Blank]
    /\ alone = {}

Running(d) == {c \in Jobs : d \in {job[c].dev, job[c].for} /\ job[c].at \notin Over}

\* Ghost: task c starts to work on d.
Enter(c, d) == alone' = IF Running(d) = {} THEN alone \cup {c} ELSE alone \ Running(d)

-----------------------------------------------------------------------------
(* The table: POST, PATCH and DELETE of /api/devices.                      *)

Registered(d) == place[d] \in Rooms

CreateDevice(d, room) ==
    /\ place[d] = NoRoom
    /\ place' = [place EXCEPT ![d] = room]
    /\ UNCHANGED <<online, lamp, job, alone>>

\* PATCH of room_id
MoveDevice(d, room) ==
    /\ Registered(d)
    /\ place' = [place EXCEPT ![d] = room]
    /\ UNCHANGED <<online, lamp, job, alone>>

DeleteDevice(d) ==
    /\ Registered(d)
    /\ place' = [place EXCEPT ![d] = Gone]
    /\ alone' = alone \ Running(d)
    /\ UNCHANGED <<online, lamp, job>>

-----------------------------------------------------------------------------
(* resolve_device                                                          *)

Matched(ref) == {d \in Devices : Registered(d) /\ <<ref, d>> \in Matches}
InRoom(found, room) == {d \in found : place[d] = room}

\* A room that was named restricts the search; the hub's room only goes first.
Candidates(ref, room, hubRoom) ==
    LET found == Matched(ref) IN
    IF room # NoRoom THEN InRoom(found, room)
    ELSE IF hubRoom # NoRoom /\ InRoom(found, hubRoom) # {} THEN InRoom(found, hubRoom)
    ELSE found

\* Mutant: the first match is taken.
FirstOf(found) == found
\* The device, if there is exactly one; otherwise NotFoundError or AmbiguousDeviceError.
TheOnly(found) == {d \in found : found = {d}}

-----------------------------------------------------------------------------
(* Starting a task.                                                        *)

\* The row is loaded, unless the session holds it, and the adapter is called once.
Address(c, task, d) ==
    job' = [b \in Jobs |->
        IF b = c THEN [task EXCEPT !.at = "calling", !.dev = d, !.tries = 1,
                                   !.seen = IF d = task.for THEN task.seen ELSE online[d],
                                   !.last = task.kind \in Controls]
        ELSE IF task.kind \in Controls /\ job[b].dev = d THEN [job[b] EXCEPT !.last = FALSE]
        ELSE job[b]]

\* Not found or ambiguous, or found and not able to do it: no adapter is called.
Refuse(c) ==
    /\ job' = [job EXCEPT ![c] = [Blank EXCEPT !.at = "quit"]]
    /\ alone' = alone \ {c}

\* control_device and query_device, called as LLM tools.
ByVoice(c) ==
    /\ job[c].at = "none"
    /\ \/ \E ref \in Refs, room, hubRoom \in Rooms \cup {NoRoom}, kind \in Kinds \ {"identify"} :
             \E d \in TheOnly(Candidates(ref, room, hubRoom)) :
                Address(c, [Blank EXCEPT !.kind = kind], d) /\ Enter(c, d)
       \/ Refuse(c)
    /\ UNCHANGED deviceVars

\* POST command and GET state load the device by its id ...
ByTouch(c) ==
    /\ job[c].at = "none"
    /\ \E d \in Devices, kind \in Kinds \ {"identify"} :
          /\ Registered(d)
          /\ job' = [job EXCEPT ![c] = [Blank EXCEPT !.at = "picked", !.for = d, !.kind = kind,
                                                     !.seen = online[d]]]
          /\ Enter(c, d)
    /\ UNCHANGED deviceVars

\* ... and have its name resolved, without a room.
TouchResolves(c) ==
    /\ job[c].at = "picked"
    /\ \/ \E d \in TheOnly(Candidates(NameOf[job[c].for], NoRoom, NoRoom)) :
             /\ Address(c, job[c], d)
             /\ alone' = IF d = job[c].for THEN alone ELSE alone \ ({c} \cup Running(d))
       \/ Refuse(c)
    /\ UNCHANGED deviceVars

Identify(c) ==
    /\ job[c].at = "none"
    /\ \E d \in Devices :
          Registered(d) /\ Address(c, [Blank EXCEPT !.kind = "identify"], d) /\ Enter(c, d)
    /\ UNCHANGED deviceVars

-----------------------------------------------------------------------------
(* The adapter's calls and execute_with_retry.                             *)

\* Task c moves on, with the changes its step made to it.
Goes(c, changed, at) == job' = [job EXCEPT ![c] = [changed EXCEPT !.at = at]]

\* Task c is over; what a successful command did is remembered for the properties.
Ends(c, changed) ==
    /\ job' = [job EXCEPT ![c] =
          IF changed.kind \in Controls /\ changed.ok
          THEN [Blank EXCEPT !.at = "done", !.kind = changed.kind, !.dev = changed.dev,
                             !.ok = TRUE, !.last = changed.last]
          ELSE [Blank EXCEPT !.at = "done"]]
    /\ alone' = alone \ {c}

\* The state that the switching call in flight asks for; identify switches the device to
\* the opposite of what it found and back, twice.
Asked(c) ==
    IF job[c].kind = "identify" THEN (job[c].tries \in {0, 2}) # job[c].was
    ELSE job[c].kind = "on"
Switched(c) == [lamp EXCEPT ![job[c].dev] = Asked(c)]
Switching(c) == job[c].at = "flashing" \/ (job[c].at = "calling" /\ job[c].kind \in Controls)

\* Mutant: one attempt more than there are backoffs for.
OneMoreTry(tries) == tries <= Attempts
MayRetry(tries) == tries < Attempts

\* execute: a failed one may have switched the device.
Executed(c) ==
    /\ job[c].at = "calling" /\ job[c].kind \in Controls
    /\ \/ /\ lamp' = Switched(c)
          /\ Goes(c, [job[c] EXCEPT !.ok = TRUE, !.tries = 0], "commit")
       \/ /\ lamp' \in {lamp, Switched(c)}
          /\ IF MayRetry(job[c].tries) THEN Goes(c, job[c], "backoff")
             ELSE Goes(c, [job[c] EXCEPT !.tries = 0], "commit")
    /\ UNCHANGED <<place, online, alone>>

\* The next turn of the loop, after its sleep.
BackoffEnds(c) ==
    /\ job[c].at = "backoff"
    /\ Goes(c, [job[c] EXCEPT !.tries = @ + 1], "calling")
    /\ UNCHANGED <<deviceVars, alone>>

\* get_state: one attempt, with an answer or an exception.
StateRead(c) ==
    /\ job[c].at = "calling" /\ job[c].kind = "query"
    /\ \E ok \in BOOLEAN :
          Goes(c, [job[c] EXCEPT !.ok = ok, !.was = ok /\ lamp[job[c].dev], !.tries = 0], "commit")
    /\ UNCHANGED <<deviceVars, alone>>

\* identify reads whether the device is on ...
IdentifyStarts(c) ==
    /\ job[c].at = "calling" /\ job[c].kind = "identify"
    /\ Goes(c, [job[c] EXCEPT !.was = lamp[job[c].dev], !.tries = 0], "flashing")
    /\ UNCHANGED <<deviceVars, alone>>

\* ... and switches it four times.
Flash(c) ==
    /\ job[c].at = "flashing"
    /\ lamp' = Switched(c)
    /\ \/ job[c].tries < 3 /\ Goes(c, [job[c] EXCEPT !.tries = @ + 1], "flashing")
                            /\ UNCHANGED alone
       \/ job[c].tries = 3 /\ Ends(c, job[c])
    /\ UNCHANGED <<place, online>>

-----------------------------------------------------------------------------
(* After the adapter: the online flag, the push, the end.                  *)

\* Mutant: a device that answers again is not marked online.
OnlyFailures(ok, seen) == ~ok /\ seen
\* Whether device.online = ok becomes an UPDATE at commit.
Written(ok, seen) == ok # seen

Proceed(c) ==
    IF job[c].ok /\ job[c].kind \in Controls
    THEN Goes(c, [job[c] EXCEPT !.seen = FALSE], "push") /\ UNCHANGED alone
    ELSE Ends(c, job[c])

\* An UPDATE of a row that was deleted meanwhile raises.
Commit(c) ==
    /\ job[c].at = "commit"
    /\ LET d == job[c].dev
           ok == job[c].ok IN
       \/ ~Written(ok, job[c].seen) /\ Proceed(c) /\ UNCHANGED online
       \/ /\ Written(ok, job[c].seen) /\ Registered(d)
          /\ online' = [online EXCEPT ![d] = ok]
          /\ Proceed(c)
       \/ Written(ok, job[c].seen) /\ ~Registered(d) /\ Refuse(c) /\ UNCHANGED online
    /\ UNCHANGED <<place, lamp>>

\* broadcast_all of device.state_changed, with the state that was asked for
Push(c) ==
    /\ job[c].at = "push"
    /\ Ends(c, job[c])
    /\ UNCHANGED deviceVars

\* The voice turn is replaced, the database raises, or a blink fails half way; a call in
\* flight may have reached the device.
BreaksOff(c) ==
    /\ job[c].at \notin Over
    /\ lamp' = lamp \/ (Switching(c) /\ lamp' = Switched(c))
    /\ Refuse(c)
    /\ UNCHANGED <<place, online>>

Step(c) ==
    \/ TouchResolves(c) \/ Executed(c) \/ BackoffEnds(c) \/ StateRead(c)
    \/ IdentifyStarts(c) \/ Flash(c) \/ Commit(c) \/ Push(c)

Next ==
    \/ \E c \in Jobs : ByVoice(c) \/ ByTouch(c) \/ Identify(c) \/ Step(c) \/ BreaksOff(c)
    \/ \E d \in Devices :
          DeleteDevice(d) \/ \E room \in Rooms : CreateDevice(d, room) \/ MoveDevice(d, room)

Spec == Init /\ [][Next]_vars

-----------------------------------------------------------------------------
(* Properties.                                                             *)

\* A touch command is given by the device's id but resolved by its name, like speech: it
\* never lands on another device, unless its own was deleted in between.
TouchLandsOnItsDevice ==
    \A c \in Jobs :
        (job[c].for # NoDevice /\ job[c].dev # NoDevice) =>
            job[c].dev = job[c].for \/ place[job[c].for] = Gone

\* A task that had its device to itself leaves everything in agreement, whatever earlier
\* tasks left behind half done: the online flag says whether the device answered, a
\* command that reports success left the device as asked, a query reports the state
\* the device is in, and identify leaves it as it was.
UndisturbedIsExact ==
    [][\A c \in alone :
          (job[c].at # "done" /\ job'[c].at = "done") =>
              LET d == job[c].dev
                  kind == job[c].kind IN
              /\ kind # "identify" => online'[d] = job[c].ok
              /\ kind \in Controls /\ job[c].ok => lamp'[d] = Asked(c)
              /\ kind = "identify" \/ (kind = "query" /\ job[c].ok) => lamp'[d] = job[c].was]_vars

-----------------------------------------------------------------------------
(* What the documents say and the code does not do.                        *)

\* docs section 12-1: of commands to the same device the last one wins.  When all commands
\* to a device have ended and the last one succeeded, the device is as that one wanted it.
LastCommandWins ==
    \A c \in Jobs :
        (/\ job[c].at = "done" /\ job[c].last
         /\ \A b \in Jobs : job[b].kind \in Controls /\ job[b].at \in {"none", "done"})
        => lamp[job[c].dev] = Asked(c)
=============================================================================
