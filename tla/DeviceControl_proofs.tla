------------------------ MODULE DeviceControl_proofs ------------------------
(***************************************************************************)
(* What holds of DeviceControl for any devices, rooms, references and      *)
(* tasks: its types, that touch commands land on their device, and that a  *)
(* task that has its device to itself is exact.                            *)
(***************************************************************************)
EXTENDS DeviceControl, TLAPS

-----------------------------------------------------------------------------
(* Types.                                                                  *)

Tasks == [at : Places, kind : Kinds, for : Devices \cup {NoDevice},
          dev : Devices \cup {NoDevice}, seen : BOOLEAN, tries : 0 .. 3 \cup 0 .. Attempts,
          ok : BOOLEAN, was : BOOLEAN, last : BOOLEAN]

\* What a single task has to be; one that sleeps has an attempt left.
TaskTyped(task) ==
    /\ task \in Tasks
    /\ task.at \notin Over \cup {"picked"} => task.dev \in Devices
    /\ task.at # "flashing" => task.tries <= Attempts
    /\ task.at = "backoff" => task.tries < Attempts

JobsTyped == job = [c \in Jobs |-> job[c]] /\ \A c \in Jobs : TaskTyped(job[c])

Typed ==
    /\ place \in [Devices -> Rooms \cup {NoRoom, Gone}]
    /\ online \in [Devices -> BOOLEAN]
    /\ lamp \in [Devices -> BOOLEAN]
    /\ JobsTyped
    /\ alone \in SUBSET Jobs

LEMMA TypedIsEnough == Typed => TypeOK
  <1>1. ASSUME Typed PROVE job \in [Jobs -> Tasks]
    BY <1>1 DEF Typed, JobsTyped, TaskTyped
  <1> QED BY <1>1 DEF Typed, JobsTyped, TypeOK, TaskTyped, Tasks

\* No task, and one that is over.
LEMMA BlankTyped == TaskTyped(Blank)
  <1>1. Blank \in Tasks
    BY DeviceConstants DEF Tasks, Blank, Places, Over, Kinds, Controls
  <1>2. Blank.at = "none" /\ Blank.tries = 0 /\ 0 <= Attempts
    BY DeviceConstants DEF Blank
  <1> HIDE DEF Blank
  <1> QED BY <1>1, <1>2 DEF TaskTyped, Over

\* A task that moves to a place that asks nothing of its tries.
LEMMA QuitTyped ==
    ASSUME NEW at \in {"done", "quit"}
    PROVE  TaskTyped([Blank EXCEPT !.at = at])
  <1>1. at \in Places /\ Blank \in Tasks
    BY BlankTyped DEF Places, Over, TaskTyped
  <1>2. [Blank EXCEPT !.at = at] \in Tasks
    BY <1>1 DEF Tasks
  <1>3. [Blank EXCEPT !.at = at].at = at /\ [Blank EXCEPT !.at = at].tries = 0 /\ 0 <= Attempts
    BY DeviceConstants DEF Blank
  <1> HIDE DEF Blank
  <1> QED BY <1>2, <1>3 DEF TaskTyped, Over

\* A task that starts, or goes on with its device.
LEMMA AddressTyped ==
    ASSUME Typed, NEW c \in Jobs, NEW task, TaskTyped(task), NEW d \in Devices,
           Address(c, task, d)
    PROVE  JobsTyped'
  <1> DEFINE seen == IF d = task.for THEN task.seen ELSE online[d]
             last == task.kind \in Controls
             mine == [task EXCEPT !.at = "calling", !.dev = d, !.tries = 1, !.seen = seen,
                                  !.last = last]
  <1>1. TaskTyped(mine)
    <2>1. task \in Tasks /\ online[d] \in BOOLEAN /\ last \in BOOLEAN
      BY DEF Typed, JobsTyped, TaskTyped
    <2>2. seen \in BOOLEAN /\ "calling" \in Places /\ 1 \in 0 .. 3
      BY <2>1 DEF Tasks, Places
    <2> HIDE DEF seen, last
    <2>3. mine \in Tasks
      BY <2>1, <2>2 DEF Tasks
    <2>4. mine.at = "calling" /\ mine.dev = d /\ mine.tries = 1
      BY <2>1 DEF Tasks
    <2>5. 1 <= Attempts
      BY DeviceConstants
    <2> HIDE DEF mine
    <2> QED BY <2>3, <2>4, <2>5 DEF TaskTyped
  <1>2. ASSUME NEW b \in Jobs PROVE TaskTyped([job[b] EXCEPT !.last = FALSE])
    BY DEF Typed, JobsTyped, TaskTyped, Tasks
  <1>3. ASSUME NEW b \in Jobs PROVE TaskTyped(job'[b])
    BY <1>1, <1>2 DEF Address, Typed, JobsTyped
  <1> QED BY <1>3 DEF Address, JobsTyped

\* A task that goes on.
LEMMA GoesTyped ==
    ASSUME Typed, NEW c \in Jobs, NEW task \in Tasks, task.dev \in Devices,
           NEW at \in {"calling", "backoff", "flashing", "commit", "push"}, Goes(c, task, at),
           at # "flashing" => task.tries <= Attempts, at = "backoff" => task.tries < Attempts
    PROVE  JobsTyped'
  <1>1. at \in Places
    BY DEF Places
  <1>2. [task EXCEPT !.at = at] \in Tasks /\ [task EXCEPT !.at = at].at = at
    BY <1>1 DEF Tasks
  <1>3. [task EXCEPT !.at = at].dev = task.dev /\ [task EXCEPT !.at = at].tries = task.tries
    BY DEF Tasks
  <1>4. TaskTyped([task EXCEPT !.at = at])
    BY <1>2, <1>3 DEF TaskTyped
  <1> QED BY <1>4 DEF Goes, Typed, JobsTyped

\* A task that is over.
LEMMA EndsTyped ==
    ASSUME Typed, NEW c \in Jobs, NEW task \in Tasks, Ends(c, task)
    PROVE  JobsTyped'
  <1> DEFINE over == [Blank EXCEPT !.at = "done", !.kind = task.kind, !.dev = task.dev,
                                   !.ok = TRUE, !.last = task.last]
  <1>1. TaskTyped(over)
    <2>1. Blank \in Tasks /\ "done" \in Places
      BY BlankTyped DEF TaskTyped, Places, Over
    <2>2. over \in Tasks
      BY <2>1 DEF Tasks
    <2>3. over.at = "done" /\ over.tries = 0 /\ 0 <= Attempts
      BY DeviceConstants DEF Blank
    <2> HIDE DEF over
    <2> QED BY <2>2, <2>3 DEF TaskTyped, Over
  <1>2. TaskTyped([Blank EXCEPT !.at = "done"])
    BY QuitTyped
  <1>3. job' = [job EXCEPT ![c] = over] \/ job' = [job EXCEPT ![c] = [Blank EXCEPT !.at = "done"]]
    BY DEF Ends
  <1> HIDE DEF over
  <1> QED BY <1>1, <1>2, <1>3 DEF Typed, JobsTyped

LEMMA RefuseTyped ==
    ASSUME Typed, NEW c \in Jobs, Refuse(c)
    PROVE  JobsTyped'
  BY QuitTyped DEF Refuse, Typed, JobsTyped

LEMMA TypedInit == Init => Typed
  BY BlankTyped DEF Init, Typed, JobsTyped

\* What a task may change, and what stays typed with it.
LEMMA TypedByJobs ==
    ASSUME Typed, JobsTyped', UNCHANGED place, online' \in [Devices -> BOOLEAN],
           lamp' \in [Devices -> BOOLEAN], alone' \in SUBSET Jobs
    PROVE  Typed'
  BY DEF Typed

LEMMA TaskIsIn ==
    ASSUME Typed, NEW c \in Jobs
    PROVE  TaskTyped(job[c]) /\ job[c] \in Tasks
  BY DEF Typed, JobsTyped, TaskTyped

LEMMA EnterKeepsJobs ==
    ASSUME Typed, NEW c \in Jobs, NEW d \in Devices, Enter(c, d)
    PROVE  alone' \in SUBSET Jobs
  BY DEF Enter, Typed

\* A new task of any kind.
LEMMA NewTaskTyped ==
    ASSUME NEW kind \in Kinds
    PROVE  TaskTyped([Blank EXCEPT !.kind = kind])
  <1>1. Blank \in Tasks /\ Blank.at = "none" /\ Blank.tries = 0 /\ 0 <= Attempts
    BY BlankTyped, DeviceConstants DEF TaskTyped, Blank
  <1> HIDE DEF Blank
  <1>2. [Blank EXCEPT !.kind = kind] \in Tasks
    BY <1>1 DEF Tasks
  <1>3. [Blank EXCEPT !.kind = kind].at = "none" /\ [Blank EXCEPT !.kind = kind].tries = 0
    BY <1>1 DEF Tasks
  <1> QED BY <1>1, <1>2, <1>3 DEF TaskTyped, Over

\* What a reference is resolved to is a registered device, and the only one that fits it.
LEMMA Resolved ==
    ASSUME NEW ref, NEW room, NEW hubRoom, NEW d \in TheOnly(Candidates(ref, room, hubRoom))
    PROVE  d \in Devices /\ Registered(d) /\ Candidates(ref, room, hubRoom) = {d}
  <1>1. d \in Candidates(ref, room, hubRoom) /\ Candidates(ref, room, hubRoom) = {d}
    BY DEF TheOnly
  <1>2. Candidates(ref, room, hubRoom) \subseteq Matched(ref)
    BY DEF Candidates, InRoom
  <1> QED BY <1>1, <1>2 DEF Matched

LEMMA TypedStep == Typed /\ [Next]_vars => Typed'
  <1> SUFFICES ASSUME Typed, [Next]_vars PROVE Typed'
    OBVIOUS
  <1>1. ASSUME NEW c \in Jobs, ByVoice(c)
        PROVE  Typed'
    <2>1. CASE Refuse(c)
      BY <1>1, <2>1, RefuseTyped, TypedByJobs DEF ByVoice, Refuse, deviceVars, Typed
    <2>2. ASSUME NEW kind \in Kinds, NEW d \in Devices, Enter(c, d),
                 Address(c, [Blank EXCEPT !.kind = kind], d)
          PROVE  Typed'
      <3>1. JobsTyped'
        BY <2>2, NewTaskTyped, AddressTyped
      <3> QED BY <1>1, <2>2, <3>1, EnterKeepsJobs, TypedByJobs DEF ByVoice, deviceVars, Typed
    <2> QED BY <1>1, <2>1, <2>2, Resolved DEF ByVoice
  <1>2. ASSUME NEW c \in Jobs, ByTouch(c)
        PROVE  Typed'
    <2>1. PICK d \in Devices, kind \in Kinds :
             /\ job' = [job EXCEPT ![c] = [Blank EXCEPT !.at = "picked", !.for = d, !.kind = kind,
                                                        !.seen = online[d]]]
             /\ Enter(c, d)
      BY <1>2 DEF ByTouch
    <2> DEFINE task == [Blank EXCEPT !.at = "picked", !.for = d, !.kind = kind, !.seen = online[d]]
    <2>2. Blank \in Tasks /\ Blank.tries = 0 /\ 0 <= Attempts /\ online[d] \in BOOLEAN
      BY BlankTyped, DeviceConstants DEF TaskTyped, Blank, Typed
    <2> HIDE DEF Blank
    <2>3. task \in Tasks
      BY <2>2 DEF Tasks, Places
    <2>4. task.at = "picked" /\ task.tries = 0
      BY <2>2 DEF Tasks
    <2>5. TaskTyped(task)
      BY <2>2, <2>3, <2>4 DEF TaskTyped
    <2>6. JobsTyped'
      BY <2>1, <2>5 DEF Typed, JobsTyped
    <2> QED BY <1>2, <2>1, <2>6, EnterKeepsJobs, TypedByJobs DEF ByTouch, deviceVars, Typed
  <1>3. ASSUME NEW c \in Jobs, TouchResolves(c)
        PROVE  Typed'
    <2>1. CASE Refuse(c)
      BY <1>3, <2>1, RefuseTyped, TypedByJobs DEF TouchResolves, Refuse, deviceVars, Typed
    <2>2. ASSUME NEW d \in Devices, Address(c, job[c], d), alone' \in SUBSET Jobs
          PROVE  Typed'
      <3>1. JobsTyped'
        BY <2>2, TaskIsIn, AddressTyped
      <3> QED BY <1>3, <2>2, <3>1, TypedByJobs DEF TouchResolves, deviceVars, Typed
    <2>3. \/ Refuse(c)
          \/ \E d \in Devices : Address(c, job[c], d) /\ alone' \in SUBSET Jobs
      BY <1>3, Resolved DEF TouchResolves, Typed
    <2> QED BY <2>1, <2>2, <2>3
  <1>4. ASSUME NEW c \in Jobs, Identify(c)
        PROVE  Typed'
    <2>1. PICK d \in Devices : Address(c, [Blank EXCEPT !.kind = "identify"], d) /\ Enter(c, d)
      BY <1>4 DEF Identify
    <2>2. JobsTyped'
      BY <2>1, NewTaskTyped, AddressTyped DEF Kinds
    <2> QED BY <1>4, <2>1, <2>2, EnterKeepsJobs, TypedByJobs DEF Identify, deviceVars, Typed
  <1>5. ASSUME NEW c \in Jobs, Executed(c)
        PROVE  Typed'
    <2>1. job[c] \in Tasks /\ job[c].dev \in Devices /\ job[c].at = "calling"
          /\ job[c].tries <= Attempts /\ job[c].tries \in Nat
      BY <1>5, TaskIsIn, DeviceConstants DEF Executed, TaskTyped, Over, Tasks
    <2>2. lamp' \in [Devices -> BOOLEAN]
      BY <1>5, <2>1 DEF Executed, Switched, Asked, Typed
    <2>3. 0 <= Attempts /\ 0 \in 0 .. 3
      BY DeviceConstants
    <2>4. [job[c] EXCEPT !.ok = TRUE, !.tries = 0] \in Tasks /\ [job[c] EXCEPT !.tries = 0] \in Tasks
      BY <2>1, <2>3 DEF Tasks
    <2>5. /\ [job[c] EXCEPT !.ok = TRUE, !.tries = 0].dev = job[c].dev
          /\ [job[c] EXCEPT !.ok = TRUE, !.tries = 0].tries = 0
          /\ [job[c] EXCEPT !.tries = 0].dev = job[c].dev
          /\ [job[c] EXCEPT !.tries = 0].tries = 0
      BY <2>1 DEF Tasks
    <2>6. JobsTyped'
      <3>1. CASE Goes(c, [job[c] EXCEPT !.ok = TRUE, !.tries = 0], "commit")
        BY <3>1, <2>1, <2>3, <2>4, <2>5, GoesTyped
      <3>2. CASE Goes(c, job[c], "backoff") /\ MayRetry(job[c].tries)
        BY <3>2, <2>1, <2>3, GoesTyped DEF MayRetry
      <3>3. CASE Goes(c, [job[c] EXCEPT !.tries = 0], "commit")
        BY <3>3, <2>1, <2>3, <2>4, <2>5, GoesTyped
      <3> QED BY <1>5, <3>1, <3>2, <3>3 DEF Executed
    <2> QED BY <1>5, <2>2, <2>6, TypedByJobs DEF Executed, Typed
  <1>6. ASSUME NEW c \in Jobs, BackoffEnds(c)
        PROVE  Typed'
    <2>1. job[c] \in Tasks /\ job[c].dev \in Devices /\ job[c].tries < Attempts
      BY <1>6, TaskIsIn DEF BackoffEnds, TaskTyped, Over
    <2>2. job[c].tries \in Nat /\ job[c].tries + 1 \in 0 .. Attempts
      BY <2>1, DeviceConstants DEF Tasks
    <2>3. [job[c] EXCEPT !.tries = @ + 1] \in Tasks
      BY <2>1, <2>2 DEF Tasks
    <2>4. /\ [job[c] EXCEPT !.tries = @ + 1].dev = job[c].dev
          /\ [job[c] EXCEPT !.tries = @ + 1].tries = job[c].tries + 1
      BY <2>1 DEF Tasks
    <2>5. job[c].tries + 1 <= Attempts
      BY <2>2
    <2>6. JobsTyped'
      BY <1>6, <2>1, <2>3, <2>4, <2>5, GoesTyped DEF BackoffEnds
    <2> QED BY <1>6, <2>6, TypedByJobs DEF BackoffEnds, deviceVars, Typed
  <1>7. ASSUME NEW c \in Jobs, StateRead(c)
        PROVE  Typed'
    <2>1. job[c] \in Tasks /\ job[c].dev \in Devices
      BY <1>7, TaskIsIn DEF StateRead, TaskTyped, Over
    <2>2. PICK ok \in BOOLEAN :
             Goes(c, [job[c] EXCEPT !.ok = ok, !.was = ok /\ lamp[job[c].dev], !.tries = 0], "commit")
      BY <1>7 DEF StateRead
    <2> DEFINE was == ok /\ lamp[job[c].dev]
               task == [job[c] EXCEPT !.ok = ok, !.was = was, !.tries = 0]
    <2>3. was \in BOOLEAN /\ 0 <= Attempts /\ 0 \in 0 .. 3
      BY DeviceConstants
    <2>4. Goes(c, task, "commit")
      BY <2>2
    <2> HIDE DEF was
    <2>5. task \in Tasks /\ task.dev = job[c].dev /\ task.tries = 0
      BY <2>1, <2>3 DEF Tasks
    <2> HIDE DEF task
    <2>6. JobsTyped'
      BY <2>1, <2>3, <2>4, <2>5, GoesTyped
    <2> QED BY <1>7, <2>6, TypedByJobs DEF StateRead, deviceVars, Typed
  <1>8. ASSUME NEW c \in Jobs, IdentifyStarts(c)
        PROVE  Typed'
    <2>1. job[c] \in Tasks /\ job[c].dev \in Devices
      BY <1>8, TaskIsIn DEF IdentifyStarts, TaskTyped, Over
    <2> DEFINE was == lamp[job[c].dev]
               task == [job[c] EXCEPT !.was = was, !.tries = 0]
    <2>2. was \in BOOLEAN /\ 0 \in 0 .. 3
      BY <2>1 DEF Typed
    <2>3. Goes(c, task, "flashing")
      BY <1>8 DEF IdentifyStarts
    <2> HIDE DEF was
    <2>4. task \in Tasks /\ task.dev = job[c].dev
      BY <2>1, <2>2 DEF Tasks
    <2> HIDE DEF task
    <2>5. JobsTyped'
      BY <2>1, <2>3, <2>4, GoesTyped
    <2> QED BY <1>8, <2>5, TypedByJobs DEF IdentifyStarts, deviceVars, Typed
  <1>9. ASSUME NEW c \in Jobs, Flash(c)
        PROVE  Typed'
    <2>1. job[c] \in Tasks /\ job[c].dev \in Devices
      BY <1>9, TaskIsIn DEF Flash, TaskTyped, Over
    <2>2. lamp' \in [Devices -> BOOLEAN]
      BY <1>9, <2>1 DEF Flash, Switched, Asked, Typed
    <2>3. CASE job[c].tries < 3 /\ Goes(c, [job[c] EXCEPT !.tries = @ + 1], "flashing") /\ UNCHANGED alone
      <3>1. job[c].tries + 1 \in 0 .. 3
        BY <2>1, <2>3, DeviceConstants DEF Tasks
      <3>2. /\ [job[c] EXCEPT !.tries = @ + 1] \in Tasks
            /\ [job[c] EXCEPT !.tries = @ + 1].dev = job[c].dev
        BY <2>1, <3>1 DEF Tasks
      <3>3. JobsTyped'
        BY <2>1, <2>3, <3>2, GoesTyped
      <3> QED BY <1>9, <2>2, <2>3, <3>3, TypedByJobs DEF Flash, Typed
    <2>4. CASE Ends(c, job[c])
      BY <1>9, <2>1, <2>2, <2>4, EndsTyped, TypedByJobs DEF Flash, Typed, Ends
    <2> QED BY <1>9, <2>3, <2>4 DEF Flash
  <1>10. ASSUME NEW c \in Jobs, Commit(c)
         PROVE  Typed'
    <2>1. job[c] \in Tasks /\ job[c].dev \in Devices /\ job[c].tries <= Attempts /\ job[c].ok \in BOOLEAN
      BY <1>10, TaskIsIn DEF Commit, TaskTyped, Over, Tasks
    <2>2. online' \in [Devices -> BOOLEAN]
      BY <1>10, <2>1 DEF Commit, Typed
    <2>3. CASE Refuse(c)
      BY <1>10, <2>2, <2>3, RefuseTyped, TypedByJobs DEF Commit, Refuse, Typed
    <2>4. CASE Ends(c, job[c])
      BY <1>10, <2>1, <2>2, <2>4, EndsTyped, TypedByJobs DEF Commit, Ends, Typed
    <2>5. CASE Goes(c, [job[c] EXCEPT !.seen = FALSE], "push") /\ UNCHANGED alone
      <3>1. /\ [job[c] EXCEPT !.seen = FALSE] \in Tasks
            /\ [job[c] EXCEPT !.seen = FALSE].dev = job[c].dev
            /\ [job[c] EXCEPT !.seen = FALSE].tries = job[c].tries
        BY <2>1 DEF Tasks
      <3>2. JobsTyped'
        BY <2>1, <2>5, <3>1, GoesTyped
      <3> QED BY <1>10, <2>2, <2>5, <3>2, TypedByJobs DEF Commit, Typed
    <2> QED BY <1>10, <2>3, <2>4, <2>5 DEF Commit, Proceed
  <1>11. ASSUME NEW c \in Jobs, Push(c)
         PROVE  Typed'
    BY <1>11, TaskIsIn, EndsTyped, TypedByJobs DEF Push, Ends, deviceVars, Typed
  <1>12. ASSUME NEW c \in Jobs, BreaksOff(c)
         PROVE  Typed'
    <2>1. lamp' = lamp \/ (job[c].dev \in Devices /\ lamp' = Switched(c))
      BY <1>12, TaskIsIn DEF BreaksOff, Switching, TaskTyped, Over
    <2>2. lamp' \in [Devices -> BOOLEAN]
      BY <2>1 DEF Switched, Asked, Typed
    <2> QED BY <1>12, <2>2, RefuseTyped, TypedByJobs DEF BreaksOff, Refuse, Typed
  <1>13. ASSUME NEW d \in Devices, NEW room \in Rooms,
                CreateDevice(d, room) \/ MoveDevice(d, room)
         PROVE  Typed'
    BY <1>13 DEF CreateDevice, MoveDevice, Typed, JobsTyped
  <1>14. ASSUME NEW d \in Devices, DeleteDevice(d)
         PROVE  Typed'
    BY <1>14 DEF DeleteDevice, Typed, JobsTyped
  <1>15. CASE UNCHANGED vars
    BY <1>15 DEF vars, Typed, JobsTyped
  <1> QED
    BY <1>1, <1>2, <1>3, <1>4, <1>5, <1>6, <1>7, <1>8, <1>9, <1>10, <1>11, <1>12, <1>13, <1>14,
       <1>15 DEF Next, Step

LEMMA Typing == Spec => []Typed
  BY TypedInit, TypedStep, PTL DEF Spec

\* The types of devices and tasks, and that a task past its resolution has a device.
THEOREM TypeCorrect == Spec => []TypeOK
  BY Typing, TypedIsEnough, PTL

-----------------------------------------------------------------------------
(* What a step does to a task, field by field.                             *)

\* Task b is as it was, but for its ghost.
Same(b) ==
    /\ job'[b].at = job[b].at /\ job'[b].kind = job[b].kind /\ job'[b].for = job[b].for
    /\ job'[b].dev = job[b].dev /\ job'[b].seen = job[b].seen /\ job'[b].tries = job[b].tries
    /\ job'[b].ok = job[b].ok /\ job'[b].was = job[b].was

LEMMA GoesFields ==
    ASSUME Typed, NEW c \in Jobs, NEW task \in Tasks, NEW at \in Places, Goes(c, task, at)
    PROVE  /\ \A b \in Jobs \ {c} : Same(b)
           /\ job'[c].at = at /\ job'[c].kind = task.kind /\ job'[c].for = task.for
           /\ job'[c].dev = task.dev /\ job'[c].seen = task.seen /\ job'[c].tries = task.tries
           /\ job'[c].ok = task.ok /\ job'[c].was = task.was
  <1>1. job'[c] = [task EXCEPT !.at = at] /\ \A b \in Jobs \ {c} : job'[b] = job[b]
    BY DEF Goes, Typed, JobsTyped
  <1> QED BY <1>1 DEF Tasks, Same

LEMMA EndsFields ==
    ASSUME Typed, NEW c \in Jobs, NEW task \in Tasks, Ends(c, task)
    PROVE  /\ \A b \in Jobs \ {c} : Same(b)
           /\ job'[c].at = "done" /\ job'[c].for = NoDevice /\ alone' = alone \ {c}
  <1>1. /\ \/ job'[c] = [Blank EXCEPT !.at = "done"]
           \/ job'[c] = [Blank EXCEPT !.at = "done", !.kind = task.kind, !.dev = task.dev,
                                      !.ok = TRUE, !.last = task.last]
        /\ \A b \in Jobs \ {c} : job'[b] = job[b]
    BY DEF Ends, Typed, JobsTyped
  <1>2. job'[c].at = "done" /\ job'[c].for = NoDevice
    BY <1>1 DEF Blank
  <1> QED BY <1>1, <1>2 DEF Same, Ends

LEMMA RefuseFields ==
    ASSUME Typed, NEW c \in Jobs, Refuse(c)
    PROVE  /\ \A b \in Jobs \ {c} : Same(b)
           /\ job'[c].at = "quit" /\ job'[c].for = NoDevice /\ alone' = alone \ {c}
  <1>1. job'[c] = [Blank EXCEPT !.at = "quit"] /\ \A b \in Jobs \ {c} : job'[b] = job[b]
    BY DEF Refuse, Typed, JobsTyped
  <1> QED BY <1>1 DEF Blank, Same, Refuse

LEMMA AddressFields ==
    ASSUME Typed, NEW c \in Jobs, NEW task \in Tasks, NEW d \in Devices, Address(c, task, d)
    PROVE  /\ \A b \in Jobs \ {c} : Same(b)
           /\ job'[c].at = "calling" /\ job'[c].kind = task.kind /\ job'[c].for = task.for
           /\ job'[c].dev = d /\ job'[c].ok = task.ok
           /\ job'[c].seen = IF d = task.for THEN task.seen ELSE online[d]
  <1> DEFINE seen == IF d = task.for THEN task.seen ELSE online[d]
             last == task.kind \in Controls
  <1>1. job'[c] = [task EXCEPT !.at = "calling", !.dev = d, !.tries = 1, !.seen = seen, !.last = last]
    BY DEF Address
  <1>2. \A b \in Jobs \ {c} : job'[b] = job[b] \/ job'[b] = [job[b] EXCEPT !.last = FALSE]
    BY DEF Address
  <1>3. \A b \in Jobs \ {c} : Same(b)
    BY <1>2, TaskIsIn DEF Same, Tasks
  <1> HIDE DEF seen, last
  <1>4. /\ job'[c].at = "calling" /\ job'[c].kind = task.kind /\ job'[c].for = task.for
        /\ job'[c].dev = d /\ job'[c].seen = seen /\ job'[c].ok = task.ok
    BY <1>1 DEF Tasks
  <1> QED BY <1>3, <1>4 DEF seen

LEMMA NewTaskFields ==
    ASSUME NEW kind \in Kinds
    PROVE  /\ [Blank EXCEPT !.kind = kind] \in Tasks
           /\ [Blank EXCEPT !.kind = kind].kind = kind /\ [Blank EXCEPT !.kind = kind].for = NoDevice
  BY NewTaskTyped DEF TaskTyped, Blank

\* The task of a touch command whose row was just loaded.
Touching(d, kind, seen) == [Blank EXCEPT !.at = "picked", !.for = d, !.kind = kind, !.seen = seen]

LEMMA TouchingFields ==
    ASSUME NEW d, NEW kind, NEW seen
    PROVE  /\ Touching(d, kind, seen).at = "picked" /\ Touching(d, kind, seen).kind = kind
           /\ Touching(d, kind, seen).for = d /\ Touching(d, kind, seen).dev = NoDevice
           /\ Touching(d, kind, seen).seen = seen /\ ~Touching(d, kind, seen).ok
  BY DEF Touching, Blank

LEMMA TouchFields ==
    ASSUME Typed, NEW c \in Jobs, NEW d \in Devices, NEW kind \in Kinds,
           job' = [job EXCEPT ![c] = Touching(d, kind, online[d])]
    PROVE  /\ \A b \in Jobs \ {c} : Same(b)
           /\ job'[c].at = "picked" /\ job'[c].kind = kind /\ job'[c].for = d
           /\ job'[c].dev = NoDevice /\ job'[c].seen = online[d] /\ ~job'[c].ok
  <1>1. job'[c] = Touching(d, kind, online[d]) /\ \A b \in Jobs \ {c} : job'[b] = job[b]
    BY DEF Typed, JobsTyped
  <1> QED BY <1>1, TouchingFields DEF Same

-----------------------------------------------------------------------------
(* What a step does to a task that has its device.                         *)

\* Task c goes on with its device.
Onward(c) ==
    /\ \A b \in Jobs \ {c} : Same(b)
    /\ job[c].at \notin Over \cup {"picked"} /\ job'[c].at \notin Over \cup {"picked"}
    /\ job'[c].for = job[c].for /\ job'[c].dev = job[c].dev /\ job'[c].kind = job[c].kind
    /\ alone' = alone

\* Task c is over.
Finished(c) ==
    /\ \A b \in Jobs \ {c} : Same(b)
    /\ job'[c].at \in Over /\ job'[c].for = NoDevice
    /\ alone' = alone \ {c}

LEMMA GoesOnward ==
    ASSUME Typed, NEW c \in Jobs, NEW task \in Tasks,
           NEW at \in {"calling", "backoff", "flashing", "commit", "push"}, Goes(c, task, at),
           task.for = job[c].for, task.dev = job[c].dev, task.kind = job[c].kind,
           job[c].at \notin Over \cup {"picked"}, alone' = alone
    PROVE  /\ Onward(c) /\ job'[c].at = at
           /\ job'[c].seen = task.seen /\ job'[c].ok = task.ok /\ job'[c].was = task.was
  <1>1. at \in Places /\ at \notin Over \cup {"picked"}
    BY DEF Places, Over
  <1> QED BY <1>1, GoesFields DEF Onward

LEMMA ExecutedFields ==
    ASSUME Typed, NEW c \in Jobs, Executed(c)
    PROVE  /\ Onward(c) /\ job'[c].seen = job[c].seen
           /\ \/ job'[c].at = "commit" /\ job'[c].ok = TRUE /\ lamp' = Switched(c)
              \/ job'[c].at \in {"backoff", "commit"} /\ job'[c].ok = job[c].ok
  <1>1. job[c] \in Tasks /\ job[c].at \notin Over \cup {"picked"} /\ alone' = alone
    BY TaskIsIn DEF Executed, Over
  <1>2. 0 \in 0 .. 3
    OBVIOUS
  <1>3. CASE lamp' = Switched(c) /\ Goes(c, [job[c] EXCEPT !.ok = TRUE, !.tries = 0], "commit")
    <2> DEFINE task == [job[c] EXCEPT !.ok = TRUE, !.tries = 0]
    <2>1. task \in Tasks
      BY <1>1, <1>2 DEF Tasks
    <2>2. /\ task.for = job[c].for /\ task.dev = job[c].dev /\ task.kind = job[c].kind
          /\ task.seen = job[c].seen /\ task.ok = TRUE
      BY <1>1 DEF Tasks
    <2>3. Goes(c, task, "commit")
      BY <1>3
    <2> HIDE DEF task
    <2> QED BY <1>1, <1>3, <2>1, <2>2, <2>3, GoesOnward
  <1>4. CASE Goes(c, job[c], "backoff")
    BY <1>1, <1>4, GoesOnward
  <1>5. CASE Goes(c, [job[c] EXCEPT !.tries = 0], "commit")
    <2> DEFINE task == [job[c] EXCEPT !.tries = 0]
    <2>1. task \in Tasks
      BY <1>1, <1>2 DEF Tasks
    <2>2. /\ task.for = job[c].for /\ task.dev = job[c].dev /\ task.kind = job[c].kind
          /\ task.seen = job[c].seen /\ task.ok = job[c].ok
      BY <1>1 DEF Tasks
    <2>3. Goes(c, task, "commit")
      BY <1>5
    <2> HIDE DEF task
    <2> QED BY <1>1, <2>1, <2>2, <2>3, GoesOnward
  <1> QED BY <1>3, <1>4, <1>5 DEF Executed

LEMMA BackoffFields ==
    ASSUME Typed, NEW c \in Jobs, BackoffEnds(c)
    PROVE  /\ Onward(c) /\ job'[c].at = "calling"
           /\ job'[c].seen = job[c].seen /\ job'[c].ok = job[c].ok
  <1>1. /\ job[c] \in Tasks /\ job[c].at \notin Over \cup {"picked"} /\ alone' = alone
        /\ job[c].tries < Attempts
    BY TaskIsIn DEF BackoffEnds, Over, TaskTyped
  <1>2. job[c].tries + 1 \in 0 .. Attempts
    BY <1>1, DeviceConstants DEF Tasks
  <1> DEFINE task == [job[c] EXCEPT !.tries = @ + 1]
  <1>3. task \in Tasks
    BY <1>1, <1>2 DEF Tasks
  <1>4. /\ task.for = job[c].for /\ task.dev = job[c].dev /\ task.kind = job[c].kind
        /\ task.seen = job[c].seen /\ task.ok = job[c].ok
    BY <1>1 DEF Tasks
  <1>5. Goes(c, task, "calling")
    BY DEF BackoffEnds
  <1> HIDE DEF task
  <1> QED BY <1>1, <1>3, <1>4, <1>5, GoesOnward

LEMMA StateReadFields ==
    ASSUME Typed, NEW c \in Jobs, StateRead(c)
    PROVE  /\ Onward(c) /\ job'[c].at = "commit" /\ job'[c].seen = job[c].seen
           /\ job'[c].ok => job'[c].was = lamp[job[c].dev]
  <1>1. job[c] \in Tasks /\ job[c].at \notin Over \cup {"picked"} /\ alone' = alone
    BY TaskIsIn DEF StateRead, Over
  <1>2. PICK ok \in BOOLEAN :
           Goes(c, [job[c] EXCEPT !.ok = ok, !.was = ok /\ lamp[job[c].dev], !.tries = 0], "commit")
    BY DEF StateRead
  <1> DEFINE was == ok /\ lamp[job[c].dev]
             task == [job[c] EXCEPT !.ok = ok, !.was = was, !.tries = 0]
  <1>3. was \in BOOLEAN /\ 0 \in 0 .. 3
    OBVIOUS
  <1>4. Goes(c, task, "commit")
    BY <1>2
  <1>5. job[c].dev \in Devices /\ lamp[job[c].dev] \in BOOLEAN
    BY <1>1, TaskIsIn DEF TaskTyped, Typed
  <1>6. ok => was = lamp[job[c].dev]
    BY <1>5
  <1> HIDE DEF was
  <1>7. task \in Tasks
    BY <1>1, <1>3 DEF Tasks
  <1>8. /\ task.for = job[c].for /\ task.dev = job[c].dev /\ task.kind = job[c].kind
        /\ task.seen = job[c].seen /\ task.ok = ok /\ task.was = was
    BY <1>1, <1>3 DEF Tasks
  <1> HIDE DEF task
  <1> QED BY <1>1, <1>4, <1>6, <1>7, <1>8, GoesOnward

LEMMA IdentifyFields ==
    ASSUME Typed, NEW c \in Jobs, IdentifyStarts(c)
    PROVE  Onward(c) /\ job'[c].at = "flashing"
  <1>1. job[c] \in Tasks /\ job[c].at \notin Over \cup {"picked"} /\ alone' = alone
    BY TaskIsIn DEF IdentifyStarts, Over
  <1> DEFINE was == lamp[job[c].dev]
             task == [job[c] EXCEPT !.was = was, !.tries = 0]
  <1>2. was \in BOOLEAN /\ 0 \in 0 .. 3
    BY <1>1, TaskIsIn DEF TaskTyped, Typed
  <1>3. Goes(c, task, "flashing")
    BY DEF IdentifyStarts
  <1> HIDE DEF was
  <1>4. task \in Tasks
    BY <1>1, <1>2 DEF Tasks
  <1>5. task.for = job[c].for /\ task.dev = job[c].dev /\ task.kind = job[c].kind
    BY <1>1 DEF Tasks
  <1> HIDE DEF task
  <1> QED BY <1>1, <1>3, <1>4, <1>5, GoesOnward

LEMMA FlashFields ==
    ASSUME Typed, NEW c \in Jobs, Flash(c)
    PROVE  \/ Onward(c) /\ job'[c].at = "flashing"
           \/ Finished(c) /\ job[c].tries = 3 /\ lamp' = Switched(c)
  <1>1. job[c] \in Tasks /\ job[c].at \notin Over \cup {"picked"}
    BY TaskIsIn DEF Flash, Over
  <1>2. CASE job[c].tries = 3 /\ Ends(c, job[c])
    BY <1>1, <1>2, EndsFields DEF Flash, Finished, Over
  <1>3. CASE job[c].tries < 3 /\ Goes(c, [job[c] EXCEPT !.tries = @ + 1], "flashing") /\ UNCHANGED alone
    <2>1. job[c].tries + 1 \in 0 .. 3
      BY <1>1, <1>3, DeviceConstants DEF Tasks
    <2> DEFINE task == [job[c] EXCEPT !.tries = @ + 1]
    <2>2. task \in Tasks
      BY <1>1, <2>1 DEF Tasks
    <2>3. task.for = job[c].for /\ task.dev = job[c].dev /\ task.kind = job[c].kind
      BY <1>1 DEF Tasks
    <2>4. Goes(c, task, "flashing")
      BY <1>3
    <2> HIDE DEF task
    <2> QED BY <1>1, <1>3, <2>2, <2>3, <2>4, GoesOnward
  <1> QED BY <1>2, <1>3 DEF Flash

\* A commit leaves the flag as the call ended.
LEMMA CommitFields ==
    ASSUME Typed, NEW c \in Jobs, Commit(c)
    PROVE  \/ Finished(c) /\ job'[c].at = "quit"
           \/ /\ \/ Finished(c)
                 \/ /\ Onward(c) /\ job'[c].at = "push" /\ job[c].ok /\ job'[c].ok
                    /\ job[c].kind \in Controls
              /\ \/ online' = online /\ job[c].seen = job[c].ok
                 \/ online' = [online EXCEPT ![job[c].dev] = job[c].ok]
  <1>1. job[c] \in Tasks /\ job[c].at \notin Over \cup {"picked"}
    BY TaskIsIn DEF Commit, Over
  <1>2. CASE Refuse(c)
    BY <1>1, <1>2, RefuseFields DEF Finished, Over
  <1>3. CASE /\ Proceed(c)
             /\ \/ online' = online /\ job[c].seen = job[c].ok
                \/ online' = [online EXCEPT ![job[c].dev] = job[c].ok]
    <2>1. CASE Ends(c, job[c])
      BY <1>1, <1>3, <2>1, EndsFields DEF Finished, Over
    <2>2. CASE /\ job[c].ok /\ job[c].kind \in Controls /\ UNCHANGED alone
               /\ Goes(c, [job[c] EXCEPT !.seen = FALSE], "push")
      <3> DEFINE task == [job[c] EXCEPT !.seen = FALSE]
      <3>1. task \in Tasks
        BY <1>1 DEF Tasks
      <3>2. task.for = job[c].for /\ task.dev = job[c].dev /\ task.kind = job[c].kind /\ task.ok = job[c].ok
        BY <1>1 DEF Tasks
      <3>3. Goes(c, task, "push")
        BY <2>2
      <3> HIDE DEF task
      <3>4. Onward(c) /\ job'[c].at = "push" /\ job'[c].ok = job[c].ok
        BY <1>1, <2>2, <3>1, <3>2, <3>3, GoesOnward
      <3> QED BY <1>3, <2>2, <3>4
    <2> QED BY <1>3, <2>1, <2>2 DEF Proceed
  <1>4. \/ Refuse(c)
        \/ Proceed(c) /\ ~Written(job[c].ok, job[c].seen) /\ online' = online
        \/ Proceed(c) /\ online' = [online EXCEPT ![job[c].dev] = job[c].ok]
    BY DEF Commit
  <1>5. ~Written(job[c].ok, job[c].seen) => job[c].seen = job[c].ok
    BY DEF Written
  <1> QED BY <1>2, <1>3, <1>4, <1>5

LEMMA PushFields ==
    ASSUME Typed, NEW c \in Jobs, Push(c)
    PROVE  Finished(c)
  BY TaskIsIn, EndsFields DEF Push, Finished, Over

LEMMA BreaksOffFields ==
    ASSUME Typed, NEW c \in Jobs, BreaksOff(c)
    PROVE  Finished(c) /\ job'[c].at = "quit"
  BY RefuseFields DEF BreaksOff, Finished, Over

-----------------------------------------------------------------------------
(* Touch commands.                                                         *)

\* TouchLandsOnItsDevice, of one task: the device it is for has been in the table, and
\* the task has none yet when it has only loaded it.
Touched(c) ==
    job[c].for # NoDevice =>
        /\ job[c].for \in Devices
        /\ place[job[c].for] # NoRoom
        /\ job[c].at = "picked" => job[c].dev = NoDevice
        /\ job[c].dev # NoDevice => job[c].dev = job[c].for \/ place[job[c].for] = Gone

LEMMA TouchInit == Init => \A c \in Jobs : Touched(c)
  BY DEF Init, Touched, Blank

\* A task that is as it was, goes on or is over stays with its device.
LEMMA TouchKept ==
    ASSUME Typed, NEW c \in Jobs, Touched(c), UNCHANGED place,
           \/ Same(c)
           \/ job'[c].for = NoDevice
           \/ /\ job'[c].for = job[c].for /\ job'[c].dev = job[c].dev
              /\ job'[c].at # "picked"
    PROVE  Touched(c)'
  BY DEF Touched, Same

LEMMA StepFields ==
    ASSUME Typed, NEW c \in Jobs,
           \/ Executed(c) \/ BackoffEnds(c) \/ StateRead(c) \/ IdentifyStarts(c) \/ Flash(c)
           \/ Commit(c) \/ Push(c) \/ BreaksOff(c)
    PROVE  (Onward(c) \/ Finished(c)) /\ UNCHANGED place
  <1>1. Onward(c) \/ Finished(c)
    BY ExecutedFields, BackoffFields, StateReadFields, IdentifyFields, FlashFields, CommitFields,
       PushFields, BreaksOffFields
  <1> QED BY <1>1 DEF Executed, BackoffEnds, StateRead, IdentifyStarts, Flash, Commit, Push,
                      BreaksOff, deviceVars

LEMMA TouchStep == Typed /\ (\A c \in Jobs : Touched(c)) /\ [Next]_vars => \A c \in Jobs : Touched(c)'
  <1> SUFFICES ASSUME Typed, \A c \in Jobs : Touched(c), [Next]_vars, NEW b \in Jobs
               PROVE  Touched(b)'
    OBVIOUS
  <1>1. ASSUME NEW c \in Jobs, Refuse(c), UNCHANGED place
        PROVE  Touched(b)'
    BY <1>1, RefuseFields, TouchKept
  <1>2. ASSUME NEW c \in Jobs, NEW kind \in Kinds, NEW d \in Devices, UNCHANGED place,
               Address(c, [Blank EXCEPT !.kind = kind], d)
        PROVE  Touched(b)'
    <2> DEFINE task == [Blank EXCEPT !.kind = kind]
    <2>1. task \in Tasks /\ task.for = NoDevice /\ Address(c, task, d)
      BY <1>2, NewTaskFields
    <2> HIDE DEF task
    <2>2. job'[c].for = NoDevice /\ \A a \in Jobs \ {c} : Same(a)
      BY <1>2, <2>1, AddressFields
    <2> QED BY <1>2, <2>2, TouchKept
  <1>3. ASSUME NEW c \in Jobs, ByVoice(c)
        PROVE  Touched(b)'
    BY <1>1, <1>2, <1>3, Resolved DEF ByVoice, deviceVars
  <1>4. ASSUME NEW c \in Jobs, ByTouch(c)
        PROVE  Touched(b)'
    <2>1. PICK d \in Devices, kind \in Kinds :
             Registered(d) /\ job' = [job EXCEPT ![c] = Touching(d, kind, online[d])]
      BY <1>4 DEF ByTouch, Touching
    <2>2. place[d] # NoRoom /\ place' = place
      BY <1>4, <2>1, DeviceConstants DEF Registered, ByTouch, deviceVars
    <2>3. CASE b = c
      <3>1. job'[c].at = "picked" /\ job'[c].for = d /\ job'[c].dev = NoDevice
        BY <2>1, TouchFields
      <3> QED BY <2>2, <2>3, <3>1 DEF Touched
    <2>4. CASE b # c
      BY <2>1, <2>2, <2>4, TouchFields, TouchKept
    <2> QED BY <2>3, <2>4
  <1>5. ASSUME NEW c \in Jobs, TouchResolves(c)
        PROVE  Touched(b)'
    <2>1. place' = place /\ job[c] \in Tasks /\ job[c].at = "picked"
      BY <1>5, TaskIsIn DEF TouchResolves, deviceVars
    <2>2. ASSUME NEW d \in TheOnly(Candidates(NameOf[job[c].for], NoRoom, NoRoom)), Address(c, job[c], d)
          PROVE  Touched(b)'
      <3>1. d \in Devices /\ Matched(NameOf[job[c].for]) = {d}
        BY <2>2, Resolved DEF Candidates
      <3>2. CASE b # c
        BY <2>1, <2>2, <3>1, <3>2, AddressFields, TouchKept
      <3>3. CASE b = c /\ job[c].for # NoDevice
        <4>1. job[c].for \in Devices /\ place[job[c].for] # NoRoom
          BY <3>3 DEF Touched
        <4>2. ASSUME place[job[c].for] # Gone PROVE d = job[c].for
          <5>1. Registered(job[c].for)
            BY <4>1, <4>2 DEF Typed, Registered
          <5>2. job[c].for \in Matched(NameOf[job[c].for])
            BY <4>1, <5>1, DeviceConstants DEF Matched
          <5> QED BY <3>1, <5>2
        <4> QED BY <2>1, <2>2, <3>1, <3>3, <4>1, <4>2, AddressFields DEF Touched
      <3>4. CASE b = c /\ job[c].for = NoDevice
        BY <2>1, <2>2, <3>1, <3>4, AddressFields DEF Touched
      <3> QED BY <3>2, <3>3, <3>4
    <2> QED BY <1>1, <1>5, <2>1, <2>2 DEF TouchResolves
  <1>6. ASSUME NEW c \in Jobs, Identify(c)
        PROVE  Touched(b)'
    BY <1>2, <1>6 DEF Identify, deviceVars, Kinds
  <1>7. ASSUME NEW c \in Jobs,
               \/ Executed(c) \/ BackoffEnds(c) \/ StateRead(c) \/ IdentifyStarts(c) \/ Flash(c)
               \/ Commit(c) \/ Push(c) \/ BreaksOff(c)
        PROVE  Touched(b)'
    BY <1>7, StepFields, TouchKept DEF Onward, Finished
  <1>8. ASSUME NEW d \in Devices, NEW room \in Rooms,
               CreateDevice(d, room) \/ MoveDevice(d, room)
        PROVE  Touched(b)'
    BY <1>8, DeviceConstants DEF CreateDevice, MoveDevice, Registered, Typed, Touched
  <1>9. ASSUME NEW d \in Devices, DeleteDevice(d)
        PROVE  Touched(b)'
    BY <1>9, DeviceConstants DEF DeleteDevice, Registered, Typed, Touched
  <1>10. CASE UNCHANGED vars
    BY <1>10 DEF vars, Touched
  <1> QED
    BY <1>3, <1>4, <1>5, <1>6, <1>7, <1>8, <1>9, <1>10 DEF Next, Step

\* A touch command, which is resolved by its device's name, lands on that device.
THEOREM TouchIsExact == Spec => []TouchLandsOnItsDevice
  <1> DEFINE Inv == \A c \in Jobs : Touched(c)
  <1>1. Init => Inv
    BY TouchInit
  <1>2. Typed /\ Inv /\ [Next]_vars => Inv'
    BY TouchStep
  <1>3. Inv => TouchLandsOnItsDevice
    BY DEF Touched, TouchLandsOnItsDevice
  <1> HIDE DEF Inv
  <1> QED BY <1>1, <1>2, <1>3, Typing, PTL DEF Spec

-----------------------------------------------------------------------------
(* Tasks that have their device to themselves.                             *)

\* The devices a task works on.
Devs(c) == {job[c].for, job[c].dev} \ {NoDevice}

\* No running task works on a device of a task that is alone.
Apart ==
    \A c \in alone :
        /\ job[c].at \notin Over
        /\ \A b \in Jobs \ {c} : job[b].at \notin Over => Devs(b) \cap Devs(c) = {}

LEMMA RunningDevs ==
    ASSUME NEW d \in Devices, NEW c \in Jobs
    PROVE  c \in Running(d) <=> d \in Devs(c) /\ job[c].at \notin Over
  BY DeviceConstants DEF Running, Devs

\* A step by which no task gets a device.
LEMMA ApartKept ==
    ASSUME Typed, Apart, alone' \in SUBSET alone, \A c \in alone' : job'[c].at \notin Over,
           \A c \in Jobs : job'[c].at \notin Over => job[c].at \notin Over /\ Devs(c)' \subseteq Devs(c)
    PROVE  Apart'
  <1> SUFFICES ASSUME NEW c \in alone', NEW b \in Jobs \ {c}, job'[b].at \notin Over
               PROVE  Devs(b)' \cap Devs(c)' = {}
    BY DEF Apart
  <1>1. c \in alone /\ c \in Jobs /\ job'[c].at \notin Over
    BY DEF Typed
  <1>2. Devs(b) \cap Devs(c) = {}
    BY <1>1 DEF Apart
  <1> QED BY <1>1, <1>2

\* A step by which task c starts to work on d.
LEMMA ApartEntered ==
    ASSUME Typed, Apart, NEW c \in Jobs, NEW d \in Devices, job[c].at = "none", Enter(c, d),
           \A b \in Jobs \ {c} : Same(b), job'[c].at \notin Over, Devs(c)' = {d}
    PROVE  Apart' /\ (c \in alone' => alone' = alone \cup {c})
                  /\ (c \notin alone' => alone' \subseteq alone)
  <1>1. c \notin alone /\ c \notin Running(d)
    BY DEF Apart, Over, Running
  <1>2. \A b \in Jobs \ {c} : job'[b].at = job[b].at /\ Devs(b)' = Devs(b)
    BY DEF Same, Devs
  <1>3. \A a \in alone' : a = c \/ (a \in alone /\ a \in Jobs /\ d \notin Devs(a))
    <2>1. \A a \in alone : a \in Running(d) <=> d \in Devs(a)
      BY RunningDevs DEF Apart, Typed
    <2> QED BY <2>1 DEF Enter, Typed
  <1>4. c \in alone' => \A b \in Jobs \ {c} : job[b].at \notin Over => d \notin Devs(b)
    BY <1>1, RunningDevs DEF Enter
  <1>5. ASSUME NEW a \in alone' PROVE job'[a].at \notin Over
    BY <1>2, <1>3, <1>5 DEF Apart
  <1>6. ASSUME NEW a \in alone', NEW b \in Jobs \ {a}, job'[b].at \notin Over
        PROVE  Devs(b)' \cap Devs(a)' = {}
    <2>1. CASE a = c
      BY <1>2, <1>4, <1>6, <2>1
    <2>2. CASE a # c /\ b = c
      BY <1>2, <1>3, <1>6, <2>2
    <2>3. CASE a # c /\ b # c
      BY <1>2, <1>3, <1>6, <2>3 DEF Apart
    <2> QED BY <2>1, <2>2, <2>3
  <1> QED BY <1>1, <1>5, <1>6 DEF Apart, Enter

\* What is true of a task that has been alone on its device so far: the flag is as it was
\* loaded, and the device is as the task's last call left or found it.
Clean(c) ==
    /\ job[c].at = "picked" => /\ job[c].for \in Devices /\ job[c].dev = NoDevice
                               /\ job[c].seen = online[job[c].for] /\ ~job[c].ok
    /\ job[c].at \in {"calling", "backoff"} => ~job[c].ok
    /\ job[c].at \in {"calling", "backoff", "commit"} /\ job[c].kind # "identify" =>
          job[c].seen = online[job[c].dev]
    /\ job[c].at \in {"backoff", "commit", "push"} => job[c].kind # "identify"
    /\ job[c].at = "flashing" => job[c].kind = "identify"
    /\ job[c].at \in {"commit", "push"} /\ job[c].ok /\ job[c].kind \in Controls =>
          lamp[job[c].dev] = (job[c].kind = "on")
    /\ job[c].at = "commit" /\ job[c].ok /\ job[c].kind = "query" => lamp[job[c].dev] = job[c].was
    /\ job[c].at = "push" => job[c].ok /\ job[c].kind \in Controls /\ online[job[c].dev]

Exact == Apart /\ \A c \in alone : Clean(c)

\* A step of another task leaves it clean.
LEMMA CleanKept ==
    ASSUME Typed, NEW c \in Jobs, Clean(c), Same(c),
           \A d \in Devs(c) : lamp'[d] = lamp[d] /\ online'[d] = online[d],
           job[c].at \notin Over
    PROVE  Clean(c)'
  <1>1. job[c].at # "picked" => job[c].dev \in Devs(c)
    BY TaskIsIn, DeviceConstants DEF TaskTyped, Devs
  <1>2. job[c].at = "picked" => job[c].for \in Devs(c)
    BY DeviceConstants DEF Clean, Devs
  <1>3. CASE job[c].at = "picked"
    BY <1>2, <1>3 DEF Clean, Same
  <1>4. CASE job[c].at # "picked"
    BY <1>1, <1>4 DEF Clean, Same
  <1> QED BY <1>3, <1>4

\* The tasks that stay alone while c works on its device.
LEMMA OthersStayClean ==
    ASSUME Typed, Exact, NEW c \in Jobs, NEW a \in alone \ {c}, Same(a), job[c].at \notin Over,
           \A d \in Devices : d # job[c].dev => lamp'[d] = lamp[d] /\ online'[d] = online[d]
    PROVE  Clean(a)'
  <1>1. a \in Jobs /\ job[a].at \notin Over /\ Devs(c) \cap Devs(a) = {} /\ Clean(a)
    BY DEF Exact, Apart, Typed
  <1>2. Devs(a) \subseteq Devices
    BY <1>1, TaskIsIn DEF Devs, Tasks
  <1>3. job[c].dev \notin Devs(a)
    BY <1>1, <1>2, DeviceConstants DEF Devs
  <1> QED BY <1>1, <1>2, <1>3, CleanKept

\* A task that starts to work on a device.
LEMMA ExactEntered ==
    ASSUME Typed, Exact, NEW c \in Jobs, NEW d \in Devices, job[c].at = "none", Enter(c, d),
           \A b \in Jobs \ {c} : Same(b), job'[c].at \notin Over, Devs(c)' = {d}, Clean(c)',
           UNCHANGED <<lamp, online>>
    PROVE  Exact'
  <1>1. Apart' /\ alone' \subseteq alone \cup {c}
    BY ApartEntered DEF Exact
  <1>2. ASSUME NEW a \in alone \ {c} PROVE Clean(a)'
    BY <1>2, CleanKept DEF Exact, Apart, Typed
  <1> QED BY <1>1, <1>2 DEF Exact

\* A task that is refused, or over.
LEMMA ExactWithout ==
    ASSUME Typed, Exact, NEW c \in Jobs, \A b \in Jobs \ {c} : Same(b), job'[c].at \in Over,
           alone' = alone \ {c},
           \/ UNCHANGED <<lamp, online>>
           \/ /\ job[c].at \notin Over
              /\ \A d \in Devices : d # job[c].dev => lamp'[d] = lamp[d] /\ online'[d] = online[d]
    PROVE  Exact'
  <1>1. Apart'
    <2>1. \A a \in alone' : job'[a].at \notin Over
      BY DEF Same, Exact, Apart, Typed
    <2>2. \A b \in Jobs : job'[b].at \notin Over => job[b].at \notin Over /\ Devs(b)' \subseteq Devs(b)
      BY DEF Same, Devs
    <2> QED BY <2>1, <2>2, ApartKept DEF Exact
  <1>2. ASSUME NEW a \in alone \ {c} PROVE Clean(a)'
    <2>1. a \in Jobs /\ Same(a) /\ Clean(a) /\ job[a].at \notin Over
      BY DEF Exact, Apart, Typed
    <2>2. CASE UNCHANGED <<lamp, online>>
      BY <2>1, <2>2, CleanKept
    <2>3. CASE /\ job[c].at \notin Over
               /\ \A d \in Devices : d # job[c].dev => lamp'[d] = lamp[d] /\ online'[d] = online[d]
      BY <2>1, <2>3, OthersStayClean
    <2> QED BY <2>2, <2>3
  <1> QED BY <1>1, <1>2 DEF Exact

\* A task that goes on.
LEMMA ExactOnward ==
    ASSUME Typed, Exact, NEW c \in Jobs, Onward(c), Clean(c) => Clean(c)',
           \A d \in Devices : d # job[c].dev => lamp'[d] = lamp[d] /\ online'[d] = online[d]
    PROVE  Exact'
  <1>1. Apart'
    <2>1. \A a \in alone' : job'[a].at \notin Over
      BY DEF Same, Exact, Apart, Typed, Onward
    <2>2. \A b \in Jobs : job'[b].at \notin Over => job[b].at \notin Over /\ Devs(b)' \subseteq Devs(b)
      BY DEF Same, Devs, Onward
    <2> QED BY <2>1, <2>2, ApartKept DEF Exact, Onward
  <1>2. ASSUME NEW a \in alone \ {c} PROVE Clean(a)'
    BY <1>2, OthersStayClean DEF Onward, Typed
  <1> QED BY <1>1, <1>2 DEF Exact, Onward

\* A new task is clean.
LEMMA NewIsClean ==
    ASSUME Typed, NEW c \in Jobs, NEW kind \in Kinds, NEW d \in Devices,
           Address(c, [Blank EXCEPT !.kind = kind], d), UNCHANGED <<lamp, online>>
    PROVE  /\ \A b \in Jobs \ {c} : Same(b)
           /\ job'[c].at \notin Over /\ Devs(c)' = {d} /\ Clean(c)'
  <1> DEFINE task == [Blank EXCEPT !.kind = kind]
  <1>1. task \in Tasks /\ task.for = NoDevice /\ ~task.ok /\ Address(c, task, d)
    BY NewTaskFields DEF Blank
  <1> HIDE DEF task
  <1>2. d # NoDevice
    BY DeviceConstants
  <1>3. /\ \A b \in Jobs \ {c} : Same(b)
        /\ job'[c].at = "calling" /\ job'[c].for = NoDevice /\ job'[c].dev = d
        /\ job'[c].seen = online[d] /\ job'[c].ok = task.ok
    BY <1>1, <1>2, AddressFields
  <1> QED BY <1>1, <1>2, <1>3 DEF Devs, Clean, Over

LEMMA ExactInit == Init => Exact
  BY DEF Init, Exact, Apart

LEMMA ExactStep == Typed /\ Exact /\ [Next]_vars => Exact'
  <1> SUFFICES ASSUME Typed, Exact, [Next]_vars PROVE Exact'
    OBVIOUS
  <1>1. ASSUME NEW c \in Jobs, Refuse(c), UNCHANGED <<lamp, online>>
        PROVE  Exact'
    BY <1>1, RefuseFields, ExactWithout DEF Over
  <1>2. ASSUME NEW c \in Jobs, NEW kind \in Kinds, NEW d \in Devices, job[c].at = "none",
               Address(c, [Blank EXCEPT !.kind = kind], d), Enter(c, d), UNCHANGED <<lamp, online>>
        PROVE  Exact'
    BY <1>2, NewIsClean, ExactEntered
  <1>3. ASSUME NEW c \in Jobs, ByVoice(c)
        PROVE  Exact'
    BY <1>1, <1>2, <1>3, Resolved DEF ByVoice, deviceVars
  <1>4. ASSUME NEW c \in Jobs, ByTouch(c)
        PROVE  Exact'
    <2>1. PICK d \in Devices, kind \in Kinds :
             job' = [job EXCEPT ![c] = Touching(d, kind, online[d])] /\ Enter(c, d)
      BY <1>4 DEF ByTouch, Touching
    <2>2. UNCHANGED <<lamp, online>> /\ job[c].at = "none" /\ d # NoDevice
      BY <1>4, DeviceConstants DEF ByTouch, deviceVars
    <2>3. /\ \A b \in Jobs \ {c} : Same(b)
          /\ job'[c].at = "picked" /\ job'[c].for = d
          /\ job'[c].dev = NoDevice /\ job'[c].seen = online[d] /\ ~job'[c].ok
      BY <2>1, TouchFields
    <2>4. job'[c].at \notin Over /\ Devs(c)' = {d} /\ Clean(c)'
      BY <2>2, <2>3 DEF Devs, Clean, Over
    <2> QED BY <2>1, <2>2, <2>3, <2>4, ExactEntered
  <1>5. ASSUME NEW c \in Jobs, TouchResolves(c)
        PROVE  Exact'
    <2>1. UNCHANGED <<lamp, online>> /\ job[c].at = "picked" /\ job[c] \in Tasks
      BY <1>5, TaskIsIn DEF TouchResolves, deviceVars
    <2>2. ASSUME NEW d \in Devices, Address(c, job[c], d), d = job[c].for, alone' = alone
          PROVE  Exact'
      <3>1. /\ \A b \in Jobs \ {c} : Same(b)
            /\ job'[c].at = "calling" /\ job'[c].for = d /\ job'[c].dev = d
            /\ job'[c].seen = job[c].seen /\ job'[c].ok = job[c].ok
        BY <2>1, <2>2, AddressFields
      <3>2. \A a \in alone' : job'[a].at \notin Over
        BY <2>2, <3>1 DEF Same, Exact, Apart, Typed, Over
      <3>3. \A b \in Jobs : job'[b].at \notin Over => job[b].at \notin Over /\ Devs(b)' \subseteq Devs(b)
        BY <2>1, <2>2, <3>1 DEF Same, Devs, Over
      <3>4. Apart'
        BY <2>2, <3>2, <3>3, ApartKept DEF Exact
      <3>5. Clean(c) => Clean(c)'
        BY <2>1, <2>2, <3>1 DEF Clean
      <3>6. ASSUME NEW a \in alone \ {c} PROVE Clean(a)'
        BY <2>1, <3>1, <3>6, CleanKept DEF Exact, Apart, Typed
      <3> QED BY <2>2, <3>4, <3>5, <3>6 DEF Exact
    <2>3. ASSUME NEW d \in Devices, Address(c, job[c], d), d # job[c].for,
                 alone' = alone \ ({c} \cup Running(d))
          PROVE  Exact'
      <3>1. /\ \A b \in Jobs \ {c} : Same(b)
            /\ job'[c].for = job[c].for /\ job'[c].dev = d
        BY <2>1, <2>3, AddressFields
      <3>2. ASSUME NEW a \in alone'
            PROVE  /\ a \in alone \ {c} /\ a \in Jobs /\ Same(a) /\ Clean(a)
                   /\ job[a].at \notin Over /\ d \notin Devs(a) /\ Devs(a)' = Devs(a)
        BY <2>3, <3>1, <3>2, RunningDevs DEF Exact, Apart, Typed, Same, Devs
      <3>3. ASSUME NEW a \in alone', NEW b \in Jobs \ {a}, job'[b].at \notin Over
            PROVE  Devs(b)' \cap Devs(a)' = {}
        <4>1. CASE b = c
          <5>1. Devs(b)' \subseteq Devs(b) \cup {d} /\ job[b].at \notin Over
            BY <2>1, <3>1, <4>1 DEF Devs, Over
          <5>2. Devs(b) \cap Devs(a) = {}
            BY <3>2, <3>3, <5>1 DEF Exact, Apart
          <5> QED BY <3>2, <3>3, <5>1, <5>2
        <4>2. CASE b # c
          <5>1. Devs(b)' = Devs(b) /\ job[b].at \notin Over
            BY <3>1, <3>3, <4>2 DEF Same, Devs
          <5> QED BY <3>2, <3>3, <5>1 DEF Exact, Apart
        <4> QED BY <4>1, <4>2
      <3>4. Apart'
        BY <3>2, <3>3 DEF Apart, Same
      <3>5. ASSUME NEW a \in alone' PROVE Clean(a)'
        BY <2>1, <3>2, <3>5, CleanKept
      <3> QED BY <3>4, <3>5 DEF Exact
    <2> QED BY <1>1, <1>5, <2>1, <2>2, <2>3, Resolved DEF TouchResolves
  <1>6. ASSUME NEW c \in Jobs, Identify(c)
        PROVE  Exact'
    BY <1>2, <1>6 DEF Identify, deviceVars, Kinds
  <1>7. ASSUME NEW c \in Jobs, Executed(c)
        PROVE  Exact'
    <2>1. /\ Onward(c) /\ job'[c].seen = job[c].seen /\ job[c].at = "calling"
          /\ job[c].kind \in Controls /\ online' = online /\ job'[c].kind = job[c].kind
          /\ job'[c].dev = job[c].dev
      BY <1>7, ExecutedFields DEF Executed, Onward
    <2>2. /\ job[c].dev \in Devices /\ lamp = [d \in Devices |-> lamp[d]]
          /\ lamp' = lamp \/ lamp' = Switched(c)
      BY <1>7, <2>1, TaskIsIn DEF Executed, TaskTyped, Onward, Typed
    <2>3. \A d \in Devices : d # job[c].dev => lamp'[d] = lamp[d]
      BY <2>2 DEF Switched
    <2>4. Clean(c) => Clean(c)'
      <3>1. CASE job'[c].at = "commit" /\ job'[c].ok = TRUE /\ lamp' = Switched(c)
        <4>1. lamp'[job[c].dev] = (job[c].kind = "on")
          BY <2>1, <2>2, <3>1 DEF Switched, Asked, Controls
        <4> QED BY <2>1, <3>1, <4>1 DEF Clean, Controls
      <3>2. CASE job'[c].at \in {"backoff", "commit"} /\ job'[c].ok = job[c].ok
        BY <2>1, <3>2 DEF Clean, Controls
      <3> QED BY <1>7, <3>1, <3>2, ExecutedFields
    <2> QED BY <2>1, <2>3, <2>4, ExactOnward
  <1>8. ASSUME NEW c \in Jobs, BackoffEnds(c)
        PROVE  Exact'
    <2>1. /\ Onward(c) /\ job'[c].at = "calling" /\ job[c].at = "backoff"
          /\ job'[c].seen = job[c].seen /\ job'[c].ok = job[c].ok
          /\ UNCHANGED <<lamp, online>>
      BY <1>8, BackoffFields DEF BackoffEnds, deviceVars
    <2>2. Clean(c) => Clean(c)'
      BY <2>1 DEF Clean, Onward
    <2> QED BY <2>1, <2>2, ExactOnward
  <1>9. ASSUME NEW c \in Jobs, StateRead(c)
        PROVE  Exact'
    <2>1. /\ Onward(c) /\ job'[c].at = "commit" /\ job[c].at = "calling" /\ job[c].kind = "query"
          /\ job'[c].seen = job[c].seen
          /\ job'[c].ok => job'[c].was = lamp[job[c].dev]
          /\ UNCHANGED <<lamp, online>>
      BY <1>9, StateReadFields DEF StateRead, deviceVars
    <2>2. Clean(c) => Clean(c)'
      BY <2>1 DEF Clean, Onward, Controls
    <2> QED BY <2>1, <2>2, ExactOnward
  <1>10. ASSUME NEW c \in Jobs, IdentifyStarts(c)
         PROVE  Exact'
    <2>1. /\ Onward(c) /\ job'[c].at = "flashing" /\ job[c].kind = "identify"
          /\ UNCHANGED <<lamp, online>>
      BY <1>10, IdentifyFields DEF IdentifyStarts, deviceVars
    <2>2. Clean(c) => Clean(c)'
      BY <2>1 DEF Clean, Onward
    <2> QED BY <2>1, <2>2, ExactOnward
  <1>11. ASSUME NEW c \in Jobs, Flash(c)
         PROVE  Exact'
    <2>1. job[c].at = "flashing" /\ online' = online /\ job[c].at \notin Over
      BY <1>11 DEF Flash, Over
    <2>2. \A d \in Devices : d # job[c].dev => lamp'[d] = lamp[d]
      BY <1>11 DEF Flash, Switched, Typed
    <2>3. CASE Onward(c) /\ job'[c].at = "flashing"
      <3>1. Clean(c) => Clean(c)'
        BY <2>1, <2>3 DEF Clean, Onward
      <3> QED BY <2>1, <2>2, <2>3, <3>1, ExactOnward
    <2>4. CASE Finished(c)
      BY <2>1, <2>2, <2>4, ExactWithout DEF Finished
    <2> QED BY <1>11, <2>3, <2>4, FlashFields
  <1>12. ASSUME NEW c \in Jobs, Commit(c)
         PROVE  Exact'
    <2>1. /\ lamp' = lamp /\ job[c].at = "commit" /\ job[c].at \notin Over
          /\ job[c].dev \in Devices
      BY <1>12, TaskIsIn DEF Commit, Over, TaskTyped
    <2>2. \A d \in Devices : d # job[c].dev => online'[d] = online[d]
      BY <1>12 DEF Commit, Typed
    <2>3. CASE Finished(c)
      BY <2>1, <2>2, <2>3, ExactWithout DEF Finished
    <2>4. CASE /\ Onward(c) /\ job'[c].at = "push" /\ job[c].ok /\ job'[c].ok
               /\ job[c].kind \in Controls
               /\ \/ online' = online /\ job[c].seen = job[c].ok
                  \/ online' = [online EXCEPT ![job[c].dev] = job[c].ok]
      <3>1. Clean(c) => online'[job[c].dev]
        BY <2>1, <2>4 DEF Clean, Controls, Typed
      <3>2. Clean(c) => Clean(c)'
        BY <2>1, <2>4, <3>1 DEF Clean, Onward, Controls
      <3> QED BY <2>1, <2>2, <2>4, <3>2, ExactOnward
    <2> QED BY <1>12, <2>3, <2>4, CommitFields
  <1>13. ASSUME NEW c \in Jobs, Push(c)
         PROVE  Exact'
    BY <1>13, PushFields, ExactWithout DEF Push, Finished, deviceVars
  <1>14. ASSUME NEW c \in Jobs, BreaksOff(c)
         PROVE  Exact'
    <2>1. /\ job[c].at \notin Over /\ online' = online
          /\ lamp' = lamp \/ lamp' = Switched(c)
      BY <1>14 DEF BreaksOff
    <2>2. \A d \in Devices : d # job[c].dev => lamp'[d] = lamp[d]
      BY <2>1 DEF Switched, Typed
    <2> QED BY <1>14, <2>1, <2>2, BreaksOffFields, ExactWithout DEF Finished
  <1>15. ASSUME UNCHANGED <<online, lamp, job>>, alone' \in SUBSET alone
         PROVE  Exact'
    BY <1>15 DEF Exact, Apart, Devs, Clean, Typed
  <1>16. ASSUME NEW d \in Devices, NEW room \in Rooms,
                CreateDevice(d, room) \/ MoveDevice(d, room)
         PROVE  Exact'
    BY <1>15, <1>16 DEF CreateDevice, MoveDevice
  <1>17. ASSUME NEW d \in Devices, DeleteDevice(d)
         PROVE  Exact'
    BY <1>15, <1>17 DEF DeleteDevice
  <1>18. CASE UNCHANGED vars
    BY <1>15, <1>18 DEF vars
  <1> QED
    BY <1>3, <1>4, <1>5, <1>6, <1>7, <1>8, <1>9, <1>10, <1>11, <1>12, <1>13, <1>14, <1>16, <1>17,
       <1>18 DEF Next, Step

\* UndisturbedIsExact, of the step that ends a task.
EndsExact(c) ==
    LET d == job[c].dev
        kind == job[c].kind IN
    /\ kind # "identify" => online'[d] = job[c].ok
    /\ kind \in Controls /\ job[c].ok => lamp'[d] = Asked(c)
    /\ kind = "identify" \/ (kind = "query" /\ job[c].ok) => lamp'[d] = job[c].was

LEMMA EndStep ==
    ASSUME Typed, Exact, Next, NEW c \in alone, job[c].at # "done", job'[c].at = "done"
    PROVE  EndsExact(c)
  <1>1. c \in Jobs /\ job[c].at \notin Over /\ Clean(c) /\ ~Same(c) /\ job[c] \in Tasks
    BY TaskIsIn DEF Exact, Apart, Typed, Same
  <1>2. ASSUME NEW b \in Jobs, Refuse(b) PROVE FALSE
    BY <1>1, <1>2, RefuseFields
  <1>3. ASSUME NEW b \in Jobs, NEW task \in Tasks, NEW d \in Devices, Address(b, task, d) PROVE FALSE
    BY <1>1, <1>3, AddressFields
  <1>4. ASSUME NEW b \in Jobs, ByVoice(b) \/ Identify(b) \/ ByTouch(b) PROVE FALSE
    <2>1. ASSUME NEW kind \in Kinds, NEW d \in Devices, Address(b, [Blank EXCEPT !.kind = kind], d)
          PROVE  FALSE
      BY <1>3, <2>1, NewTaskFields
    <2>2. CASE ByVoice(b)
      BY <1>2, <2>1, <2>2, Resolved DEF ByVoice
    <2>3. CASE Identify(b)
      BY <2>1, <2>3 DEF Identify, Kinds
    <2>4. CASE ByTouch(b)
      <3>1. PICK d \in Devices, kind \in Kinds : job' = [job EXCEPT ![b] = Touching(d, kind, online[d])]
        BY <2>4 DEF ByTouch, Touching
      <3> QED BY <1>1, <3>1, TouchFields
    <2> QED BY <1>4, <2>2, <2>3, <2>4
  <1>5. ASSUME NEW b \in Jobs, TouchResolves(b) PROVE FALSE
    BY <1>2, <1>3, <1>5, TaskIsIn, Resolved DEF TouchResolves
  <1>6. ASSUME NEW b \in Jobs, Executed(b) \/ BackoffEnds(b) \/ StateRead(b) \/ IdentifyStarts(b)
        PROVE  FALSE
    BY <1>1, <1>6, ExecutedFields, BackoffFields, StateReadFields, IdentifyFields DEF Onward, Over
  <1>7. ASSUME NEW b \in Jobs, BreaksOff(b) PROVE FALSE
    BY <1>1, <1>7, BreaksOffFields DEF Finished
  <1>8. ASSUME NEW b \in Jobs, b # c, Flash(b) \/ Commit(b) \/ Push(b) PROVE FALSE
    BY <1>1, <1>8, StepFields DEF Onward, Finished
  <1>9. CASE Flash(c)
    <2>1. job[c].tries = 3 /\ lamp' = Switched(c) /\ job[c].kind = "identify"
      BY <1>1, <1>9, FlashFields DEF Flash, Clean
    <2>2. job[c].dev \in Devices /\ job[c].was \in BOOLEAN
      BY <1>1, <1>9, TaskIsIn DEF Flash, TaskTyped, Over, Tasks
    <2>3. lamp'[job[c].dev] = Asked(c)
      BY <2>1, <2>2 DEF Switched, Typed
    <2>4. Asked(c) = job[c].was
      BY <2>1, <2>2 DEF Asked
    <2> QED BY <2>1, <2>3, <2>4 DEF EndsExact, Controls
  <1>10. CASE Commit(c)
    <2>1. job[c].dev \in Devices /\ job[c].at = "commit" /\ job[c].kind # "identify" /\ lamp' = lamp
      BY <1>1, <1>10, TaskIsIn DEF Commit, TaskTyped, Over, Clean
    <2>2. \/ online' = online /\ job[c].seen = job[c].ok
          \/ online' = [online EXCEPT ![job[c].dev] = job[c].ok]
      BY <1>1, <1>10, CommitFields
    <2>3. online'[job[c].dev] = job[c].ok
      BY <1>1, <2>1, <2>2 DEF Clean, Typed
    <2>4. job[c].kind \in Controls /\ job[c].ok => lamp[job[c].dev] = Asked(c)
      BY <1>1, <2>1 DEF Clean, Asked, Controls
    <2>5. job[c].kind = "query" /\ job[c].ok => lamp[job[c].dev] = job[c].was
      BY <1>1, <2>1 DEF Clean
    <2> QED BY <2>1, <2>3, <2>4, <2>5 DEF EndsExact
  <1>11. CASE Push(c)
    <2>1. job[c].at = "push" /\ job[c].ok /\ job[c].kind \in Controls /\ UNCHANGED <<lamp, online>>
      BY <1>1, <1>11 DEF Push, Clean, deviceVars
    <2>2. online[job[c].dev] = job[c].ok
      BY <1>1, <2>1, TaskIsIn DEF Clean, Typed, TaskTyped, Over, Tasks
    <2>3. lamp[job[c].dev] = Asked(c)
      BY <1>1, <2>1 DEF Clean, Asked, Controls
    <2> QED BY <2>1, <2>2, <2>3 DEF EndsExact, Controls
  <1>12. ASSUME NEW d \in Devices, NEW room \in Rooms,
                CreateDevice(d, room) \/ MoveDevice(d, room)
         PROVE  FALSE
    BY <1>12 DEF CreateDevice, MoveDevice
  <1>13. ASSUME NEW d \in Devices, DeleteDevice(d) PROVE FALSE
    BY <1>13 DEF DeleteDevice
  <1> QED
    BY <1>4, <1>5, <1>6, <1>7, <1>8, <1>9, <1>10, <1>11, <1>12, <1>13 DEF Next, Step

LEMMA Exactness == Spec => []Exact
  BY ExactInit, ExactStep, Typing, PTL DEF Spec

\* A task that had its device to itself leaves flag, device and answer in agreement.
THEOREM UndisturbedTasksAreExact == Spec => UndisturbedIsExact
  <1>1. Typed /\ Exact /\ [Next]_vars =>
          [\A c \in alone : (job[c].at # "done" /\ job'[c].at = "done") => EndsExact(c)]_vars
    BY EndStep
  <1> QED BY <1>1, Typing, Exactness, PTL DEF Spec, UndisturbedIsExact, EndsExact
=============================================================================
