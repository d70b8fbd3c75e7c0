------------------------- MODULE TimerService_proofs -------------------------
(***************************************************************************)
(* What holds of TimerService for any timers, any clock and any number of  *)
(* restarts: its type invariant, that no timer is lost silently, that a    *)
(* cancelled one stays silent and that a one-shot rings at most once or,   *)
(* on a host whose zone is ahead of UTC, once more for each restart.       *)
(***************************************************************************)
EXTENDS TimerService, TLAPS

-----------------------------------------------------------------------------
(* Types.                                                                  *)

LEMMA ScheduleType ==
    ASSUME TypeOK, NEW id \in Timers, Schedule(id)
    PROVE  /\ jobs' \in [Timers -> {"none", "date", "cron"}]
           /\ spoiled' \in SUBSET Timers
  <1>1. CASE recurrence[id] = "badcron"
    BY <1>1 DEF Schedule, TypeOK
  <1>2. CASE recurrence[id] # "badcron"
    BY <1>2 DEF Schedule, TypeOK, JobFor
  <1> QED BY <1>1, <1>2

LEMMA TypeInit == Init => TypeOK
  BY TimerConstants DEF Init, TypeOK, Kinds, Times

\* The type invariant is inductive: one step per action.
LEMMA TypeStep == TypeOK /\ [Next]_vars => TypeOK'
  <1> SUFFICES ASSUME TypeOK, [Next]_vars PROVE TypeOK'
    OBVIOUS
  <1>1. ASSUME NEW id \in Timers, CreateCommit(id) PROVE TypeOK'
    <2>1. Recurrences[id] \subseteq Kinds /\ FireTimes \subseteq Nat
      BY TimerConstants DEF FireTimes, Times
    <2>2. recurrence' \in [Timers -> Kinds] /\ firesAt' \in [Timers -> Nat]
      BY <1>1, <2>1 DEF CreateCommit, TypeOK
    <2> QED BY <1>1, <2>2 DEF CreateCommit, TypeOK, ghostVars
  <1>2. ASSUME NEW id \in Timers, CreateSchedule(id) PROVE TypeOK'
    <2>1. CASE Stored(id)
      BY <1>2, <2>1, ScheduleType DEF CreateSchedule, TypeOK, tableVars
    <2>2. CASE ~Stored(id)
      BY <1>2, <2>2 DEF CreateSchedule, TypeOK, tableVars
    <2> QED BY <2>1, <2>2
  <1>3. ASSUME NEW id \in Timers, CreateCut(id) PROVE TypeOK'
    BY <1>3 DEF CreateCut, TypeOK, tableVars
  <1>4. ASSUME NEW id \in Timers, CancelUnschedule(id) PROVE TypeOK'
    BY <1>4 DEF CancelUnschedule, Unschedule, TypeOK, tableVars, ghostVars
  <1>5. ASSUME NEW id \in Timers, CancelDelete(id) PROVE TypeOK'
    BY <1>5 DEF CancelDelete, TypeOK, ghostVars
  <1>6. ASSUME NEW id \in Timers, CancelCut(id) PROVE TypeOK'
    BY <1>6 DEF CancelCut, TypeOK, tableVars
  <1>7. ASSUME NEW id \in Timers, FireStart(id) PROVE TypeOK'
    BY <1>7 DEF FireStart, TypeOK, tableVars, ghostVars
  <1>8. ASSUME NEW id \in Timers, Misfire(id) PROVE TypeOK'
    BY <1>8 DEF Misfire, TypeOK, tableVars, taskVars
  <1>9. ASSUME NEW id \in Timers, FireLoad(id) PROVE TypeOK'
    BY <1>9 DEF FireLoad, TypeOK, tableVars, ghostVars
  <1>10. ASSUME NEW id \in Timers, FireSend(id) PROVE TypeOK'
    BY <1>10 DEF FireSend, TypeOK, tableVars
  <1>11. ASSUME NEW id \in Timers, FireDelete(id) PROVE TypeOK'
    BY <1>11 DEF FireDelete, TypeOK, ghostVars
  <1>12. ASSUME NEW id \in Timers, FireFails(id) PROVE TypeOK'
    BY <1>12 DEF FireFails, TypeOK, tableVars
  <1>13. CASE Crash
    <2>1. crashes' \in 0 .. MaxCrashes
      BY <1>13, TimerConstants DEF Crash, TypeOK
    <2> QED BY <1>13, <2>1 DEF Crash, TypeOK, tableVars, ghostVars
  <1>14. CASE Boot
    BY <1>14 DEF Boot, TypeOK, tableVars, taskVars, Table
  <1>15. ASSUME NEW id \in Timers, RestoreNext(id) PROVE TypeOK'
    <2>1. CASE Past(id)
      BY <1>15, <2>1 DEF RestoreNext, TypeOK, taskVars
    <2>2. CASE ~Past(id) /\ recurrence[id] = "badcron"
      BY <1>15, <2>2 DEF RestoreNext, TypeOK, taskVars
    <2>3. CASE ~Past(id) /\ recurrence[id] # "badcron"
      BY <1>15, <2>3, ScheduleType DEF RestoreNext, TypeOK, taskVars
    <2> QED BY <2>1, <2>2, <2>3
  <1>16. CASE BootDone
    BY <1>16 DEF BootDone, TypeOK, tableVars, taskVars, ghostVars
  <1>17. CASE HubConnects
    BY <1>17 DEF HubConnects, TypeOK, tableVars, taskVars, ghostVars
  <1>18. CASE Tick
    BY <1>18, TimerConstants DEF Tick, TypeOK, tableVars, taskVars, ghostVars, Times
  <1>19. CASE UNCHANGED vars
    BY <1>19 DEF vars, TypeOK, tableVars, taskVars, ghostVars
  <1> QED
    BY <1>1, <1>2, <1>3, <1>4, <1>5, <1>6, <1>7, <1>8, <1>9, <1>10, <1>11, <1>12, <1>13,
       <1>14, <1>15, <1>16, <1>17, <1>18, <1>19 DEF Next, Work, Requests

\* Type correctness of the table, the job store and the tasks.
THEOREM TypeCorrect == Spec => []TypeOK
  BY TypeInit, TypeStep, PTL DEF Spec

-----------------------------------------------------------------------------
(* What every step keeps, id by id, about a timer's row, job and tasks.    *)

\* A create is only under way in a server that is up, a restore in one that is booting.
Lifetimes ==
    /\ server # "up" => creating = {}
    /\ server = "down" => restore = {}
    /\ server = "up" => restore = {}

\* An id the database has not handed out yet has left no trace.
UnbornIsBlank(id) ==
    rows[id] = "unborn" =>
        /\ jobs[id] = "none" /\ firing[id] = "no" /\ rang[id] = 0
        /\ id \notin creating \cup cancelling \cup restore

\* A job is of the kind its recurrence asks for, and a row being created has none yet.
JobFitsRow(id) ==
    /\ jobs[id] = "cron" => recurrence[id] = "cron"
    /\ jobs[id] = "date" => recurrence[id] \in {"once", "nocron"}
    /\ id \in creating => jobs[id] = "none" /\ firing[id] = "no"
    /\ firing[id] # "no" => recurrence[id] # "badcron"
    /\ firing[id] = "deleting" => recurrence[id] = "once"

RowsAndJobs == Lifetimes /\ \A id \in Timers : UnbornIsBlank(id) /\ JobFitsRow(id)

LEMMA RowsAndJobsInit == Init => RowsAndJobs
  BY DEF Init, RowsAndJobs, Lifetimes, UnbornIsBlank, JobFitsRow

LEMMA RowsAndJobsStep == TypeOK /\ RowsAndJobs /\ [Next]_vars => RowsAndJobs'
  <1> SUFFICES ASSUME TypeOK, RowsAndJobs, [Next]_vars PROVE RowsAndJobs'
    OBVIOUS
  <1>1. ASSUME NEW t \in Timers, CreateCommit(t) PROVE RowsAndJobs'
    BY <1>1 DEF CreateCommit, TypeOK, RowsAndJobs, Lifetimes, UnbornIsBlank, JobFitsRow,
           ghostVars
  <1>2. ASSUME NEW t \in Timers, CreateSchedule(t) PROVE RowsAndJobs'
    <2>1. CASE Stored(t) /\ recurrence[t] # "badcron"
      <3>1. jobs' = [jobs EXCEPT ![t] = JobFor(recurrence[t])]
        BY <1>2, <2>1 DEF CreateSchedule, Schedule
      <3>2. recurrence[t] \in Kinds /\ creating' = creating \ {t}
        BY <1>2 DEF CreateSchedule, TypeOK
      <3> QED
        BY <1>2, <2>1, <3>1, <3>2 DEF CreateSchedule, TypeOK, RowsAndJobs, Lifetimes,
               UnbornIsBlank, JobFitsRow, tableVars, JobFor, Kinds, Stored
    <2>2. CASE ~(Stored(t) /\ recurrence[t] # "badcron")
      BY <1>2, <2>2 DEF CreateSchedule, Schedule, TypeOK, RowsAndJobs, Lifetimes,
             UnbornIsBlank,
               JobFitsRow, tableVars
    <2> QED BY <2>1, <2>2
  <1>3. ASSUME NEW t \in Timers, CreateCut(t) PROVE RowsAndJobs'
    BY <1>3 DEF CreateCut, TypeOK, RowsAndJobs, Lifetimes, UnbornIsBlank, JobFitsRow,
           tableVars
  <1>4. ASSUME NEW t \in Timers, CancelUnschedule(t) PROVE RowsAndJobs'
    BY <1>4 DEF CancelUnschedule, TypeOK, RowsAndJobs, Lifetimes, UnbornIsBlank, JobFitsRow,
           tableVars, ghostVars, Unschedule, Stored
  <1>5. ASSUME NEW t \in Timers, CancelDelete(t) PROVE RowsAndJobs'
    BY <1>5 DEF CancelDelete, TypeOK, RowsAndJobs, Lifetimes, UnbornIsBlank, JobFitsRow,
           ghostVars
  <1>6. ASSUME NEW t \in Timers, CancelCut(t) PROVE RowsAndJobs'
    BY <1>6 DEF CancelCut, TypeOK, RowsAndJobs, Lifetimes, UnbornIsBlank, JobFitsRow,
           tableVars
  <1>7. ASSUME NEW t \in Timers, FireStart(t) PROVE RowsAndJobs'
    BY <1>7 DEF FireStart, TypeOK, RowsAndJobs, Lifetimes, UnbornIsBlank, JobFitsRow,
           tableVars, ghostVars, Due
  <1>8. ASSUME NEW t \in Timers, Misfire(t) PROVE RowsAndJobs'
    BY <1>8 DEF Misfire, TypeOK, RowsAndJobs, Lifetimes, UnbornIsBlank, JobFitsRow,
           tableVars, taskVars, Misfired
  <1>9. ASSUME NEW t \in Timers, FireLoad(t) PROVE RowsAndJobs'
    BY <1>9 DEF FireLoad, TypeOK, RowsAndJobs, Lifetimes, UnbornIsBlank, JobFitsRow,
           tableVars, ghostVars, RowFound, Stored
  <1>10. ASSUME NEW t \in Timers, FireSend(t) PROVE RowsAndJobs'
    BY <1>10 DEF FireSend, TypeOK, RowsAndJobs, Lifetimes, UnbornIsBlank, JobFitsRow,
           tableVars, DeletedOnceFired
  <1>11. ASSUME NEW t \in Timers, FireDelete(t) PROVE RowsAndJobs'
    BY <1>11 DEF FireDelete, TypeOK, RowsAndJobs, Lifetimes, UnbornIsBlank, JobFitsRow,
           ghostVars
  <1>12. ASSUME NEW t \in Timers, FireFails(t) PROVE RowsAndJobs'
    BY <1>12 DEF FireFails, TypeOK, RowsAndJobs, Lifetimes, UnbornIsBlank, JobFitsRow,
           tableVars
  <1>13. CASE Crash
    BY <1>13 DEF Crash, TypeOK, RowsAndJobs, Lifetimes, UnbornIsBlank, JobFitsRow,
           tableVars, ghostVars
  <1>14. CASE Boot
    BY <1>14 DEF Boot, TypeOK, RowsAndJobs, Lifetimes, UnbornIsBlank, JobFitsRow, tableVars,
           taskVars, Table, Stored
  <1>15. ASSUME NEW t \in Timers, RestoreNext(t) PROVE RowsAndJobs'
    <2>1. CASE Past(t) \/ recurrence[t] = "badcron"
      BY <1>15, <2>1 DEF RestoreNext, TypeOK, RowsAndJobs, Lifetimes, UnbornIsBlank,
             JobFitsRow,
               taskVars
    <2>2. CASE ~Past(t) /\ recurrence[t] # "badcron"
      <3>1. jobs' = [jobs EXCEPT ![t] = JobFor(recurrence[t])] /\ restore' = restore \ {t}
        BY <1>15, <2>2 DEF RestoreNext, Schedule
      <3>2. recurrence[t] \in Kinds
        BY DEF TypeOK
      <3> QED
        BY <1>15, <2>2, <3>1, <3>2 DEF RestoreNext, TypeOK, RowsAndJobs, Lifetimes,
               UnbornIsBlank, JobFitsRow, taskVars, JobFor, Kinds
    <2> QED BY <2>1, <2>2
  <1>16. CASE BootDone
    BY <1>16 DEF BootDone, TypeOK, RowsAndJobs, Lifetimes, UnbornIsBlank, JobFitsRow,
           tableVars, taskVars, ghostVars
  <1>17. CASE HubConnects
    BY <1>17 DEF HubConnects, TypeOK, RowsAndJobs, Lifetimes, UnbornIsBlank, JobFitsRow,
           tableVars, taskVars, ghostVars
  <1>18. CASE Tick
    BY <1>18 DEF Tick, TypeOK, RowsAndJobs, Lifetimes, UnbornIsBlank, JobFitsRow, tableVars,
           taskVars, ghostVars
  <1>19. CASE UNCHANGED vars
    BY <1>19 DEF vars, tableVars, taskVars, ghostVars, TypeOK, RowsAndJobs, Lifetimes,
           UnbornIsBlank, JobFitsRow
  <1> QED
    BY <1>1, <1>2, <1>3, <1>4, <1>5, <1>6, <1>7, <1>8, <1>9, <1>10, <1>11, <1>12, <1>13,
           <1>14, <1>15, <1>16, <1>17, <1>18, <1>19 DEF Next, Work, Requests

-----------------------------------------------------------------------------
(* No timer is lost silently.                                              *)

\* NoSilentLoss, and more for a crontab: its job is there while it fires, too.
Accounted(id) ==
    server # "down" /\ Stored(id) /\ id \notin creating \cup cancelling \cup restore
        => jobs[id] # "none" \/ id \in spoiled \/ (firing[id] # "no" /\ recurrence[id] # "cron")

AllAccounted == \A id \in Timers : Accounted(id)

LEMMA AccountedInit == Init => AllAccounted
  BY DEF Init, AllAccounted, Accounted, Stored

LEMMA AccountedStep == TypeOK /\ RowsAndJobs /\ AllAccounted /\ [Next]_vars => AllAccounted'
  <1> SUFFICES ASSUME TypeOK, RowsAndJobs, AllAccounted, [Next]_vars PROVE AllAccounted'
    OBVIOUS
  <1>1. ASSUME NEW t \in Timers, CreateCommit(t) PROVE AllAccounted'
    BY <1>1 DEF CreateCommit, TypeOK, RowsAndJobs, Lifetimes, UnbornIsBlank, JobFitsRow,
           AllAccounted, Accounted, Stored, ghostVars
  <1>2. ASSUME NEW t \in Timers, CreateSchedule(t) PROVE AllAccounted'
    BY <1>2 DEF CreateSchedule, TypeOK, RowsAndJobs, Lifetimes, UnbornIsBlank, JobFitsRow,
           AllAccounted, Accounted, Stored, tableVars, Schedule, JobFor, Stored
  <1>3. ASSUME NEW t \in Timers, CreateCut(t) PROVE AllAccounted'
    BY <1>3 DEF CreateCut, TypeOK, RowsAndJobs, Lifetimes, UnbornIsBlank, JobFitsRow,
           AllAccounted, Accounted, Stored, tableVars
  <1>4. ASSUME NEW t \in Timers, CancelUnschedule(t) PROVE AllAccounted'
    BY <1>4 DEF CancelUnschedule, TypeOK, RowsAndJobs, Lifetimes, UnbornIsBlank, JobFitsRow,
           AllAccounted, Accounted, Stored, tableVars, ghostVars, Unschedule, Stored
  <1>5. ASSUME NEW t \in Timers, CancelDelete(t) PROVE AllAccounted'
    BY <1>5 DEF CancelDelete, TypeOK, RowsAndJobs, Lifetimes, UnbornIsBlank, JobFitsRow,
           AllAccounted, Accounted, Stored, ghostVars
  <1>6. ASSUME NEW t \in Timers, CancelCut(t) PROVE AllAccounted'
    BY <1>6 DEF CancelCut, TypeOK, RowsAndJobs, Lifetimes, UnbornIsBlank, JobFitsRow,
           AllAccounted, Accounted, Stored, tableVars
  <1>7. ASSUME NEW t \in Timers, FireStart(t) PROVE AllAccounted'
    BY <1>7 DEF FireStart, TypeOK, RowsAndJobs, Lifetimes, UnbornIsBlank, JobFitsRow,
           AllAccounted, Accounted, Stored, tableVars, ghostVars, Due
  <1>8. ASSUME NEW t \in Timers, Misfire(t) PROVE AllAccounted'
    BY <1>8 DEF Misfire, TypeOK, RowsAndJobs, Lifetimes, UnbornIsBlank, JobFitsRow,
           AllAccounted, Accounted, Stored, tableVars, taskVars, Misfired
  <1>9. ASSUME NEW t \in Timers, FireLoad(t) PROVE AllAccounted'
    BY <1>9 DEF FireLoad, TypeOK, RowsAndJobs, Lifetimes, UnbornIsBlank, JobFitsRow,
           AllAccounted, Accounted, Stored, tableVars, ghostVars, RowFound, Stored
  <1>10. ASSUME NEW t \in Timers, FireSend(t) PROVE AllAccounted'
    <2>1. recurrence[t] \in {"once", "cron", "nocron"}
      BY <1>10 DEF FireSend, TypeOK, RowsAndJobs, JobFitsRow, Kinds
    <2> QED
      BY <1>10, <2>1 DEF FireSend, TypeOK, AllAccounted, Accounted, Stored, tableVars,
             DeletedOnceFired
  <1>11. ASSUME NEW t \in Timers, FireDelete(t) PROVE AllAccounted'
    BY <1>11 DEF FireDelete, TypeOK, RowsAndJobs, Lifetimes, UnbornIsBlank, JobFitsRow,
           AllAccounted, Accounted, Stored, ghostVars
  <1>12. ASSUME NEW t \in Timers, FireFails(t) PROVE AllAccounted'
    BY <1>12 DEF FireFails, TypeOK, RowsAndJobs, Lifetimes, UnbornIsBlank, JobFitsRow,
           AllAccounted, Accounted, Stored, tableVars
  <1>13. CASE Crash
    BY <1>13 DEF Crash, TypeOK, RowsAndJobs, Lifetimes, UnbornIsBlank, JobFitsRow,
           AllAccounted, Accounted, Stored, tableVars, ghostVars
  <1>14. CASE Boot
    BY <1>14 DEF Boot, TypeOK, RowsAndJobs, Lifetimes, UnbornIsBlank, JobFitsRow,
           AllAccounted, Accounted, Stored, tableVars, taskVars, Table, Stored
  <1>15. ASSUME NEW t \in Timers, RestoreNext(t) PROVE AllAccounted'
    BY <1>15 DEF RestoreNext, TypeOK, RowsAndJobs, Lifetimes, UnbornIsBlank, JobFitsRow,
           AllAccounted, Accounted, Stored, taskVars, Schedule, JobFor, Past
  <1>16. CASE BootDone
    BY <1>16 DEF BootDone, TypeOK, RowsAndJobs, Lifetimes, UnbornIsBlank, JobFitsRow,
           AllAccounted, Accounted, Stored, tableVars, taskVars, ghostVars
  <1>17. CASE HubConnects
    BY <1>17 DEF HubConnects, TypeOK, RowsAndJobs, Lifetimes, UnbornIsBlank, JobFitsRow,
           AllAccounted, Accounted, Stored, tableVars, taskVars, ghostVars
  <1>18. CASE Tick
    BY <1>18 DEF Tick, TypeOK, RowsAndJobs, Lifetimes, UnbornIsBlank, JobFitsRow,
           AllAccounted, Accounted, Stored, tableVars, taskVars, ghostVars
  <1>19. CASE UNCHANGED vars
    BY <1>19 DEF vars, tableVars, taskVars, ghostVars, TypeOK, RowsAndJobs, Lifetimes,
           UnbornIsBlank, JobFitsRow, AllAccounted, Accounted, Stored
  <1> QED
    BY <1>1, <1>2, <1>3, <1>4, <1>5, <1>6, <1>7, <1>8, <1>9, <1>10, <1>11, <1>12, <1>13,
           <1>14, <1>15, <1>16, <1>17, <1>18, <1>19 DEF Next, Work, Requests

\* The rows that no task is busy with have a job, or a failure has taken it.
THEOREM NothingLostSilently == Spec => []NoSilentLoss
  <1>1. AllAccounted => NoSilentLoss
    BY DEF AllAccounted, Accounted, NoSilentLoss, Table, Stored
  <1> QED
    BY TypeInit, TypeStep, RowsAndJobsInit, RowsAndJobsStep, AccountedInit, AccountedStep,
           <1>1,
       PTL DEF Spec

-----------------------------------------------------------------------------
(* A one-shot rings at most once.                                          *)

\* A timer is set once by its create and once by each restart: one that is set, or to be
\* set by the restore, or on its way to the hub has rung for earlier restarts only.
RingsOnce(id) ==
    /\ recurrence[id] # "once" => rang[id] = 0
    /\ rang[id] # 0 => id \notin creating
    /\ recurrence[id] = "once" /\ firing[id] \in {"loading", "sending"} => jobs[id] = "none"
    /\ server = "down" \/ id \in restore => jobs[id] = "none" /\ firing[id] = "no"
    /\ \/ server = "down" \/ id \in restore
       \/ jobs[id] # "none" \/ firing[id] \in {"loading", "sending"}
       => rang[id] <= crashes
    /\ rang[id] <= 1 + crashes

\* On a host that is not ahead of UTC a one-shot that rang has neither job nor _fire before
\* its send, and its moment has come, so that a restore deletes it.
RingsInTime(id) ==
    zone <= 0 =>
        /\ rang[id] # 0 =>
              /\ rang[id] = 1 /\ jobs[id] = "none" /\ firing[id] \in {"no", "deleting"}
              /\ firesAt[id] <= now
        /\ recurrence[id] = "once" /\ firing[id] \in {"loading", "sending"} => firesAt[id] <= now

AllRingOnce == \A id \in Timers : RingsOnce(id) /\ RingsInTime(id)

LEMMA RingsInit == Init => AllRingOnce
  BY DEF Init, AllRingOnce, RingsOnce, RingsInTime

LEMMA RingsStep ==
    TypeOK /\ RowsAndJobs /\ AllRingOnce /\ [Next]_vars => AllRingOnce'
  <1> SUFFICES ASSUME TypeOK, RowsAndJobs, AllRingOnce, [Next]_vars PROVE AllRingOnce'
    OBVIOUS
  <1>1. ASSUME NEW t \in Timers, CreateCommit(t) PROVE AllRingOnce'
    BY <1>1 DEF CreateCommit, TypeOK, RowsAndJobs, Lifetimes, UnbornIsBlank, JobFitsRow,
           AllRingOnce, RingsOnce, RingsInTime, Stored, ghostVars
  <1>2. ASSUME NEW t \in Timers, CreateSchedule(t) PROVE AllRingOnce'
    BY <1>2 DEF CreateSchedule, TypeOK, RowsAndJobs, Lifetimes, UnbornIsBlank, JobFitsRow,
           AllRingOnce, RingsOnce, RingsInTime, Stored, tableVars, Schedule, JobFor, Stored
  <1>3. ASSUME NEW t \in Timers, CreateCut(t) PROVE AllRingOnce'
    BY <1>3 DEF CreateCut, TypeOK, RowsAndJobs, Lifetimes, UnbornIsBlank, JobFitsRow,
           AllRingOnce, RingsOnce, RingsInTime, Stored, tableVars
  <1>4. ASSUME NEW t \in Timers, CancelUnschedule(t) PROVE AllRingOnce'
    BY <1>4 DEF CancelUnschedule, TypeOK, RowsAndJobs, Lifetimes, UnbornIsBlank, JobFitsRow,
           AllRingOnce, RingsOnce, RingsInTime, Stored, tableVars, ghostVars, Unschedule, Stored
  <1>5. ASSUME NEW t \in Timers, CancelDelete(t) PROVE AllRingOnce'
    BY <1>5 DEF CancelDelete, TypeOK, RowsAndJobs, Lifetimes, UnbornIsBlank, JobFitsRow,
           AllRingOnce, RingsOnce, RingsInTime, Stored, ghostVars
  <1>6. ASSUME NEW t \in Timers, CancelCut(t) PROVE AllRingOnce'
    BY <1>6 DEF CancelCut, TypeOK, RowsAndJobs, Lifetimes, UnbornIsBlank, JobFitsRow,
           AllRingOnce, RingsOnce, RingsInTime, Stored, tableVars
  <1>7. ASSUME NEW t \in Timers, FireStart(t) PROVE AllRingOnce'
    <2>1. zone <= 0 /\ jobs[t] = "date" => firesAt[t] <= now
      <3>1. firesAt[t] \in Nat /\ now \in Nat /\ zone \in Int
        BY TimerConstants DEF TypeOK, Times
      <3>2. jobs[t] = "date" => firesAt[t] - zone <= now
        BY <1>7 DEF FireStart, Due, RunAt
      <3> QED BY <3>1, <3>2
    <2>2. /\ firing[t] = "no" /\ jobs[t] # "none"
          /\ recurrence[t] = "once" => jobs[t] = "date"
      BY <1>7 DEF FireStart, Due, RowsAndJobs, JobFitsRow
    <2>3. UNCHANGED <<now, zone, server, recurrence, firesAt, rang, creating, restore, crashes>>
      BY <1>7 DEF FireStart, tableVars, ghostVars
    <2>4. rang[t] <= crashes /\ (zone <= 0 => rang[t] = 0)
      BY <2>2 DEF AllRingOnce, RingsOnce, RingsInTime
    <2>5. server # "down" /\ t \notin restore
      BY <1>7, <2>2 DEF AllRingOnce, RingsOnce
    <2>6. /\ jobs' = [jobs EXCEPT ![t] = IF @ = "date" THEN "none" ELSE @]
          /\ firing' = [firing EXCEPT ![t] = "loading"]
      BY <1>7 DEF FireStart
    <2>7. \A id \in Timers \ {t} : jobs'[id] = jobs[id] /\ firing'[id] = firing[id]
      BY <2>6 DEF TypeOK
    <2>8. ASSUME NEW id \in Timers PROVE (RingsOnce(id) /\ RingsInTime(id))'
      <3>1. CASE id # t
        BY <2>3, <2>7, <3>1 DEF AllRingOnce, RingsOnce, RingsInTime
      <3>2. CASE id = t
        <4>1. /\ firing'[t] = "loading"
              /\ jobs'[t] = IF jobs[t] = "date" THEN "none" ELSE jobs[t]
          BY <2>6 DEF TypeOK
        <4> QED
          BY <2>1, <2>2, <2>3, <2>4, <2>5, <3>2, <4>1 DEF AllRingOnce, RingsOnce, RingsInTime
      <3> QED BY <3>1, <3>2
    <2> QED BY <2>8 DEF AllRingOnce
  <1>8. ASSUME NEW t \in Timers, Misfire(t) PROVE AllRingOnce'
    BY <1>8 DEF Misfire, TypeOK, RowsAndJobs, Lifetimes, UnbornIsBlank, JobFitsRow,
           AllRingOnce, RingsOnce, RingsInTime, Stored, tableVars, taskVars, Misfired
  <1>9. ASSUME NEW t \in Timers, FireLoad(t) PROVE AllRingOnce'
    BY <1>9 DEF FireLoad, TypeOK, RowsAndJobs, Lifetimes, UnbornIsBlank, JobFitsRow,
           AllRingOnce, RingsOnce, RingsInTime, Stored, tableVars, ghostVars, RowFound, Stored
  <1>10. ASSUME NEW t \in Timers, FireSend(t) PROVE AllRingOnce'
    BY <1>10 DEF FireSend, TypeOK, RowsAndJobs, Lifetimes, UnbornIsBlank, JobFitsRow,
           AllRingOnce, RingsOnce, RingsInTime, Stored, tableVars, DeletedOnceFired
  <1>11. ASSUME NEW t \in Timers, FireDelete(t) PROVE AllRingOnce'
    BY <1>11 DEF FireDelete, TypeOK, RowsAndJobs, Lifetimes, UnbornIsBlank, JobFitsRow,
           AllRingOnce, RingsOnce, RingsInTime, Stored, ghostVars
  <1>12. ASSUME NEW t \in Timers, FireFails(t) PROVE AllRingOnce'
    BY <1>12 DEF FireFails, TypeOK, RowsAndJobs, Lifetimes, UnbornIsBlank, JobFitsRow,
           AllRingOnce, RingsOnce, RingsInTime, Stored, tableVars
  <1>13. CASE Crash
    BY <1>13 DEF Crash, TypeOK, RowsAndJobs, Lifetimes, UnbornIsBlank, JobFitsRow,
           AllRingOnce, RingsOnce, RingsInTime, Stored, tableVars, ghostVars
  <1>14. CASE Boot
    BY <1>14 DEF Boot, TypeOK, RowsAndJobs, Lifetimes, UnbornIsBlank, JobFitsRow,
           AllRingOnce, RingsOnce, RingsInTime, Stored, tableVars, taskVars, Table, Stored
  <1>15. ASSUME NEW t \in Timers, RestoreNext(t) PROVE AllRingOnce'
    BY <1>15 DEF RestoreNext, TypeOK, RowsAndJobs, Lifetimes, UnbornIsBlank, JobFitsRow,
           AllRingOnce, RingsOnce, RingsInTime, Stored, taskVars, Schedule, JobFor, Past
  <1>16. CASE BootDone
    BY <1>16 DEF BootDone, TypeOK, RowsAndJobs, Lifetimes, UnbornIsBlank, JobFitsRow,
           AllRingOnce, RingsOnce, RingsInTime, Stored, tableVars, taskVars, ghostVars
  <1>17. CASE HubConnects
    BY <1>17 DEF HubConnects, TypeOK, RowsAndJobs, Lifetimes, UnbornIsBlank, JobFitsRow,
           AllRingOnce, RingsOnce, RingsInTime, Stored, tableVars, taskVars, ghostVars
  <1>18. CASE Tick
    <2>1. /\ now \in Nat /\ now' = now + 1
          /\ \A id \in Timers : firesAt[id] \in Nat
      BY <1>18, TimerConstants DEF Tick, TypeOK, Times
    <2>2. UNCHANGED <<zone, server, recurrence, firesAt, rang, creating, restore, jobs, firing,
                      crashes>>
      BY <1>18 DEF Tick, tableVars, taskVars, ghostVars
    <2> QED BY <2>1, <2>2 DEF AllRingOnce, RingsOnce, RingsInTime
  <1>19. CASE UNCHANGED vars
    BY <1>19 DEF vars, tableVars, taskVars, ghostVars, TypeOK, RowsAndJobs, Lifetimes,
           UnbornIsBlank, JobFitsRow, AllRingOnce, RingsOnce, RingsInTime, Stored
  <1> QED
    BY <1>1, <1>2, <1>3, <1>4, <1>5, <1>6, <1>7, <1>8, <1>9, <1>10, <1>11, <1>12, <1>13,
           <1>14, <1>15, <1>16, <1>17, <1>18, <1>19 DEF Next, Work, Requests

\* A one-shot is delivered at most once, whatever cancels, crashes and restarts come in
\* between; on a host ahead of UTC each restart may add one ring.
THEOREM OneRing == Spec => []AtMostOneRing
  <1>1. TypeOK /\ AllRingOnce => AtMostOneRing
    BY TimerConstants DEF TypeOK, AllRingOnce, RingsOnce, RingsInTime, AtMostOneRing
  <1> QED
    BY TypeInit, TypeStep, RowsAndJobsInit, RowsAndJobsStep, RingsInit, RingsStep, <1>1,
       PTL DEF Spec

-----------------------------------------------------------------------------
(* A cancelled timer stays silent.                                         *)

\* cancel_timer's delete is final for the timer, apart from a _fire that held the row.
THEOREM CancelIsFinal == Spec => CancelledStaysSilent
  <1> DEFINE Silent == \A id \in Timers :
          rows[id] = "gone" /\ firing[id] # "sending" => firing'[id] # "sending"
  <1>1. TypeOK /\ [Next]_vars => Silent
    <2> SUFFICES ASSUME TypeOK, [Next]_vars, NEW id \in Timers,
                        rows[id] = "gone", firing[id] # "sending"
                 PROVE  firing'[id] # "sending"
      OBVIOUS
    <2>1. ASSUME NEW t \in Timers, FireLoad(t) PROVE firing'[id] # "sending"
      BY <2>1 DEF FireLoad, RowFound, Stored, TypeOK
    <2>2. ASSUME NEW t \in Timers,
                 FireStart(t) \/ FireSend(t) \/ FireDelete(t) \/ FireFails(t)
          PROVE  firing'[id] # "sending"
      BY <2>2 DEF FireStart, FireSend, FireDelete, FireFails, TypeOK
    <2>3. ASSUME NEW t \in Timers,
                 CreateCommit(t) \/ CreateSchedule(t) \/ CreateCut(t) \/ CancelUnschedule(t)
                 \/ CancelDelete(t) \/ CancelCut(t) \/ Misfire(t) \/ RestoreNext(t)
          PROVE  firing'[id] # "sending"
      <3>1. UNCHANGED firing
        BY <2>3 DEF CreateCommit, CreateSchedule, CreateCut, CancelUnschedule, CancelDelete,
                    CancelCut, Misfire, RestoreNext, taskVars
      <3> QED BY <3>1
    <2>4. CASE Crash
      BY <2>4 DEF Crash
    <2>5. CASE Boot \/ BootDone \/ HubConnects \/ Tick \/ UNCHANGED vars
      BY <2>5 DEF Boot, BootDone, HubConnects, Tick, vars, taskVars
    <2> QED BY <2>1, <2>2, <2>3, <2>4, <2>5 DEF Next, Work, Requests
  <1>2. TypeOK /\ [Next]_vars => [Silent]_vars
    BY <1>1
  <1> QED
    BY TypeInit, TypeStep, <1>2, PTL DEF Spec, CancelledStaysSilent
=============================================================================
