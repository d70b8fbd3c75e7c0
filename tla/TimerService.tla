---------------------------- MODULE TimerService ----------------------------
(***************************************************************************)
(* Timers, alarms and reminders: the timers table, the in-memory jobs of   *)
(* the APScheduler singleton, and the tasks that touch both -- create,     *)
(* cancel, fire, and the restore the app runs when it starts               *)
(* (timer/service.py, timer/crud.py, core/scheduler.py, lifespan of        *)
(* main.py).                                                               *)
(*                                                                         *)
(* A step is the code between two awaits.  create_timer awaits between the *)
(* commit of the row and _schedule; cancel_timer removes the job and then  *)
(* awaits the delete; _fire awaits the row, the hub and the send.  A voice *)
(* turn that is replaced cancels its tool at such an await (Cut), and a    *)
(* crash or a restart ends every task and drops every job.                 *)
(*                                                                         *)
(* Time is a tick counter in UTC.  Naive timestamps are computed in UTC    *)
(* (_now) but DateTrigger reads a naive run date in the host's zone, which *)
(* is zone ticks ahead of UTC (nine hours where the server is documented   *)
(* to stand).  APScheduler drops a job that is more than its misfire grace *)
(* late.                                                                   *)
(***************************************************************************)
EXTENDS Integers, FiniteSets

CONSTANTS
    Timers,       \* timer ids the database may hand out
    MaxTime,      \* bound on the clock
    MaxCrashes,   \* bound on crashes and restarts
    Zones,        \* what the host's zone may be, in ticks ahead of UTC
    Grace,        \* misfire_grace_time, in ticks
    Recurrences   \* id -> what recurrence its timer may have, a subset of Kinds

\* once: None.  cron: a valid crontab.  badcron: from_crontab raises.  nocron: a
\* dict without "cron", scheduled like a one-shot but never deleted.
Kinds == {"once", "cron", "badcron", "nocron"}

ASSUME TimerConstants ==
    /\ MaxTime \in Nat
    /\ MaxCrashes \in Nat
    /\ Zones \subseteq Int
    /\ Grace \in Nat
    /\ Recurrences \in [Timers -> SUBSET Kinds]

Times == 0 .. MaxTime

VARIABLES
    now,       \* the clock, UTC
    zone,      \* the host's zone
    server,    \* "up", "down", or "booting": in the lifespan's restore
    rows,      \* id -> "unborn", "stored" or "gone": the rows of the table
    recurrence,\* recurrence of the row
    firesAt,   \* fires_at of the row
    jobs,      \* id -> "none", "date" or "cron"
    creating,  \* ids committed by create_timer, not scheduled yet
    cancelling,\* ids unscheduled by cancel_timer, not deleted yet
    firing,    \* id -> where its _fire task is
    restore,   \* ids the restore has still to treat
    hubUp,     \* the target hub is connected
    crashes,   \* how often the server went down
    rang,      \* how often timer.fired was delivered for a one-shot id
    spoiled    \* ids left without a job by a failure: a cut task, a bad crontab, a misfire

taskVars == <<creating, cancelling, firing>>
tableVars == <<rows, recurrence, firesAt>>
ghostVars == <<rang, spoiled>>
vars == <<now, zone, server, tableVars, jobs, taskVars, restore, hubUp, crashes, ghostVars>>

TypeOK ==
    /\ now \in Times
    /\ zone \in Zones
    /\ server \in {"up", "down", "booting"}
    /\ rows \in [Timers -> {"unborn", "stored", "gone"}]
    /\ recurrence \in [Timers -> Kinds]
    /\ firesAt \in [Timers -> Nat]
    /\ jobs \in [Timers -> {"none", "date", "cron"}]
    /\ creating \in SUBSET Timers
    /\ cancelling \in SUBSET Timers
    /\ firing \in [Timers -> {"no", "loading", "sending", "deleting"}]
    /\ restore \in SUBSET Timers
    /\ hubUp \in BOOLEAN
    /\ crashes \in 0 .. MaxCrashes
    /\ rang \in [Timers -> Nat]
    /\ spoiled \in SUBSET Timers

Init ==
    /\ now = 0
    /\ zone \in Zones
    /\ server = "up"
    /\ rows = [id \in Timers |-> "unborn"]
    /\ recurrence = [id \in Timers |-> "once"]
    /\ firesAt = [id \in Timers |-> 0]
    /\ jobs = [id \in Timers |-> "none"]
    /\ creating = {}
    /\ cancelling = {}
    /\ firing = [id \in Timers |-> "no"]
    /\ restore = {}
    /\ hubUp = TRUE
    /\ crashes = 0
    /\ rang = [id \in Timers |-> 0]
    /\ spoiled = {}

Stored(id) == rows[id] = "stored"
Table == {id \in Timers : Stored(id)}

-----------------------------------------------------------------------------
(* parse_fires_at and _schedule.                                           *)

\* A duration, from now on; "HH:MM", within a day; an ISO date and time, past or not.
FireTimes == Times

\* The UTC moment a date job runs: the naive fires_at taken as host-local time.
RunAt(id) == firesAt[id] - zone

Due(id) == jobs[id] = "date" /\ RunAt(id) <= now
Misfired(id) == jobs[id] = "date" /\ RunAt(id) + Grace < now

\* Mutant: the trigger is chosen by the recurrence as it is stored.
JobAsStored(kind) == kind
\* A crontab gives a cron trigger, anything else a date trigger.
JobFor(kind) == IF kind = "cron" THEN "cron" ELSE "date"

\* _schedule; CronTrigger.from_crontab raises on a bad expression, with the row stored.
Schedule(id) ==
    IF recurrence[id] = "badcron"
    THEN spoiled' = spoiled \cup {id} /\ UNCHANGED jobs
    ELSE jobs' = [jobs EXCEPT ![id] = JobFor(recurrence[id])] /\ spoiled' = spoiled \ {id}

-----------------------------------------------------------------------------
(* create_timer                                                            *)

CreateCommit(id) ==
    /\ server = "up"
    /\ rows[id] = "unborn"
    /\ \E kind \in Recurrences[id], at \in FireTimes :
          /\ recurrence' = [recurrence EXCEPT ![id] = kind]
          /\ firesAt' = [firesAt EXCEPT ![id] = at]
    /\ rows' = [rows EXCEPT ![id] = "stored"]
    /\ creating' = creating \cup {id}
    /\ UNCHANGED <<now, zone, server, jobs, cancelling, firing, restore, hubUp, crashes, ghostVars>>

\* After the refresh: it raises when the row was deleted meanwhile.
CreateSchedule(id) ==
    /\ id \in creating
    /\ creating' = creating \ {id}
    /\ IF Stored(id) THEN Schedule(id) ELSE UNCHANGED <<jobs, spoiled>>
    /\ UNCHANGED <<now, zone, server, tableVars, cancelling, firing, restore, hubUp, crashes, rang>>

\* Between the commit and _schedule the voice turn that runs the tool is cancelled, or
\* the refresh fails.
CreateCut(id) ==
    /\ id \in creating
    /\ creating' = creating \ {id}
    /\ spoiled' = spoiled \cup {id}
    /\ UNCHANGED <<now, zone, server, tableVars, jobs, cancelling, firing, restore, hubUp, crashes,
                   rang>>

-----------------------------------------------------------------------------
(* cancel_timer                                                            *)

\* _unschedule
Unschedule(id) == jobs' = [jobs EXCEPT ![id] = "none"]

\* The row was found, by id or by label; its job goes first.
CancelUnschedule(id) ==
    /\ server = "up"
    /\ Stored(id)
    /\ id \notin cancelling
    /\ Unschedule(id)
    /\ cancelling' = cancelling \cup {id}
    /\ UNCHANGED <<now, zone, server, tableVars, creating, firing, restore, hubUp, crashes, ghostVars>>

\* A row another task deleted first is a warning of the ORM, no error.
CancelDelete(id) ==
    /\ id \in cancelling
    /\ rows' = [rows EXCEPT ![id] = "gone"]
    /\ cancelling' = cancelling \ {id}
    /\ UNCHANGED <<now, zone, server, recurrence, firesAt, jobs, creating, firing, restore, hubUp, crashes,
                   ghostVars>>

\* Between _unschedule and the commit the turn is cancelled, or the delete fails.
CancelCut(id) ==
    /\ id \in cancelling
    /\ cancelling' = cancelling \ {id}
    /\ spoiled' = spoiled \cup {id}
    /\ UNCHANGED <<now, zone, server, tableVars, jobs, creating, firing, restore, hubUp, crashes, rang>>

-----------------------------------------------------------------------------
(* The scheduler and _fire                                                 *)

\* A due job is handed to the executor; a date job leaves the job store with it.  A
\* cron job may come due at any moment and is not run twice at once (max_instances).
FireStart(id) ==
    /\ server # "down"
    /\ firing[id] = "no"
    /\ (Due(id) /\ ~Misfired(id)) \/ jobs[id] = "cron"
    /\ firing' = [firing EXCEPT ![id] = "loading"]
    /\ jobs' = [jobs EXCEPT ![id] = IF @ = "date" THEN "none" ELSE @]
    /\ UNCHANGED <<now, zone, server, tableVars, creating, cancelling, restore, hubUp, crashes,
                   ghostVars>>

\* "Run time of job was missed": dropped without running.
Misfire(id) ==
    /\ server # "down"
    /\ Misfired(id)
    /\ jobs' = [jobs EXCEPT ![id] = "none"]
    /\ spoiled' = spoiled \cup {id}
    /\ UNCHANGED <<now, zone, server, tableVars, taskVars, restore, hubUp, crashes, rang>>

\* Mutant: _fire works with what the job was created with.
RowNotAsked(id) == TRUE
\* get_timer: a cancelled timer whose job still ran is found missing.
RowFound(id) == Stored(id)

FireLoad(id) ==
    /\ firing[id] = "loading"
    /\ firing' = [firing EXCEPT ![id] = IF RowFound(id) THEN "sending" ELSE "no"]
    /\ UNCHANGED <<now, zone, server, tableVars, jobs, creating, cancelling, restore, hubUp, crashes,
                   ghostVars>>

\* Mutant: a one-shot row is only deleted when the hub took the message.
DeleteIfDelivered(id) == recurrence[id] = "once" /\ hubUp
\* Which fired rows are deleted: recurrence is None, delivered or not.
DeletedOnceFired(id) == recurrence[id] = "once"

\* hub_manager.send_to: without a connected hub the ring is lost, with a warning.
FireSend(id) ==
    /\ firing[id] = "sending"
    /\ rang' = [rang EXCEPT ![id] = IF hubUp /\ recurrence[id] = "once" THEN @ + 1 ELSE @]
    /\ firing' = [firing EXCEPT ![id] = IF DeletedOnceFired(id) THEN "deleting" ELSE "no"]
    /\ spoiled' = IF recurrence[id] = "nocron" THEN spoiled \cup {id} ELSE spoiled
    /\ UNCHANGED <<now, zone, server, tableVars, jobs, creating, cancelling, restore, hubUp, crashes>>

FireDelete(id) ==
    /\ firing[id] = "deleting"
    /\ rows' = [rows EXCEPT ![id] = "gone"]
    /\ firing' = [firing EXCEPT ![id] = "no"]
    /\ UNCHANGED <<now, zone, server, recurrence, firesAt, jobs, creating, cancelling, restore, hubUp, crashes,
                   ghostVars>>

\* The database raises: the executor logs it, the date job is gone, the row stays.
FireFails(id) ==
    /\ firing[id] \in {"loading", "deleting"}
    /\ firing' = [firing EXCEPT ![id] = "no"]
    /\ spoiled' = IF recurrence[id] = "cron" THEN spoiled ELSE spoiled \cup {id}
    /\ UNCHANGED <<now, zone, server, tableVars, jobs, creating, cancelling, restore, hubUp, crashes,
                   rang>>

-----------------------------------------------------------------------------
(* Restarts: lifespan, sync_all_schedules, reschedule_all                  *)

Crash ==
    /\ server # "down"
    /\ crashes < MaxCrashes
    /\ crashes' = crashes + 1
    /\ server' = "down"
    /\ jobs' = [id \in Timers |-> "none"]
    /\ creating' = {}
    /\ cancelling' = {}
    /\ firing' = [id \in Timers |-> "no"]
    /\ restore' = {}
    /\ hubUp' = FALSE
    /\ UNCHANGED <<now, zone, tableVars, ghostVars>>

\* The restore reads all rows at once; if the scenarios' schedules raise before it, it
\* is skipped with a warning.
Boot ==
    /\ server = "down"
    /\ \/ /\ server' = "booting"
          /\ restore' = Table
          /\ UNCHANGED spoiled
       \/ /\ server' = "up"
          /\ spoiled' = spoiled \cup Table
          /\ UNCHANGED restore
    /\ UNCHANGED <<now, zone, tableVars, jobs, taskVars, hubUp, crashes, rang>>

\* Mutant: a one-shot due at this very moment is restored.
StrictlyPast(id) == recurrence[id] = "once" /\ firesAt[id] < now
\* A one-shot whose moment has come is deleted without ringing.
Past(id) == recurrence[id] = "once" /\ firesAt[id] <= now

\* The rows come in order of fires_at; the first bad crontab ends the restore.
RestoreNext(id) ==
    /\ server = "booting"
    /\ id \in restore
    /\ \A other \in restore : firesAt[id] <= firesAt[other]
    /\ IF Past(id)
       THEN /\ rows' = [rows EXCEPT ![id] = "gone"]
            /\ restore' = restore \ {id}
            /\ UNCHANGED <<jobs, spoiled>>
       ELSE IF recurrence[id] = "badcron"
       THEN /\ restore' = {}
            /\ spoiled' = spoiled \cup restore
            /\ UNCHANGED <<rows, jobs>>
       ELSE /\ Schedule(id)
            /\ restore' = restore \ {id}
            /\ UNCHANGED rows
    /\ UNCHANGED <<now, zone, server, recurrence, firesAt, taskVars, hubUp, crashes, rang>>

BootDone ==
    /\ server = "booting"
    /\ restore = {}
    /\ server' = "up"
    /\ UNCHANGED <<now, zone, tableVars, jobs, taskVars, restore, hubUp, crashes, ghostVars>>

-----------------------------------------------------------------------------
(* The surroundings: the hub comes and goes, time passes.                  *)

HubConnects ==
    /\ server = "up"
    /\ hubUp' = ~hubUp
    /\ UNCHANGED <<now, zone, server, tableVars, jobs, taskVars, restore, crashes, ghostVars>>

Tick ==
    /\ now < MaxTime
    /\ now' = now + 1
    /\ UNCHANGED <<zone, server, tableVars, jobs, taskVars, restore, hubUp, crashes, ghostVars>>

Work(id) ==
    \/ CreateSchedule(id) \/ CancelDelete(id)
    \/ FireStart(id) \/ Misfire(id) \/ FireLoad(id) \/ FireSend(id) \/ FireDelete(id)
    \/ RestoreNext(id)

Requests(id) ==
    CreateCommit(id) \/ CancelUnschedule(id) \/ CreateCut(id) \/ CancelCut(id) \/ FireFails(id)

Next ==
    \/ \E id \in Timers : Work(id) \/ Requests(id)
    \/ Crash \/ Boot \/ BootDone \/ HubConnects \/ Tick

Spec == Init /\ [][Next]_vars

\* The loop runs the tasks that are ready and the jobs that are due, a server that is
\* down is started again and its restore goes on, and time passes.
Fairness ==
    /\ \A id \in Timers : WF_vars(Work(id))
    /\ WF_vars(Boot \/ BootDone)
    /\ WF_vars(Tick)

FairSpec == Spec /\ Fairness

-----------------------------------------------------------------------------
(* Properties.                                                             *)

\* A one-shot timer reaches its hub at most once, also when the server dies between the
\* push and the delete of the row and restarts at once: the restore must treat a row due
\* at this very moment as fired.  On a host ahead of UTC it rings before its moment, and
\* a restart that finds it rung but still there restores it: one ring more for each.
AtMostOneRing == \A id \in Timers : rang[id] <= IF zone > 0 THEN 1 + crashes ELSE 1

\* No timer is lost silently: a row no task is busy with has its job, unless a cut
\* create or cancel, a bad crontab, a failed _fire or a misfire took it away and no
\* restart has put it back.
NoSilentLoss ==
    server # "down" =>
        \A id \in Table \ (creating \cup cancelling \cup restore) :
            jobs[id] = "none" /\ firing[id] = "no" => id \in spoiled

\* Once cancel_timer deleted the row the timer does not ring, unless its _fire held the
\* row already: a job left in the store, or added after the cancel by a create that was
\* still under way, comes to nothing.
CancelledStaysSilent ==
    [][\A id \in Timers :
          rows[id] = "gone" /\ firing[id] # "sending" => firing'[id] # "sending"]_vars

\* A one-shot does not stay for ever: it fires or is cancelled and its row goes, or one
\* of the failures of NoSilentLoss has hit it.
OneShotsGo ==
    \A id \in Timers :
        (Stored(id) /\ recurrence[id] = "once") ~> (~Stored(id) \/ id \in spoiled)

-----------------------------------------------------------------------------
(* What the documents say and the code does not do.                        *)

\* design section 9-2 and timer/service.py: the start of the app restores the job of
\* every timer in the database that can have one.
RestartRestoresAll ==
    [][(server # "up" /\ server' = "up") =>
          \A id \in Table :
             recurrence[id] # "badcron" => jobs[id] # "none" \/ firing[id] # "no"]_vars

\* timer/llm_tools.py: a timer rings its duration from now.  No job that is in the store
\* is dropped as missed before the moment it was set for.
NotMissedEarly ==
    [][\A id \in Timers :
          jobs[id] = "date" /\ jobs'[id] = "none" /\ id \in spoiled' \ spoiled
              => now >= firesAt[id]]_vars

\* timer/service.py: a timer whose moment passed while the server was down is given up
\* rather than rung; nor does a restart ring one again that has rung, wherever the host
\* stands.
NotRungAgain == \A id \in Timers : rang[id] <= 1
=============================================================================
