--------------------------- MODULE ScenarioEngine ---------------------------
(***************************************************************************)
(* Scenarios: the table, the jobs of the scheduler that follow it, and the *)
(* runs started by a job, by REST or by voice (scenario/service.py,        *)
(* scenario/api.py, scenario/crud.py, scenario/llm_tools.py).              *)
(*                                                                         *)
(* A step is the code between two awaits: create awaits between the commit *)
(* of the row and sync_schedule, delete between taking the job away and    *)
(* the commit, a run at every database call and while its actions run.     *)
(* The devices of one group are loaded one after the other; that is one    *)
(* step here.  What an action does to its device is DeviceControl's and    *)
(* what an announcement does to its hub HubConnections'; here an action    *)
(* answers, well or badly.                                                 *)
(***************************************************************************)
EXTENDS Naturals, Sequences, FiniteSets, Functions

CONSTANTS
    Scenarios,   \* row ids, given out in order
    Plan,        \* the actions of each scenario, by order
    Triggers,    \* what the schedule triggers of each may be: lists of crontabs
    BadCron,     \* a crontab that from_crontab rejects
    NoJob,
    Devices,
    NoDevice,    \* an action without device_id
    Groups,      \* values of parallel_group
    NoGroup,     \* parallel_group is null
    Runs,        \* the tasks that run a scenario
    MaxFaults    \* bound on crashes and on creates and deletes that fail half way

Actions == [kind : {"device_command", "wait", "tts_announce", "unknown"},
            device : Devices \cup {NoDevice}, group : Groups \cup {NoGroup}]
TriggerLists == UNION {Triggers[id] : id \in Scenarios}
Crons == (UNION {Range(list) : list \in TriggerLists}) \ {BadCron}

ASSUME ScenarioConstants ==
    /\ Scenarios \subseteq Nat
    /\ Scenarios = DOMAIN Plan /\ \A id \in Scenarios : Plan[id] \in Seq(Actions)
    /\ \A list \in TriggerLists : list \in Seq(Range(list))
    /\ NoJob \notin Crons /\ NoDevice \notin Devices /\ NoGroup \notin Groups
    /\ MaxFaults \in Nat

VARIABLES
    serverUp,
    rows,       \* id -> "unborn", "stored" or "gone"
    enabled,    \* columns of the row
    triggers,
    jobs,       \* id -> the crontab of the job scenario-id, or NoJob
    creating,   \* ids committed by create_scenario, not refreshed yet
    deleting,   \* ids unscheduled by delete_scenario, not deleted yet
    present,    \* devices with a row
    online,     \* devices whose online flag is set
    run,        \* the runs
    faults,     \* how many there were
    spoiled     \* ghost: ids whose job a failure may have left wrong

tableVars == <<rows, enabled, triggers>>
deviceVars == <<present, online>>
vars == <<serverUp, tableVars, jobs, creating, deleting, deviceVars, run, faults, spoiled>>

\* of, by: what is run and who asked; acts: the actions as loaded; results: of the groups
\* that are settled; pending, outcomes: the actions of the group in hand without and with
\* an answer; found, seen: its devices that were loaded, and those of them online then.
Unused == [at |-> "none", of |-> 0, by |-> "nobody", acts |-> <<>>, results |-> <<>>,
           pending |-> {}, outcomes |-> <<>>, found |-> {}, seen |-> {}]
Places == {"none", "loading", "starting", "ready", "acting", "pushing", "done", "quit"}
Active == {"loading", "starting", "ready", "acting", "pushing"}

Indices == UNION {DOMAIN Plan[id] : id \in Scenarios}

\* Types; while a group is in hand its indices follow those of the results.
TypeOK ==
    /\ serverUp \in BOOLEAN
    /\ rows \in [Scenarios -> {"unborn", "stored", "gone"}]
    /\ enabled \in [Scenarios -> BOOLEAN]
    /\ triggers \in [Scenarios -> TriggerLists \cup {<<>>}]
    /\ jobs \in [Scenarios -> Crons \cup {NoJob}]
    /\ creating \in SUBSET Scenarios /\ deleting \in SUBSET Scenarios
    /\ present \in SUBSET Devices /\ online \in SUBSET Devices
    /\ faults \in 0 .. MaxFaults
    /\ spoiled \in SUBSET Scenarios
    /\ \A r \in Runs :
          /\ run[r].at \in Places
          /\ run[r].by \in {"nobody", "schedule", "request"}
          /\ run[r].acts \in {<<>>} \cup Range(Plan)
          /\ run[r].results \in Seq(BOOLEAN) /\ Len(run[r].results) <= Len(run[r].acts)
          /\ run[r].pending \cup DOMAIN run[r].outcomes \subseteq
                 Len(run[r].results) + 1 .. Len(run[r].acts)
          /\ run[r].seen \subseteq run[r].found /\ run[r].found \subseteq Devices

Init ==
    /\ serverUp = TRUE
    /\ rows = [id \in Scenarios |-> "unborn"]
    /\ enabled = [id \in Scenarios |-> FALSE]
    /\ triggers = [id \in Scenarios |-> <<>>]
    /\ jobs = [id \in Scenarios |-> NoJob]
    /\ creating = {} /\ deleting = {}
    /\ present = Devices /\ online = {}
    /\ run = [r \in Runs |-> Unused]
    /\ faults = 0
    /\ spoiled = {}

\* The device that is loaded for an action.
DeviceOf(action) == IF action.kind = "device_command" THEN action.device ELSE NoDevice

Stored(id) == rows[id] = "stored"
Ready(id) == Stored(id) /\ enabled[id]

-----------------------------------------------------------------------------
(* sync_schedule                                                           *)

\* from_crontab is reached for the triggers in order, up to a bad one.
Parsed(list) == {i \in DOMAIN list : \A j \in 1 .. i : list[j] # BadCron}
Raises(list) == Parsed(list) # DOMAIN list

\* Mutant: replace_existing is not given, so the first trigger keeps the job.
FirstCron(list) == IF Parsed(list) = {} THEN NoJob ELSE list[1]
\* One job id for all triggers: each one replaces the job of the one before.
LastCron(list) == IF Parsed(list) = {} THEN NoJob ELSE list[Cardinality(Parsed(list))]

\* The job that is there afterwards.
JobOf(id) == IF enabled[id] THEN LastCron(triggers[id]) ELSE NoJob
Spoils(id) == enabled[id] /\ Raises(triggers[id])

-----------------------------------------------------------------------------
(* POST and DELETE of /api/scenarios, by any number of callers.            *)

\* create_scenario, up to the commit.
CreateCommit(id) ==
    /\ serverUp
    /\ rows[id] = "unborn"
    /\ \A other \in Scenarios : other < id => rows[other] # "unborn"
    /\ {DeviceOf(Plan[id][i]) : i \in DOMAIN Plan[id]} \subseteq present \cup {NoDevice}
    /\ rows' = [rows EXCEPT ![id] = "stored"]
    /\ enabled' \in {[enabled EXCEPT ![id] = b] : b \in BOOLEAN}
    /\ triggers' \in {[triggers EXCEPT ![id] = list] : list \in Triggers[id]}
    /\ creating' = creating \cup {id}
    /\ UNCHANGED <<serverUp, jobs, deleting, deviceVars, run, faults, spoiled>>

\* The refresh finds the row, and its triggers are scheduled; or it finds none and raises.
CreateSchedules(id) ==
    /\ id \in creating
    /\ creating' = creating \ {id}
    /\ IF Stored(id)
       THEN /\ jobs' = [jobs EXCEPT ![id] = JobOf(id)]
            /\ spoiled' = IF Spoils(id) THEN spoiled \cup {id} ELSE spoiled
       ELSE UNCHANGED <<jobs, spoiled>>
    /\ UNCHANGED <<serverUp, tableVars, deleting, deviceVars, run, faults>>

\* The refresh fails: the row is there and its job is not.
CreateFails(id) ==
    /\ id \in creating
    /\ creating' = creating \ {id}
    /\ faults < MaxFaults /\ faults' = faults + 1
    /\ spoiled' = IF Stored(id) THEN spoiled \cup {id} ELSE spoiled
    /\ UNCHANGED <<serverUp, tableVars, jobs, deleting, deviceVars, run>>

\* delete_scenario: enabled is FALSE in its session only, and the job goes.
DeleteUnschedules(id) ==
    /\ serverUp
    /\ Stored(id)
    /\ jobs' = [jobs EXCEPT ![id] = NoJob]
    /\ deleting' = deleting \cup {id}
    /\ UNCHANGED <<serverUp, tableVars, creating, deviceVars, run, faults, spoiled>>

DeleteCommits(id) ==
    /\ id \in deleting
    /\ rows' = [rows EXCEPT ![id] = "gone"]
    /\ enabled' = [enabled EXCEPT ![id] = FALSE]
    /\ triggers' = [triggers EXCEPT ![id] = <<>>]
    /\ spoiled' = spoiled \ {id}
    /\ deleting' = deleting \ {id}
    /\ UNCHANGED <<serverUp, jobs, creating, deviceVars, run, faults>>

\* The delete is rolled back: the row is as it was, without its job.
DeleteFails(id) ==
    /\ id \in deleting
    /\ deleting' = deleting \ {id}
    /\ faults < MaxFaults /\ faults' = faults + 1
    /\ spoiled' = IF Stored(id) THEN spoiled \cup {id} ELSE spoiled
    /\ UNCHANGED <<serverUp, tableVars, jobs, creating, deviceVars, run>>

\* DELETE of a device: the foreign key of an action keeps it.
DeleteDevice(d) ==
    /\ d \in present
    /\ \A id \in Scenarios : Stored(id) => \A i \in DOMAIN Plan[id] : DeviceOf(Plan[id][i]) # d
    /\ present' = present \ {d}
    /\ UNCHANGED <<serverUp, tableVars, jobs, creating, deleting, online, run, faults, spoiled>>

-----------------------------------------------------------------------------
(* The server goes down; the lifespan restores the jobs.                   *)

Crash ==
    /\ serverUp
    /\ faults < MaxFaults
    /\ serverUp' = FALSE
    /\ faults' = faults + 1
    /\ jobs' = [id \in Scenarios |-> NoJob]
    /\ creating' = {} /\ deleting' = {}
    /\ run' = [r \in Runs |->
          IF run[r].at \in Active THEN [Unused EXCEPT !.at = "quit"] ELSE run[r]]
    /\ UNCHANGED <<tableVars, deviceVars, spoiled>>

\* sync_all_schedules: the rows in order, up to one whose crontab raises; or none, when the
\* database does not answer.  The lifespan goes on in any case.
Restore(reached) ==
    /\ jobs' = [id \in Scenarios |-> IF id \in reached THEN JobOf(id) ELSE NoJob]
    /\ spoiled' = {id \in Scenarios : Ready(id) /\ (Spoils(id) \/ id \notin reached)}

Boot ==
    /\ ~serverUp
    /\ serverUp' = TRUE
    /\ LET table == {id \in Scenarios : Stored(id)} IN
       \/ Restore({id \in table : \A other \in table : other < id => ~Spoils(other)})
       \/ Restore({})
    /\ UNCHANGED <<tableVars, creating, deleting, deviceVars, run, faults>>

-----------------------------------------------------------------------------
(* Starting a run.                                                         *)

Begin(r, id, by, at) == run' = [run EXCEPT ![r] = [Unused EXCEPT !.at = at, !.of = id, !.by = by]]

\* The scheduler starts _run_scheduled, unless the last one of this job is still running.
Fire(r, id) ==
    /\ serverUp
    /\ run[r].at = "none"
    /\ jobs[id] # NoJob
    /\ \A other \in Runs : run[other].by = "schedule" /\ run[other].of = id
                              => run[other].at \notin Active
    /\ Begin(r, id, "schedule", "loading")
    /\ UNCHANGED <<serverUp, tableVars, jobs, creating, deleting, deviceVars, faults, spoiled>>

\* _run_scheduled loads the row; a job may be left of a row that is gone.
FireLoads(r) ==
    /\ run[r].at = "loading"
    /\ run' = IF Ready(run[r].of) THEN [run EXCEPT ![r].at = "starting"]
              ELSE [run EXCEPT ![r] = [Unused EXCEPT !.at = "quit"]]
    /\ UNCHANGED <<serverUp, tableVars, jobs, creating, deleting, deviceVars, faults, spoiled>>

\* POST run of /api/scenarios, also of a scenario that is switched off.
RestRun(r, id) ==
    /\ serverUp
    /\ run[r].at = "none"
    /\ Stored(id)
    /\ Begin(r, id, "request", "starting")
    /\ UNCHANGED <<serverUp, tableVars, jobs, creating, deleting, deviceVars, faults, spoiled>>

\* The tool run_scenario of the LLM.
VoiceRun(r, id) ==
    /\ serverUp
    /\ run[r].at = "none"
    /\ Ready(id)
    /\ Begin(r, id, "request", "starting")
    /\ UNCHANGED <<serverUp, tableVars, jobs, creating, deleting, deviceVars, faults, spoiled>>

-----------------------------------------------------------------------------
(* execute_scenario                                                        *)

\* Mutant: actions without a group are taken for a group.
SameGroup(acts, i) == acts[i].group = acts[i - 1].group
\* _group_actions: action i joins the group of the action before it.
Joins(acts, i) == acts[i].group # NoGroup /\ acts[i].group = acts[i - 1].group

\* The group that begins with action i.
GroupFrom(acts, i) == {k \in i .. Len(acts) : \A m \in i + 1 .. k : Joins(acts, m)}

\* Where a run stands that has these results.
NextPlace(acts, results) == IF Len(results) = Len(acts) THEN "pushing" ELSE "ready"

\* Mutant: the actions are those of the scenario, whether it is still there or not.
ActionsKept(id) == Plan[id]
\* crud.get_actions: those of a deleted scenario are deleted with it.
ActionsOf(id) == IF Stored(id) THEN Plan[id] ELSE <<>>

GetActions(r) ==
    /\ run[r].at = "starting"
    /\ LET acts == ActionsOf(run[r].of) IN
       run' = [run EXCEPT ![r].acts = acts, ![r].at = NextPlace(acts, <<>>)]
    /\ UNCHANGED <<serverUp, tableVars, jobs, creating, deleting, deviceVars, faults, spoiled>>

\* The devices of the next group are loaded and its actions are started.
LoadGroup(r) ==
    /\ run[r].at = "ready"
    /\ LET acts == run[r].acts
           group == GroupFrom(acts, Len(run[r].results) + 1)
           found == {DeviceOf(acts[i]) : i \in group} \cap present IN
       run' = [run EXCEPT ![r].at = "acting", ![r].pending = group,
                          ![r].found = found, ![r].seen = found \cap online]
    /\ UNCHANGED <<serverUp, tableVars, jobs, creating, deleting, deviceVars, faults, spoiled>>

\* _run_action returns; an exception is an answer too.
CanSucceed(action, found) ==
    CASE action.kind = "device_command" -> action.device \in found
      [] action.kind \in {"wait", "tts_announce"} -> TRUE
      [] OTHER -> FALSE

ActionAnswers(r, i) ==
    /\ run[r].at = "acting"
    /\ i \in run[r].pending
    /\ \E ok \in {FALSE} \cup {CanSucceed(run[r].acts[i], run[r].found)} :
          run' = [run EXCEPT
              ![r].pending = @ \ {i},
              ![r].outcomes = [j \in DOMAIN @ \cup {i} |-> IF j = i THEN ok ELSE @[j]]]
    /\ UNCHANGED <<serverUp, tableVars, jobs, creating, deleting, deviceVars, faults, spoiled>>

\* The online flag the group leaves a device with: the last of its actions decides.
Flag(acts, outcomes, d) ==
    \E i \in DOMAIN outcomes :
        /\ DeviceOf(acts[i]) = d /\ outcomes[i]
        /\ \A j \in DOMAIN outcomes : DeviceOf(acts[j]) = d => j <= i

\* Mutant: a device that answers again is not marked online.
OnlyOff(now, before) == now \cap before
\* device.online = outcome.ok, for every loaded device; an equal value is not written.
Flagged(now, before) == now

\* Mutant: the answers of the group are not put away.
WithGroup(task, results) ==
    [task EXCEPT !.at = NextPlace(task.acts, results), !.results = results]
\* A run when its group is settled.
AfterGroup(task, results) ==
    [task EXCEPT !.at = NextPlace(task.acts, results), !.results = results,
                 !.outcomes = <<>>, !.found = {}, !.seen = {}]

\* The flags are committed when there were devices; an UPDATE of a row that is gone raises.
Settle(r) ==
    /\ run[r].at = "acting" /\ run[r].pending = {}
    /\ LET acts == run[r].acts
           outcomes == run[r].outcomes
           found == run[r].found
           good == Flagged({d \in found : Flag(acts, outcomes, d)}, run[r].seen)
           written == (good \ run[r].seen) \cup (run[r].seen \ good)
           results == run[r].results \o
               [k \in 1 .. Cardinality(DOMAIN outcomes) |-> outcomes[Len(run[r].results) + k]] IN
       IF written \subseteq present
       THEN /\ online' = (online \ written) \cup (written \cap good)
            /\ run' = [run EXCEPT ![r] = AfterGroup(@, results)]
       ELSE /\ run' = [run EXCEPT ![r] = [Unused EXCEPT !.at = "quit"]]
            /\ UNCHANGED online
    /\ UNCHANGED <<serverUp, tableVars, jobs, creating, deleting, present, faults, spoiled>>

\* broadcast_all of scenario.executed
PushResults(r) ==
    /\ run[r].at = "pushing"
    /\ run' = [run EXCEPT ![r] = [Unused EXCEPT !.at = "done"]]
    /\ UNCHANGED <<serverUp, tableVars, jobs, creating, deleting, deviceVars, faults, spoiled>>

\* The database raises, or the request is cut, as a voice turn that is replaced cuts its
\* tool; the actions that were started together are cancelled together.
BreaksOff(r) ==
    /\ run[r].at \in Active
    /\ run[r].by = "schedule" => run[r].at # "pushing" /\ run[r].pending = {}
    /\ run' = [run EXCEPT ![r] = [Unused EXCEPT !.at = "quit"]]
    /\ UNCHANGED <<serverUp, tableVars, jobs, creating, deleting, deviceVars, faults, spoiled>>

Step(r) ==
    \/ FireLoads(r) \/ GetActions(r) \/ LoadGroup(r) \/ Settle(r) \/ PushResults(r)
    \/ \E i \in Indices : ActionAnswers(r, i)

Table(id) ==
    \/ CreateCommit(id) \/ CreateSchedules(id) \/ CreateFails(id)
    \/ DeleteUnschedules(id) \/ DeleteCommits(id) \/ DeleteFails(id)

Next ==
    \/ \E id \in Scenarios : Table(id)
    \/ \E r \in Runs, id \in Scenarios : Fire(r, id) \/ RestRun(r, id) \/ VoiceRun(r, id)
    \/ \E r \in Runs : Step(r) \/ BreaksOff(r)
    \/ \E d \in Devices : DeleteDevice(d)
    \/ Crash \/ Boot

Spec == Init /\ [][Next]_vars

-----------------------------------------------------------------------------
(* Properties.                                                             *)

PhaseOf(r) ==
    CASE run[r].at \in {"none", "loading", "starting"} -> "waiting"
      [] run[r].at \in {"ready", "acting", "pushing"} -> "open"
      [] run[r].at = "done" -> "told"
      [] OTHER -> "dropped"
GroupsOf(acts) == [i \in DOMAIN acts |-> acts[i].group]
AnswersOf(r) ==
    LET settled == run[r].results IN
    [i \in DOMAIN settled \cup DOMAIN run[r].outcomes |->
        IF i \in DOMAIN settled THEN settled[i] ELSE run[r].outcomes[i]]

Staged(r) == INSTANCE StagedRun WITH
    Alone <- NoGroup,
    Labels <- {GroupsOf(acts) : acts \in {<<>>} \cup Range(Plan)},
    phase <- PhaseOf(r),
    plan <- GroupsOf(run[r].acts),
    begun <- DOMAIN AnswersOf(r) \cup run[r].pending,
    answers <- AnswersOf(r)

\* Groups are barriers and the report is the run: whatever runs beside it and whatever its
\* actions answer, a run begins group after group and pushes every answer in its place.
\* (This is Staged(r)!StagedSpec for every run r: its variables depend on run only.)
ImplementsStages ==
    /\ \A r \in Runs : Staged(r)!StagedInit
    /\ [][\A r \in Runs : [Staged(r)!StagedNext]_(Staged(r)!stagedVars)]_run

\* A scenario that is switched on and in no request's hands is scheduled by its (last)
\* trigger, unless one of the failures named by spoiled hit it since the last restart.
JobsFollowRows ==
    serverUp =>
        \A id \in Scenarios \ (creating \cup deleting \cup spoiled) :
            Stored(id) =>
                jobs[id] = IF enabled[id] /\ triggers[id] # <<>>
                           THEN triggers[id][Len(triggers[id])] ELSE NoJob

\* Once a scenario is deleted no run of it that had not read its actions switches
\* anything: not by a job that create added behind the delete's back, and not by a run
\* that had its row already.
DeletedStaysQuiet ==
    [][\A r \in Runs :
          (/\ run[r].at \in {"none", "loading", "starting"}
           /\ run'[r].of \in Scenarios /\ rows[run'[r].of] = "gone")
              => run'[r].acts = <<>> /\ run'[r].at # "acting"]_vars

\* The flags a group leaves are those of its answers: a device nobody else has written
\* since the group loaded it is online exactly if its last action in the group succeeded.
FlagsFollowAnswers ==
    [][\A r \in Runs :
          (/\ run[r].at = "acting" /\ run'[r].at \in {"ready", "pushing"}) =>
              \A d \in run[r].found :
                 (d \in online <=> d \in run[r].seen) =>
                     (d \in online' <=> Flag(run[r].acts, run[r].outcomes, d))]_vars

-----------------------------------------------------------------------------
(* What the documents say and the code does not do.                        *)

\* sync_schedule: the schedule triggers of a scenario become jobs, each of them.
TriggersAreScheduled ==
    serverUp =>
        \A id \in Scenarios \ (creating \cup deleting \cup spoiled) :
            Ready(id) => \A cron \in Range(triggers[id]) : jobs[id] = cron
=============================================================================
