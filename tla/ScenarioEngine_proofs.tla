------------------------ MODULE ScenarioEngine_proofs ------------------------
(***************************************************************************)
(* What holds of ScenarioEngine for any scenarios, triggers, devices and   *)
(* runs: that the jobs follow the table, that a deleted scenario stays     *)
(* quiet, and that the flags of a group are those of its answers.          *)
(***************************************************************************)
EXTENDS ScenarioEngine, FiniteSetTheorems, WellFoundedInduction, TLAPS

-----------------------------------------------------------------------------
(* The jobs follow the table.                                              *)

\* A list that has no bad crontab gives its scenario the last one.
LEMMA LastOfGood ==
    ASSUME NEW list, list \in Seq(Range(list)), ~Raises(list), list # <<>>
    PROVE  LastCron(list) = list[Len(list)]
  <1>1. Len(list) \in Nat \ {0} /\ DOMAIN list = 1 .. Len(list)
    OBVIOUS
  <1>2. Parsed(list) = 1 .. Len(list)
    BY <1>1 DEF Raises
  <1>3. Cardinality(1 .. Len(list)) = Len(list)
    BY <1>1, FS_Interval
  <1> QED BY <1>1, <1>2, <1>3 DEF LastCron

\* An empty list gives it none.
LEMMA LastOfNone == LastCron(<<>>) = NoJob
  BY DEF LastCron, Parsed

\* The columns and the jobs of the table.
TableTyped ==
    /\ enabled \in [Scenarios -> BOOLEAN]
    /\ triggers \in [Scenarios -> TriggerLists \cup {<<>>}]
    /\ rows \in [Scenarios -> {"unborn", "stored", "gone"}]
    /\ DOMAIN jobs = Scenarios /\ jobs = [id \in Scenarios |-> jobs[id]]

\* The job a stored row should have.
Due(id) == IF enabled[id] /\ triggers[id] # <<>> THEN triggers[id][Len(triggers[id])] ELSE NoJob

\* sync_schedule gives a row that does not raise the job it should have.
LEMMA SyncIsDue ==
    ASSUME TableTyped, NEW id \in Scenarios, ~Spoils(id)
    PROVE  JobOf(id) = Due(id)
  <1>1. CASE ~enabled[id]
    BY <1>1 DEF JobOf, Due
  <1>2. CASE enabled[id] /\ triggers[id] = <<>>
    BY <1>2, LastOfNone DEF JobOf, Due
  <1>3. CASE enabled[id] /\ triggers[id] # <<>>
    <2>1. triggers[id] \in Seq(Range(triggers[id]))
      BY <1>3, ScenarioConstants DEF TableTyped
    <2>2. ~Raises(triggers[id])
      BY <1>3 DEF Spoils
    <2> QED BY <1>3, <2>1, <2>2, LastOfGood DEF JobOf, Due
  <1> QED BY <1>1, <1>2, <1>3

LEMMA TableInit == Init => TableTyped
  BY DEF Init, TableTyped

LEMMA TableStep == TableTyped /\ [Next]_vars => TableTyped'
  <1> SUFFICES ASSUME TableTyped, [Next]_vars PROVE TableTyped'
    OBVIOUS
  <1> USE DEF TableTyped, tableVars
  <1>1. ASSUME NEW id \in Scenarios, CreateCommit(id)
        PROVE  TableTyped'
    <2>1. PICK list \in Triggers[id] : triggers' = [triggers EXCEPT ![id] = list]
      BY <1>1 DEF CreateCommit
    <2>2. list \in TriggerLists
      BY <2>1 DEF TriggerLists
    <2>3. PICK b \in BOOLEAN : enabled' = [enabled EXCEPT ![id] = b]
      BY <1>1 DEF CreateCommit
    <2> QED BY <1>1, <2>1, <2>2, <2>3 DEF CreateCommit
  <1>2. ASSUME NEW id \in Scenarios, CreateSchedules(id)
        PROVE  TableTyped'
    BY <1>2 DEF CreateSchedules
  <1>3. ASSUME NEW id \in Scenarios, CreateFails(id) \/ DeleteFails(id)
        PROVE  TableTyped'
    BY <1>3 DEF CreateFails, DeleteFails
  <1>4. ASSUME NEW id \in Scenarios, DeleteUnschedules(id)
        PROVE  TableTyped'
    BY <1>4 DEF DeleteUnschedules
  <1>5. ASSUME NEW id \in Scenarios, DeleteCommits(id)
        PROVE  TableTyped'
    BY <1>5 DEF DeleteCommits
  <1>6. CASE Crash
    BY <1>6 DEF Crash
  <1>7. CASE Boot
    BY <1>7 DEF Boot, Restore
  <1>8. ASSUME NEW r \in Runs, NEW id \in Scenarios, Fire(r, id) \/ RestRun(r, id) \/ VoiceRun(r, id)
        PROVE  TableTyped'
    BY <1>8 DEF Fire, RestRun, VoiceRun
  <1>9. ASSUME NEW r \in Runs, Step(r) \/ BreaksOff(r)
        PROVE  TableTyped'
    BY <1>9 DEF Step, FireLoads, GetActions, LoadGroup, Settle, PushResults, ActionAnswers, BreaksOff
  <1>10. ASSUME NEW d \in Devices, DeleteDevice(d)
         PROVE  TableTyped'
    BY <1>10 DEF DeleteDevice
  <1>11. CASE UNCHANGED vars
    BY <1>11 DEF vars
  <1> QED
    BY <1>1, <1>2, <1>3, <1>4, <1>5, <1>6, <1>7, <1>8, <1>9, <1>10, <1>11 DEF Next, Table

\* JobsFollowRows, of one scenario.
Follows(id) ==
    serverUp /\ id \notin creating \cup deleting \cup spoiled /\ Stored(id)
        => jobs[id] = Due(id)

LEMMA FollowsIsEnough == (\A id \in Scenarios : Follows(id)) <=> JobsFollowRows
  BY DEF Follows, JobsFollowRows, Due

LEMMA FollowsInit == Init => \A id \in Scenarios : Follows(id)
  BY DEF Init, Follows, Stored

\* A step that does not touch the row of a scenario, its job or the requests for it.
LEMMA FollowsKept ==
    ASSUME NEW id \in Scenarios, Follows(id), serverUp' = serverUp,
           rows'[id] = rows[id], enabled'[id] = enabled[id], triggers'[id] = triggers[id],
           jobs'[id] = jobs[id],
           id \in creating => id \in creating' \cup deleting' \cup spoiled',
           id \in deleting => id \in creating' \cup deleting' \cup spoiled',
           id \in spoiled => id \in creating' \cup deleting' \cup spoiled'
    PROVE  Follows(id)'
  BY DEF Follows, Stored, Due

LEMMA FollowsStep ==
    TableTyped /\ (\A id \in Scenarios : Follows(id)) /\ [Next]_vars
        => (\A id \in Scenarios : Follows(id))'
  <1> SUFFICES ASSUME TableTyped, \A id \in Scenarios : Follows(id), [Next]_vars,
                      NEW id \in Scenarios
               PROVE  Follows(id)'
    OBVIOUS
  <1>0. Follows(id)
    OBVIOUS
  <1> USE DEF tableVars
  <1>1. ASSUME NEW new \in Scenarios, CreateCommit(new)
        PROVE  Follows(id)'
    <2>1. CASE id = new
      BY <1>1, <2>1 DEF CreateCommit, Follows
    <2>2. CASE id # new
      <3>1. rows'[id] = rows[id] /\ enabled'[id] = enabled[id] /\ triggers'[id] = triggers[id]
        BY <1>1, <2>2 DEF CreateCommit, TableTyped
      <3> QED BY <1>0, <1>1, <3>1, FollowsKept DEF CreateCommit
    <2> QED BY <2>1, <2>2
  <1>2. ASSUME NEW new \in Scenarios, CreateSchedules(new)
        PROVE  Follows(id)'
    <2>1. CASE id # new
      <3>1. jobs'[id] = jobs[id] /\ (id \in spoiled => id \in spoiled')
        BY <1>2, <2>1 DEF CreateSchedules, TableTyped
      <3> QED BY <1>0, <1>2, <2>1, <3>1, FollowsKept DEF CreateSchedules
    <2>2. CASE id = new /\ Stored(id) /\ ~Spoils(id)
      <3>1. jobs'[id] = JobOf(id) /\ UNCHANGED <<rows, enabled, triggers>>
        BY <1>2, <2>2 DEF CreateSchedules, TableTyped
      <3>2. JobOf(id) = Due(id) /\ Due(id)' = Due(id)
        BY <2>2, <3>1, SyncIsDue DEF Due
      <3> QED BY <3>1, <3>2 DEF Follows
    <2>3. CASE id = new /\ Stored(id) /\ Spoils(id)
      BY <1>2, <2>3 DEF CreateSchedules, Follows
    <2>4. CASE id = new /\ ~Stored(id)
      BY <1>2, <2>4 DEF CreateSchedules, Follows, Stored
    <2> QED BY <2>1, <2>2, <2>3, <2>4
  <1>3. ASSUME NEW new \in Scenarios, CreateFails(new)
        PROVE  Follows(id)'
    <2>1. CASE id = new
      BY <1>3, <2>1 DEF CreateFails, Follows, Stored
    <2>2. CASE id # new
      BY <1>0, <1>3, <2>2, FollowsKept DEF CreateFails
    <2> QED BY <2>1, <2>2
  <1>4. ASSUME NEW old \in Scenarios, DeleteUnschedules(old)
        PROVE  Follows(id)'
    <2>1. CASE id = old
      BY <1>4, <2>1 DEF DeleteUnschedules, Follows
    <2>2. CASE id # old
      <3>1. jobs'[id] = jobs[id]
        BY <1>4, <2>2 DEF DeleteUnschedules, TableTyped
      <3> QED BY <1>0, <1>4, <3>1, FollowsKept DEF DeleteUnschedules
    <2> QED BY <2>1, <2>2
  <1>5. ASSUME NEW old \in Scenarios, DeleteCommits(old)
        PROVE  Follows(id)'
    <2>1. CASE id = old
      BY <1>5, <2>1 DEF DeleteCommits, Follows, Stored, TableTyped
    <2>2. CASE id # old
      <3>1. rows'[id] = rows[id] /\ enabled'[id] = enabled[id] /\ triggers'[id] = triggers[id]
        BY <1>5, <2>2 DEF DeleteCommits, TableTyped
      <3> QED BY <1>0, <1>5, <2>2, <3>1, FollowsKept DEF DeleteCommits
    <2> QED BY <2>1, <2>2
  <1>6. ASSUME NEW old \in Scenarios, DeleteFails(old)
        PROVE  Follows(id)'
    <2>1. CASE id = old
      BY <1>6, <2>1 DEF DeleteFails, Follows, Stored
    <2>2. CASE id # old
      BY <1>0, <1>6, <2>2, FollowsKept DEF DeleteFails
    <2> QED BY <2>1, <2>2
  <1>7. CASE Crash
    BY <1>7 DEF Crash, Follows
  <1>8. CASE Boot
    <2>1. UNCHANGED <<rows, enabled, triggers>> /\ Due(id)' = Due(id)
      BY <1>8 DEF Boot, Due
    <2>2. ASSUME NEW reached, Restore(reached), Stored(id), id \notin spoiled'
          PROVE  jobs'[id] = Due(id)
      <3>1. CASE Ready(id)
        <4>1. id \in reached /\ ~Spoils(id)
          BY <2>2, <3>1 DEF Restore
        <4> QED BY <2>2, <4>1, SyncIsDue DEF Restore
      <3>2. CASE ~Ready(id)
        BY <2>2, <3>2 DEF Restore, Ready, JobOf, Due
      <3> QED BY <3>1, <3>2
    <2>3. \E reached : Restore(reached)
      BY <1>8 DEF Boot
    <2> QED BY <2>1, <2>2, <2>3 DEF Follows, Stored
  <1>9. ASSUME NEW r \in Runs, NEW other \in Scenarios,
               Fire(r, other) \/ RestRun(r, other) \/ VoiceRun(r, other)
        PROVE  Follows(id)'
    BY <1>0, <1>9, FollowsKept DEF Fire, RestRun, VoiceRun
  <1>10. ASSUME NEW r \in Runs, Step(r) \/ BreaksOff(r)
         PROVE  Follows(id)'
    BY <1>0, <1>10, FollowsKept
       DEF Step, FireLoads, GetActions, LoadGroup, Settle, PushResults, ActionAnswers, BreaksOff
  <1>11. ASSUME NEW d \in Devices, DeleteDevice(d)
         PROVE  Follows(id)'
    BY <1>0, <1>11, FollowsKept DEF DeleteDevice
  <1>12. CASE UNCHANGED vars
    BY <1>0, <1>12, FollowsKept DEF vars
  <1> QED
    BY <1>1, <1>2, <1>3, <1>4, <1>5, <1>6, <1>7, <1>8, <1>9, <1>10, <1>11, <1>12
       DEF Next, Table

\* Whatever creates, deletes, crashes and restores come together, a scenario that no
\* request holds and no failure has hit is scheduled by its last trigger, or not at all
\* when it is switched off.
THEOREM JobsFollowTheTable == Spec => []JobsFollowRows
  <1> DEFINE Inv == TableTyped /\ \A id \in Scenarios : Follows(id)
  <1>1. Init => Inv
    BY TableInit, FollowsInit
  <1>2. Inv /\ [Next]_vars => Inv'
    BY TableStep, FollowsStep
  <1>3. Inv => JobsFollowRows
    BY FollowsIsEnough
  <1> QED BY <1>1, <1>2, <1>3, PTL DEF Spec

-----------------------------------------------------------------------------
(* What the runs do.                                                       *)

\* The run of a task is a record of its fields.
Fields == {"at", "of", "by", "acts", "results", "pending", "outcomes", "found", "seen"}
RunsShaped == DOMAIN run = Runs /\ \A r \in Runs : DOMAIN run[r] = Fields

\* A run that has not read its actions has none.
ActsComeLate == \A r \in Runs : run[r].at \in {"none", "loading", "starting"} => run[r].acts = <<>>

RunInv == RunsShaped /\ ActsComeLate

LEMMA RunInit == Init => RunInv
  BY DEF Init, RunInv, RunsShaped, ActsComeLate, Unused, Fields

\* What each step of a run makes of it.
LEMMA RunStep == RunInv /\ [Next]_vars => RunInv'
  <1> SUFFICES ASSUME RunInv, [Next]_vars PROVE RunInv'
    OBVIOUS
  <1> USE DEF RunInv, RunsShaped, ActsComeLate, Fields
  <1>1. ASSUME NEW r \in Runs, NEW id \in Scenarios, Fire(r, id) \/ RestRun(r, id) \/ VoiceRun(r, id)
        PROVE  RunInv'
    BY <1>1 DEF Fire, RestRun, VoiceRun, Begin, Unused
  <1>2. ASSUME NEW r \in Runs, FireLoads(r)
        PROVE  RunInv'
    BY <1>2 DEF FireLoads, Unused
  <1>3. ASSUME NEW r \in Runs, GetActions(r)
        PROVE  RunInv'
    BY <1>3 DEF GetActions, NextPlace
  <1>4. ASSUME NEW r \in Runs, LoadGroup(r)
        PROVE  RunInv'
    BY <1>4 DEF LoadGroup
  <1>5. ASSUME NEW r \in Runs, NEW i \in Indices, ActionAnswers(r, i)
        PROVE  RunInv'
    BY <1>5 DEF ActionAnswers
  <1>6. ASSUME NEW r \in Runs, Settle(r)
        PROVE  RunInv'
    <2>1. \/ \E results : run' = [run EXCEPT ![r] = AfterGroup(run[r], results)]
          \/ run' = [run EXCEPT ![r] = [Unused EXCEPT !.at = "quit"]]
      BY <1>6 DEF Settle
    <2>2. ASSUME NEW results, run' = [run EXCEPT ![r] = AfterGroup(run[r], results)]
          PROVE  RunInv'
      <3>1. AfterGroup(run[r], results).at \in {"pushing", "ready"}
        BY DEF AfterGroup, NextPlace
      <3>2. DOMAIN AfterGroup(run[r], results) = Fields
        BY DEF AfterGroup
      <3> QED BY <2>2, <3>1, <3>2
    <2>3. CASE run' = [run EXCEPT ![r] = [Unused EXCEPT !.at = "quit"]]
      BY <2>3 DEF Unused
    <2> QED BY <2>1, <2>2, <2>3
  <1>7. ASSUME NEW r \in Runs, PushResults(r) \/ BreaksOff(r)
        PROVE  RunInv'
    BY <1>7 DEF PushResults, BreaksOff, Unused
  <1>8. CASE Crash
    BY <1>8 DEF Crash, Unused
  <1>9. CASE UNCHANGED run
    BY <1>9
  <1>10. ASSUME \/ \E id \in Scenarios : Table(id)
                \/ \E d \in Devices : DeleteDevice(d)
                \/ Boot
                \/ UNCHANGED vars
         PROVE  UNCHANGED run
    BY <1>10 DEF Table, CreateCommit, CreateSchedules, CreateFails, DeleteUnschedules,
                 DeleteCommits, DeleteFails, DeleteDevice, Boot, vars
  <1> QED
    BY <1>1, <1>2, <1>3, <1>4, <1>5, <1>6, <1>7, <1>8, <1>9, <1>10 DEF Next, Step

\* A run starts acting, or reads its actions, of a row that is there.
Quiet == \A r \in Runs :
    (/\ run[r].at \in {"none", "loading", "starting"}
     /\ run'[r].of \in Scenarios /\ rows[run'[r].of] = "gone")
        => run'[r].acts = <<>> /\ run'[r].at # "acting"

LEMMA QuietStep == RunInv /\ [Next]_vars => Quiet
  <1> SUFFICES ASSUME RunInv, [Next]_vars, NEW r \in Runs,
                      run[r].at \in {"none", "loading", "starting"},
                      run'[r].of \in Scenarios, rows[run'[r].of] = "gone"
               PROVE  run'[r].acts = <<>> /\ run'[r].at # "acting"
    BY DEF Quiet
  <1> DEFINE Goal == run'[r].acts = <<>> /\ run'[r].at # "acting"
  <1>0. /\ DOMAIN run = Runs /\ \A q \in Runs : DOMAIN run[q] = Fields
        /\ run[r].acts = <<>>
    BY DEF RunInv, RunsShaped, ActsComeLate
  <1>1. ASSUME NEW q \in Runs, NEW id \in Scenarios, Fire(q, id) \/ RestRun(q, id) \/ VoiceRun(q, id)
        PROVE  Goal
    BY <1>0, <1>1 DEF Fire, RestRun, VoiceRun, Begin, Unused
  <1>2. ASSUME NEW q \in Runs, FireLoads(q)
        PROVE  Goal
    BY <1>0, <1>2 DEF FireLoads, Unused, Fields
  <1>3. ASSUME NEW q \in Runs, GetActions(q)
        PROVE  Goal
    <2>1. CASE q # r
      BY <1>0, <1>3, <2>1 DEF GetActions
    <2>2. CASE q = r
      <3>1. run'[r].of = run[r].of
        BY <1>0, <1>3, <2>2 DEF GetActions, Fields
      <3>2. ActionsOf(run[r].of) = <<>>
        BY <3>1 DEF ActionsOf, Stored
      <3> QED BY <1>0, <1>3, <2>2, <3>2 DEF GetActions, NextPlace, Fields
    <2> QED BY <2>1, <2>2
  <1>4. ASSUME NEW q \in Runs,
               LoadGroup(q) \/ Settle(q) \/ (\E i \in Indices : ActionAnswers(q, i))
        PROVE  Goal
    <2>1. q # r
      BY <1>4 DEF LoadGroup, Settle, ActionAnswers
    <2>2. run'[r] = run[r]
      BY <1>0, <1>4, <2>1 DEF LoadGroup, Settle, ActionAnswers
    <2> QED BY <1>0, <2>2
  <1>5. ASSUME NEW q \in Runs, PushResults(q) \/ BreaksOff(q)
        PROVE  Goal
    BY <1>0, <1>5 DEF PushResults, BreaksOff, Unused
  <1>6. CASE Crash
    BY <1>0, <1>6 DEF Crash, Unused
  <1>7. CASE UNCHANGED run
    BY <1>0, <1>7
  <1>8. ASSUME \/ \E id \in Scenarios : Table(id)
               \/ \E d \in Devices : DeleteDevice(d)
               \/ Boot
               \/ UNCHANGED vars
        PROVE  UNCHANGED run
    BY <1>8 DEF Table, CreateCommit, CreateSchedules, CreateFails, DeleteUnschedules,
                DeleteCommits, DeleteFails, DeleteDevice, Boot, vars
  <1> QED
    BY <1>1, <1>2, <1>3, <1>4, <1>5, <1>6, <1>7, <1>8 DEF Next, Step

\* Once a scenario is deleted, no run of it that had not read its actions switches
\* anything, by whatever job or request it was started.
THEOREM DeletedScenariosStayQuiet == Spec => DeletedStaysQuiet
  <1>1. RunInv /\ [Next]_vars => Quiet
    BY QuietStep
  <1> QED BY <1>1, RunInit, RunStep, PTL DEF Spec, DeletedStaysQuiet, Quiet

-----------------------------------------------------------------------------
(* The flags of a group are those of its answers.                          *)

\* What a run that settles its group leaves of a device it loaded.
FlagsRight(r) ==
    (/\ run[r].at = "acting" /\ run'[r].at \in {"ready", "pushing"}) =>
        \A d \in run[r].found :
            (d \in online <=> d \in run[r].seen) =>
                (d \in online' <=> Flag(run[r].acts, run[r].outcomes, d))

\* The flags that are written are the ones that differ from what was loaded, so a device
\* that nobody else has written since has the flag of its answers afterwards.
LEMMA SettleFlags ==
    ASSUME NEW r \in Runs, Settle(r), run'[r].at # "quit", RunInv,
           NEW d \in run[r].found, d \in online <=> d \in run[r].seen
    PROVE  d \in online' <=> Flag(run[r].acts, run[r].outcomes, d)
  <1> DEFINE good == {e \in run[r].found : Flag(run[r].acts, run[r].outcomes, e)}
             written == (good \ run[r].seen) \cup (run[r].seen \ good)
  <1>1. Flagged(good, run[r].seen) = good
    BY DEF Flagged
  <1>2. CASE written \subseteq present
    <2>1. online' = (online \ written) \cup (written \cap good)
      BY <1>1, <1>2 DEF Settle
    <2>2. d \in good <=> Flag(run[r].acts, run[r].outcomes, d)
      OBVIOUS
    <2> HIDE DEF good
    <2> QED BY <2>1, <2>2
  <1>3. CASE ~(written \subseteq present)
    <2>1. run' = [run EXCEPT ![r] = [Unused EXCEPT !.at = "quit"]]
      BY <1>1, <1>3 DEF Settle
    <2> QED BY <2>1 DEF RunInv, RunsShaped, Unused
  <1> QED BY <1>2, <1>3

LEMMA FlagStep == RunInv /\ [Next]_vars => \A r \in Runs : FlagsRight(r)
  <1> SUFFICES ASSUME RunInv, [Next]_vars, NEW r \in Runs,
                      run[r].at = "acting", run'[r].at \in {"ready", "pushing"}
               PROVE  FlagsRight(r)
    BY DEF FlagsRight
  <1>0. DOMAIN run = Runs /\ \A q \in Runs : DOMAIN run[q] = Fields
    BY DEF RunInv, RunsShaped
  <1>1. CASE Settle(r)
    BY <1>1, SettleFlags DEF FlagsRight
  <1>2. ASSUME NEW q \in Runs, q # r, Step(q) \/ BreaksOff(q)
        PROVE  FALSE
    <2>1. run'[r] = run[r]
      BY <1>0, <1>2 DEF Step, FireLoads, GetActions, LoadGroup, Settle, PushResults,
                        ActionAnswers, BreaksOff
    <2> QED BY <2>1
  <1>3. ASSUME NEW i \in Indices, ActionAnswers(r, i)
        PROVE  FALSE
    BY <1>0, <1>3 DEF ActionAnswers, Fields
  <1>4. CASE BreaksOff(r)
    BY <1>0, <1>4 DEF BreaksOff, Unused
  <1>5. CASE FireLoads(r) \/ GetActions(r) \/ LoadGroup(r) \/ PushResults(r)
    BY <1>5 DEF FireLoads, GetActions, LoadGroup, PushResults
  <1>6. ASSUME NEW q \in Runs, NEW id \in Scenarios, Fire(q, id) \/ RestRun(q, id) \/ VoiceRun(q, id)
        PROVE  FALSE
    <2>1. q # r
      BY <1>6 DEF Fire, RestRun, VoiceRun
    <2>2. run'[r] = run[r]
      BY <1>0, <1>6, <2>1 DEF Fire, RestRun, VoiceRun, Begin
    <2> QED BY <2>2
  <1>7. CASE Crash
    BY <1>0, <1>7 DEF Crash, Unused, Active
  <1>8. CASE UNCHANGED run
    BY <1>8
  <1>9. ASSUME \/ \E id \in Scenarios : Table(id)
               \/ \E d \in Devices : DeleteDevice(d)
               \/ Boot
               \/ UNCHANGED vars
        PROVE  UNCHANGED run
    BY <1>9 DEF Table, CreateCommit, CreateSchedules, CreateFails, DeleteUnschedules,
                DeleteCommits, DeleteFails, DeleteDevice, Boot, vars
  <1> QED
    BY <1>1, <1>2, <1>3, <1>4, <1>5, <1>6, <1>7, <1>8, <1>9 DEF Next, Step

\* Whatever the actions of a group answer and whoever else commands its devices, the run
\* leaves each device that nobody else wrote with the flag of its last answer.
THEOREM FlagsOfAnswers == Spec => FlagsFollowAnswers
  <1> DEFINE Right == \A r \in Runs : FlagsRight(r)
  <1>1. RunInv /\ [Next]_vars => Right
    BY FlagStep
  <1>2. Right <=> \A r \in Runs :
          (/\ run[r].at = "acting" /\ run'[r].at \in {"ready", "pushing"}) =>
              \A d \in run[r].found :
                 (d \in online <=> d \in run[r].seen) =>
                     (d \in online' <=> Flag(run[r].acts, run[r].outcomes, d))
    BY DEF FlagsRight
  <1> QED BY <1>1, <1>2, RunInit, RunStep, PTL DEF Spec, FlagsFollowAnswers, FlagsRight
-----------------------------------------------------------------------------
(* Stretches of neighbours.                                                *)

\* A set of naturals that is not empty has a least element.
LEMMA LeastNatural ==
    ASSUME NEW S, S \subseteq Nat, S # {}
    PROVE  \E x \in S : \A y \in S : x <= y
  <1>1. PICK x \in S : \A y \in S : ~ (<<y, x>> \in OpToRel(<, Nat))
    BY NatLessThanWellFounded, WFMin
  <1>2. \A y \in S : ~ (y < x)
    BY <1>1 DEF OpToRel
  <1> QED BY <1>2

\* What holds with a number also of the smaller ones holds up to some number.
LEMMA Stretch ==
    ASSUME NEW lo \in Nat, NEW n \in Nat, NEW S, S \subseteq lo .. n, lo \in S,
           \A k \in S : \A m \in lo .. k : m \in S
    PROVE  \E hi \in lo .. n : S = lo .. hi
  <1> DEFINE T == {k \in Nat : k > lo /\ k \notin S}
  <1>1. n + 1 \in T
    OBVIOUS
  <1>2. PICK m \in T : \A k \in T : m <= k
    BY <1>1, LeastNatural
  <1>3. m - 1 \in lo .. n
    BY <1>1, <1>2
  <1>4. \A k \in lo .. m - 1 : k \in S
    BY <1>2
  <1>5. \A k \in S : k < m
    <2> SUFFICES ASSUME NEW k \in S, m <= k PROVE FALSE
      OBVIOUS
    <2>1. m \in lo .. k
      BY <1>2
    <2> QED BY <1>2, <2>1
  <1>6. S \subseteq lo .. m - 1
    BY <1>2, <1>5
  <1>7. S = lo .. m - 1
    BY <1>4, <1>6
  <1> QED BY <1>3, <1>7

\* The group that begins with an action is a stretch of the plan.
LEMMA GroupIsStretch ==
    ASSUME NEW acts \in Seq(Actions), NEW lo \in 1 .. Len(acts)
    PROVE  \E hi \in lo .. Len(acts) : GroupFrom(acts, lo) = lo .. hi
  <1>1. GroupFrom(acts, lo) \subseteq lo .. Len(acts) /\ lo \in GroupFrom(acts, lo)
    BY DEF GroupFrom
  <1>2. \A k \in GroupFrom(acts, lo) : \A m \in lo .. k : m \in GroupFrom(acts, lo)
    BY DEF GroupFrom
  <1> HIDE DEF GroupFrom
  <1> QED BY <1>1, <1>2, Stretch

-----------------------------------------------------------------------------
(* Types.                                                                  *)

\* The last crontab of a list that is read up to a bad one is none that is bad.
LEMMA LastIsCron ==
    ASSUME NEW list \in TriggerLists
    PROVE  LastCron(list) \in Crons \cup {NoJob}
  <1>1. list \in Seq(Range(list))
    BY ScenarioConstants
  <1>2. Len(list) \in Nat /\ DOMAIN list = 1 .. Len(list)
    BY <1>1
  <1>3. CASE Parsed(list) = {}
    BY <1>3 DEF LastCron
  <1>4. CASE Parsed(list) # {}
    <2>1. Parsed(list) \subseteq 1 .. Len(list)
      BY <1>2 DEF Parsed
    <2>2. \A k \in Parsed(list) : \A m \in 1 .. k : m \in Parsed(list)
      BY <1>2 DEF Parsed
    <2>3. 1 \in Parsed(list)
      BY <1>4, <2>1, <2>2
    <2>4. PICK hi \in 1 .. Len(list) : Parsed(list) = 1 .. hi
      BY <1>2, <2>1, <2>2, <2>3, Stretch
    <2>5. Cardinality(Parsed(list)) = hi
      BY <2>4, FS_Interval
    <2>6. hi \in Parsed(list)
      BY <2>4
    <2>7. list[hi] # BadCron /\ list[hi] \in Range(list)
      BY <1>2, <2>6 DEF Parsed, Range
    <2>8. list[hi] \in Crons
      BY <2>7 DEF Crons
    <2> QED BY <1>4, <2>5, <2>8 DEF LastCron
  <1> QED BY <1>3, <1>4

LEMMA JobIsCron ==
    ASSUME TableTyped, NEW id \in Scenarios
    PROVE  JobOf(id) \in Crons \cup {NoJob}
  <1>1. triggers[id] \in TriggerLists \cup {<<>>}
    BY DEF TableTyped
  <1> QED BY <1>1, LastIsCron, LastOfNone DEF JobOf

\* Everything but the runs.
TypedButRuns ==
    /\ serverUp \in BOOLEAN
    /\ jobs \in [Scenarios -> Crons \cup {NoJob}]
    /\ creating \in SUBSET Scenarios /\ deleting \in SUBSET Scenarios
    /\ present \in SUBSET Devices /\ online \in SUBSET Devices
    /\ faults \in 0 .. MaxFaults
    /\ spoiled \in SUBSET Scenarios

\* A run, by the place where it is.  In a group, the actions in hand are the stretch that
\* begins behind the results; outside of one there is nothing in hand.
RunOK(task) ==
    /\ DOMAIN task = Fields
    /\ task.at \in Places /\ task.by \in {"nobody", "schedule", "request"}
    /\ task.at \in Active => task.of \in Scenarios
    /\ task.acts \in {<<>>} \cup Range(Plan)
    /\ task.results \in Seq(BOOLEAN)
    /\ task.at \notin {"ready", "acting", "pushing"} => task.acts = <<>> /\ task.results = <<>>
    /\ task.at \in {"ready", "acting"} => Len(task.results) < Len(task.acts)
    /\ task.at = "pushing" => Len(task.results) = Len(task.acts)
    /\ task.at = "acting" =>
          task.pending \cup DOMAIN task.outcomes = GroupFrom(task.acts, Len(task.results) + 1)
    /\ task.at # "acting" =>
          task.pending = {} /\ task.outcomes = <<>> /\ task.found = {} /\ task.seen = {}
    /\ task.pending \cap DOMAIN task.outcomes = {}
    /\ \A j \in DOMAIN task.outcomes : task.outcomes[j] \in BOOLEAN
    /\ task.seen \subseteq task.found /\ task.found \subseteq Devices

RunsOK == DOMAIN run = Runs /\ \A r \in Runs : RunOK(run[r])

ScenarioInv == TableTyped /\ TypedButRuns /\ RunsOK

\* What is planned is a list of actions.
LEMMA PlansAreLists == \A acts \in {<<>>} \cup Range(Plan) : acts \in Seq(Actions)
  <1>1. \A id \in DOMAIN Plan : Plan[id] \in Seq(Actions)
    BY ScenarioConstants
  <1>2. <<>> \in Seq(Actions)
    OBVIOUS
  <1> HIDE DEF Actions
  <1> QED BY <1>1, <1>2 DEF Range

LEMMA UnusedIsOK ==
    ASSUME NEW at \in {"none", "done", "quit"}
    PROVE  RunOK([Unused EXCEPT !.at = at])
  BY DEF RunOK, Unused, Fields, Places, Active

LEMMA BegunIsOK ==
    ASSUME NEW id \in Scenarios, NEW at \in {"loading", "starting"},
           NEW by \in {"schedule", "request"}
    PROVE  RunOK([Unused EXCEPT !.at = at, !.of = id, !.by = by])
  BY DEF RunOK, Unused, Fields, Places, Active

LEMMA RunPut ==
    ASSUME RunsOK, NEW r \in Runs, NEW task, RunOK(task), run' = [run EXCEPT ![r] = task]
    PROVE  RunsOK'
  <1>1. DOMAIN run' = Runs /\ \A q \in Runs : run'[q] = IF q = r THEN task ELSE run[q]
    BY DEF RunsOK
  <1>2. \A q \in Runs : RunOK(run'[q])
    BY <1>1 DEF RunsOK
  <1>3. (\A q \in Runs : RunOK(run[q]))' <=> \A q \in Runs : RunOK(run'[q])
    BY DEF RunOK
  <1> QED BY <1>1, <1>2, <1>3 DEF RunsOK

\* A run reads the actions of a row, or none.
LEMMA ActionsAreRead ==
    ASSUME ScenarioInv, NEW r \in Runs, GetActions(r)
    PROVE  RunsOK'
  <1> DEFINE acts == ActionsOf(run[r].of)
             task == [run[r] EXCEPT !.acts = acts, !.at = NextPlace(acts, <<>>)]
  <1>1. RunOK(run[r]) /\ run[r].at = "starting"
    BY DEF ScenarioInv, RunsOK, GetActions
  <1>2. acts \in {<<>>} \cup Range(Plan) /\ Len(acts) \in Nat
    <2>1. run[r].of \in DOMAIN Plan
      BY <1>1, ScenarioConstants DEF RunOK, Active
    <2>2. acts \in {<<>>} \cup Range(Plan)
      BY <2>1 DEF ActionsOf, Range
    <2> QED BY <2>2, PlansAreLists
  <1>3. run' = [run EXCEPT ![r] = task]
    BY <1>1 DEF GetActions, ScenarioInv, RunsOK, RunOK, Fields
  <1> HIDE DEF acts
  <1>4. RunOK(task)
    BY <1>1, <1>2 DEF RunOK, NextPlace, Fields, Places, Active
  <1> QED BY <1>3, <1>4, RunPut DEF ScenarioInv

\* A group is taken in hand.
LEMMA GroupIsLoaded ==
    ASSUME ScenarioInv, NEW r \in Runs, LoadGroup(r)
    PROVE  RunsOK'
  <1> DEFINE group == GroupFrom(run[r].acts, Len(run[r].results) + 1)
             found == {DeviceOf(run[r].acts[i]) : i \in group} \cap present
             task == [run[r] EXCEPT !.at = "acting", !.pending = group, !.found = found,
                                    !.seen = found \cap online]
  <1>1. RunOK(run[r]) /\ run[r].at = "ready"
    BY DEF ScenarioInv, RunsOK, LoadGroup
  <1>2. found \subseteq Devices
    BY DEF ScenarioInv, TypedButRuns
  <1>3. run' = [run EXCEPT ![r] = task]
    BY <1>1 DEF LoadGroup, ScenarioInv, RunsOK, RunOK, Fields
  <1>4. RunOK(task)
    <2> HIDE DEF found
    <2>1. /\ DOMAIN task = Fields
          /\ task.at = "acting" /\ task.pending = group /\ task.found = found
          /\ task.seen = found \cap online /\ task.of = run[r].of /\ task.by = run[r].by
          /\ task.acts = run[r].acts /\ task.results = run[r].results
          /\ task.outcomes = run[r].outcomes
      BY <1>1 DEF RunOK, Fields
    <2> HIDE DEF task, group
    <2>2. task.outcomes = <<>> /\ DOMAIN task.outcomes = {}
      BY <1>1, <2>1 DEF RunOK
    <2>3. task.pending \cup DOMAIN task.outcomes = GroupFrom(task.acts, Len(task.results) + 1)
      BY <2>1, <2>2 DEF group
    <2> QED BY <1>1, <1>2, <2>1, <2>2, <2>3 DEF RunOK, Places, Active
  <1> QED BY <1>3, <1>4, RunPut DEF ScenarioInv

LEMMA SuccessIsBoolean ==
    ASSUME NEW action, NEW found
    PROVE  CanSucceed(action, found) \in BOOLEAN
  <1>1. CASE action.kind = "device_command"
    BY <1>1 DEF CanSucceed
  <1>2. CASE action.kind \in {"wait", "tts_announce"}
    BY <1>2 DEF CanSucceed
  <1>3. CASE action.kind \notin {"device_command", "wait", "tts_announce"}
    BY <1>3 DEF CanSucceed
  <1> QED BY <1>1, <1>2, <1>3

\* An action of the group answers.
LEMMA AnswerIsTaken ==
    ASSUME ScenarioInv, NEW r \in Runs, NEW i, ActionAnswers(r, i)
    PROVE  RunsOK'
  <1>1. RunOK(run[r]) /\ run[r].at = "acting" /\ i \in run[r].pending
    BY DEF ScenarioInv, RunsOK, ActionAnswers
  <1>2. PICK ok \in {FALSE} \cup {CanSucceed(run[r].acts[i], run[r].found)} :
          run' = [run EXCEPT ![r].pending = @ \ {i},
                             ![r].outcomes = [j \in DOMAIN @ \cup {i} |-> IF j = i THEN ok ELSE @[j]]]
    BY DEF ActionAnswers
  <1>3. ok \in BOOLEAN
    BY SuccessIsBoolean
  <1> DEFINE outcomes == [j \in DOMAIN run[r].outcomes \cup {i} |->
                             IF j = i THEN ok ELSE run[r].outcomes[j]]
             task == [run[r] EXCEPT !.pending = run[r].pending \ {i}, !.outcomes = outcomes]
  <1>4. run' = [run EXCEPT ![r] = task]
    BY <1>1, <1>2 DEF ScenarioInv, RunsOK, RunOK, Fields
  <1>5. DOMAIN outcomes = DOMAIN run[r].outcomes \cup {i} /\ \A j \in DOMAIN outcomes : outcomes[j] \in BOOLEAN
    BY <1>1, <1>3 DEF RunOK
  <1>6. RunOK(task)
    <2> HIDE DEF outcomes
    <2>1. /\ DOMAIN task = Fields
          /\ task.at = "acting" /\ task.pending = run[r].pending \ {i} /\ task.outcomes = outcomes
          /\ task.found = run[r].found /\ task.seen = run[r].seen
          /\ task.of = run[r].of /\ task.by = run[r].by
          /\ task.acts = run[r].acts /\ task.results = run[r].results
      BY <1>1 DEF RunOK, Fields
    <2> HIDE DEF task
    <2>2. task.pending \cup DOMAIN task.outcomes = run[r].pending \cup DOMAIN run[r].outcomes
      BY <1>1, <1>5, <2>1
    <2>3. task.pending \cap DOMAIN task.outcomes = {}
      BY <1>1, <1>5, <2>1 DEF RunOK
    <2> QED BY <1>1, <1>5, <2>1, <2>2, <2>3 DEF RunOK, Places, Active
  <1> QED BY <1>4, <1>6, RunPut DEF ScenarioInv

\* The results of a run whose group is settled: those before, then the group's answers.
Settled(task) == task.results \o
    [k \in 1 .. Cardinality(DOMAIN task.outcomes) |-> task.outcomes[Len(task.results) + k]]

LEMMA SettledResults ==
    ASSUME NEW task, RunOK(task), task.at = "acting", task.pending = {}
    PROVE  /\ Settled(task) \in Seq(BOOLEAN) /\ Len(Settled(task)) <= Len(task.acts)
           /\ Len(task.results) < Len(Settled(task))
           /\ DOMAIN task.outcomes = Len(task.results) + 1 .. Len(Settled(task))
           /\ \A i \in 1 .. Len(task.results) : Settled(task)[i] = task.results[i]
           /\ \A i \in DOMAIN task.outcomes : Settled(task)[i] = task.outcomes[i]
  <1> DEFINE n == Len(task.results)
             lo == n + 1
             more == [k \in 1 .. Cardinality(DOMAIN task.outcomes) |-> task.outcomes[n + k]]
  <1>1. task.acts \in Seq(Actions) /\ n \in Nat /\ lo \in 1 .. Len(task.acts)
    BY PlansAreLists DEF RunOK
  <1>2. PICK hi \in lo .. Len(task.acts) : GroupFrom(task.acts, lo) = lo .. hi
    BY <1>1, GroupIsStretch
  <1>3. DOMAIN task.outcomes = lo .. hi
    BY <1>2 DEF RunOK
  <1>4. hi \in Nat /\ Cardinality(lo .. hi) = hi - n
    BY <1>1, <1>2, FS_Interval
  <1>5. more = [k \in 1 .. hi - n |-> task.outcomes[n + k]]
    BY <1>3, <1>4
  <1>6. \A k \in 1 .. hi - n : n + k \in DOMAIN task.outcomes
    BY <1>1, <1>3, <1>4
  <1>7. more \in Seq(BOOLEAN) /\ Len(more) = hi - n
    <2>1. hi - n \in Nat
      BY <1>1, <1>2, <1>4
    <2>2. \A k \in 1 .. hi - n : task.outcomes[n + k] \in BOOLEAN
      BY <1>6 DEF RunOK
    <2>3. more \in [1 .. hi - n -> BOOLEAN]
      BY <1>5, <2>2
    <2> HIDE DEF more
    <2> QED BY <2>1, <2>3
  <1>8. Settled(task) = task.results \o more
    BY DEF Settled
  <1>9. \A k \in 1 .. hi - n : more[k] = task.outcomes[n + k]
    BY <1>5
  <1> HIDE DEF more, n
  <1>10. task.results \in Seq(BOOLEAN) /\ n = Len(task.results)
    BY DEF RunOK, n
  <1>11. Settled(task) \in Seq(BOOLEAN) /\ Len(Settled(task)) = hi
    BY <1>1, <1>4, <1>7, <1>8, <1>10
  <1>12. \A i \in 1 .. n : Settled(task)[i] = task.results[i]
    BY <1>7, <1>8, <1>10
  <1>13. \A i \in lo .. hi : Settled(task)[i] = task.outcomes[i]
    <2> TAKE i \in lo .. hi
    <2>1. i - n \in 1 .. hi - n /\ n + (i - n) = i
      BY <1>1, <1>4
    <2>2. Settled(task)[i] = more[i - n]
      BY <1>4, <1>7, <1>8, <1>10, <2>1
    <2> QED BY <1>9, <2>1, <2>2
  <1> QED BY <1>1, <1>2, <1>3, <1>4, <1>10, <1>11, <1>12, <1>13

\* What Settle makes of a run.
LEMMA SettleIs ==
    ASSUME ScenarioInv, NEW r \in Runs, Settle(r)
    PROVE  \/ run' = [run EXCEPT ![r] = AfterGroup(run[r], Settled(run[r]))]
           \/ run' = [run EXCEPT ![r] = [Unused EXCEPT !.at = "quit"]]
  BY DEF Settle, Settled

LEMMA AfterGroupIsOK ==
    ASSUME NEW task, RunOK(task), task.at = "acting", task.pending = {}
    PROVE  RunOK(AfterGroup(task, Settled(task)))
  <1> DEFINE results == Settled(task)
             after == AfterGroup(task, results)
  <1>1. results \in Seq(BOOLEAN) /\ Len(results) <= Len(task.acts)
    BY SettledResults
  <1>2. task.acts \in Seq(Actions)
    BY PlansAreLists DEF RunOK
  <1>3. task.of \in Scenarios
    BY DEF RunOK, Active
  <1> HIDE DEF results
  <1>4. /\ DOMAIN after = Fields
        /\ after.at = NextPlace(task.acts, results) /\ after.results = results
        /\ after.outcomes = <<>> /\ after.found = {} /\ after.seen = {} /\ after.pending = {}
        /\ after.acts = task.acts /\ after.of = task.of /\ after.by = task.by
    BY DEF AfterGroup, RunOK, Fields
  <1> HIDE DEF after
  <1>5. /\ after.at \in {"ready", "pushing"}
        /\ after.at = "ready" => Len(results) < Len(task.acts)
        /\ after.at = "pushing" => Len(results) = Len(task.acts)
    BY <1>1, <1>2, <1>4 DEF NextPlace
  <1>6. RunOK(after)
    BY <1>1, <1>3, <1>4, <1>5 DEF RunOK, Places, Active
  <1> QED BY <1>6 DEF after, results

LEMMA RunsStep == ScenarioInv /\ [Next]_vars => RunsOK'
  <1> SUFFICES ASSUME ScenarioInv, [Next]_vars PROVE RunsOK'
    OBVIOUS
  <1>0. RunsOK
    BY DEF ScenarioInv
  <1>1. ASSUME NEW r \in Runs, NEW id \in Scenarios, Fire(r, id) \/ RestRun(r, id) \/ VoiceRun(r, id)
        PROVE  RunsOK'
    BY <1>0, <1>1, BegunIsOK, RunPut DEF Fire, RestRun, VoiceRun, Begin
  <1>2. ASSUME NEW r \in Runs, FireLoads(r)
        PROVE  RunsOK'
    <2>1. CASE Ready(run[r].of)
      <3> DEFINE task == [run[r] EXCEPT !.at = "starting"]
      <3>1. run' = [run EXCEPT ![r] = task]
        BY <1>0, <1>2, <2>1 DEF FireLoads, RunsOK, RunOK, Fields
      <3>2. RunOK(task)
        BY <1>0, <1>2 DEF FireLoads, RunsOK, RunOK, Fields, Places, Active
      <3> QED BY <1>0, <3>1, <3>2, RunPut
    <2>2. CASE ~Ready(run[r].of)
      BY <1>0, <1>2, <2>2, UnusedIsOK, RunPut DEF FireLoads
    <2> QED BY <2>1, <2>2
  <1>3. ASSUME NEW r \in Runs, Settle(r)
        PROVE  RunsOK'
    <2>1. RunOK(run[r]) /\ run[r].at = "acting" /\ run[r].pending = {}
      BY <1>0, <1>3 DEF Settle, RunsOK
    <2>2. RunOK(AfterGroup(run[r], Settled(run[r])))
      BY <2>1, AfterGroupIsOK
    <2> QED BY <1>0, <1>3, <2>2, SettleIs, UnusedIsOK, RunPut
  <1>4. ASSUME NEW r \in Runs, PushResults(r) \/ BreaksOff(r)
        PROVE  RunsOK'
    BY <1>0, <1>4, UnusedIsOK, RunPut DEF PushResults, BreaksOff
  <1>5. CASE Crash
    <2>1. \A r \in Runs : RunOK(run'[r])
      BY <1>0, <1>5, UnusedIsOK DEF Crash, RunsOK
    <2>2. DOMAIN run' = Runs
      BY <1>5 DEF Crash
    <2> QED BY <2>1, <2>2 DEF RunsOK, RunOK
  <1>6. ASSUME \/ \E id \in Scenarios : Table(id)
               \/ \E d \in Devices : DeleteDevice(d)
               \/ Boot
               \/ UNCHANGED vars
        PROVE  RunsOK'
    <2>1. run' = run
      BY <1>6 DEF Table, CreateCommit, CreateSchedules, CreateFails, DeleteUnschedules,
                  DeleteCommits, DeleteFails, DeleteDevice, Boot, vars
    <2> QED BY <1>0, <2>1 DEF RunsOK, RunOK
  <1> QED
    BY <1>1, <1>2, <1>3, <1>4, <1>5, <1>6, ActionsAreRead, GroupIsLoaded, AnswerIsTaken
       DEF Next, Step

LEMMA ButRunsStep == ScenarioInv /\ [Next]_vars => TypedButRuns'
  <1> SUFFICES ASSUME ScenarioInv, [Next]_vars PROVE TypedButRuns'
    OBVIOUS
  <1> USE ScenarioConstants DEF TypedButRuns, tableVars, deviceVars
  <1>0. TypedButRuns /\ \A id \in Scenarios : JobOf(id) \in Crons \cup {NoJob}
    BY JobIsCron DEF ScenarioInv
  <1>f. faults < MaxFaults => faults + 1 \in 0 .. MaxFaults
    BY <1>0
  <1>1. ASSUME NEW id \in Scenarios, CreateCommit(id)
        PROVE  TypedButRuns'
    BY <1>0, <1>1 DEF CreateCommit
  <1>2. ASSUME NEW id \in Scenarios, CreateSchedules(id)
        PROVE  TypedButRuns'
    BY <1>0, <1>2 DEF CreateSchedules
  <1>3. ASSUME NEW id \in Scenarios, CreateFails(id) \/ DeleteFails(id)
        PROVE  TypedButRuns'
    BY <1>0, <1>f, <1>3 DEF CreateFails, DeleteFails
  <1>4. ASSUME NEW id \in Scenarios, DeleteUnschedules(id)
        PROVE  TypedButRuns'
    BY <1>0, <1>4 DEF DeleteUnschedules
  <1>5. ASSUME NEW id \in Scenarios, DeleteCommits(id)
        PROVE  TypedButRuns'
    BY <1>0, <1>5 DEF DeleteCommits
  <1>6. CASE Crash
    BY <1>0, <1>f, <1>6 DEF Crash
  <1>7. CASE Boot
    BY <1>0, <1>7 DEF Boot, Restore
  <1>8. ASSUME NEW r \in Runs, NEW id \in Scenarios, Fire(r, id) \/ RestRun(r, id) \/ VoiceRun(r, id)
        PROVE  TypedButRuns'
    BY <1>0, <1>8 DEF Fire, RestRun, VoiceRun
  <1>9. ASSUME NEW r \in Runs, Settle(r)
        PROVE  TypedButRuns'
    <2>1. UNCHANGED <<serverUp, jobs, creating, deleting, present, faults, spoiled>>
      BY <1>9 DEF Settle
    <2>2. run[r].found \subseteq Devices /\ run[r].seen \subseteq Devices
      BY DEF ScenarioInv, RunsOK, RunOK
    <2>3. online' \subseteq Devices
      <3> DEFINE good == Flagged({d \in run[r].found : Flag(run[r].acts, run[r].outcomes, d)},
                                 run[r].seen)
                 written == (good \ run[r].seen) \cup (run[r].seen \ good)
      <3>1. good \subseteq Devices
        BY <2>2 DEF Flagged
      <3>2. online' = online \/ online' = (online \ written) \cup (written \cap good)
        BY <1>9 DEF Settle
      <3> HIDE DEF good
      <3> QED BY <1>0, <3>1, <3>2
    <2> QED BY <1>0, <2>1, <2>3
  <1>10. ASSUME NEW r \in Runs,
                \/ FireLoads(r) \/ GetActions(r) \/ LoadGroup(r) \/ PushResults(r) \/ BreaksOff(r)
                \/ \E i \in Indices : ActionAnswers(r, i)
         PROVE  TypedButRuns'
    BY <1>0, <1>10 DEF FireLoads, GetActions, LoadGroup, PushResults, ActionAnswers, BreaksOff
  <1>11. ASSUME NEW d \in Devices, DeleteDevice(d)
         PROVE  TypedButRuns'
    BY <1>0, <1>11 DEF DeleteDevice
  <1>12. CASE UNCHANGED vars
    BY <1>0, <1>12 DEF vars
  <1> QED
    BY <1>1, <1>2, <1>3, <1>4, <1>5, <1>6, <1>7, <1>8, <1>9, <1>10, <1>11, <1>12
       DEF Next, Table, Step

LEMMA ScenarioInvariant == Spec => []ScenarioInv
  <1>1. Init => ScenarioInv
    <2> SUFFICES ASSUME Init PROVE ScenarioInv
      OBVIOUS
    <2>1. TypedButRuns
      BY ScenarioConstants DEF Init, TypedButRuns
    <2>2. RunsOK
      <3>1. RunOK(Unused)
        BY DEF RunOK, Unused, Fields, Places, Active
      <3> QED BY <3>1 DEF Init, RunsOK
    <2> QED BY <2>1, <2>2, TableInit DEF ScenarioInv
  <1>2. ScenarioInv /\ [Next]_vars => ScenarioInv'
    BY TableStep, ButRunsStep, RunsStep DEF ScenarioInv
  <1> QED BY <1>1, <1>2, PTL DEF Spec

\* Type correctness of the table, the jobs and the runs; in particular, the actions a run
\* has in hand are behind those it has results of, and within its plan.
THEOREM TypeCorrect == Spec => []TypeOK
  <1>1. ScenarioInv => TypeOK
    <2> SUFFICES ASSUME ScenarioInv PROVE TypeOK
      OBVIOUS
    <2>1. ASSUME NEW r \in Runs
          PROVE  /\ run[r].at \in Places
                 /\ run[r].by \in {"nobody", "schedule", "request"}
                 /\ run[r].acts \in {<<>>} \cup Range(Plan)
                 /\ run[r].results \in Seq(BOOLEAN) /\ Len(run[r].results) <= Len(run[r].acts)
                 /\ run[r].pending \cup DOMAIN run[r].outcomes \subseteq
                        Len(run[r].results) + 1 .. Len(run[r].acts)
                 /\ run[r].seen \subseteq run[r].found /\ run[r].found \subseteq Devices
      <3>1. RunOK(run[r])
        BY DEF ScenarioInv, RunsOK
      <3>2. Len(run[r].acts) \in Nat /\ Len(run[r].results) \in Nat
        BY <3>1, PlansAreLists DEF RunOK
      <3>3. Len(run[r].results) <= Len(run[r].acts)
        BY <3>1, <3>2 DEF RunOK, Places
      <3>4. run[r].pending \cup DOMAIN run[r].outcomes \subseteq
                Len(run[r].results) + 1 .. Len(run[r].acts)
        <4>1. CASE run[r].at = "acting"
          BY <3>1, <4>1 DEF RunOK, GroupFrom
        <4>2. CASE run[r].at # "acting"
          BY <3>1, <4>2 DEF RunOK
        <4> QED BY <4>1, <4>2
      <3> QED BY <3>1, <3>3, <3>4 DEF RunOK
    <2> QED BY <2>1 DEF ScenarioInv, TableTyped, TypedButRuns, TypeOK
  <1> QED BY <1>1, ScenarioInvariant, PTL
-----------------------------------------------------------------------------
(* Groups are barriers: each run implements a staged run.                  *)

\* The answers of a run are the results, and behind them the outcomes of its group.
LEMMA AnswersAre ==
    ASSUME NEW r \in Runs, RunOK(run[r])
    PROVE  /\ DOMAIN AnswersOf(r) = 1 .. Len(run[r].results) \cup DOMAIN run[r].outcomes
           /\ \A i \in 1 .. Len(run[r].results) : AnswersOf(r)[i] = run[r].results[i]
           /\ \A i \in DOMAIN run[r].outcomes : AnswersOf(r)[i] = run[r].outcomes[i]
           /\ \A i \in DOMAIN run[r].outcomes \cup run[r].pending :
                 i \in Nat /\ i > Len(run[r].results)
           /\ AnswersOf(r) = [i \in DOMAIN AnswersOf(r) |-> AnswersOf(r)[i]]
  <1>1. run[r].results \in Seq(BOOLEAN) /\ DOMAIN run[r].results = 1 .. Len(run[r].results)
    BY DEF RunOK
  <1>2. \A i \in DOMAIN run[r].outcomes \cup run[r].pending : i \in Nat /\ i > Len(run[r].results)
    <2>1. CASE run[r].at = "acting"
      BY <1>1, <2>1 DEF RunOK, GroupFrom
    <2>2. CASE run[r].at # "acting"
      BY <2>2 DEF RunOK
    <2> QED BY <2>1, <2>2
  <1> QED BY <1>1, <1>2 DEF AnswersOf

\* A run that is not under way has nothing to show.
BlankOf(r) == GroupsOf(run[r].acts) = <<>> /\ DOMAIN AnswersOf(r) \cup run[r].pending = {}
              /\ AnswersOf(r) = <<>>

LEMMA NothingInHand ==
    ASSUME NEW r \in Runs, RunOK(run[r]), run[r].at \notin {"ready", "acting", "pushing"}
    PROVE  BlankOf(r)
  <1>1. run[r].acts = <<>> /\ run[r].results = <<>> /\ run[r].outcomes = <<>> /\ run[r].pending = {}
    BY DEF RunOK
  <1> QED BY <1>1 DEF BlankOf, GroupsOf, AnswersOf

StageStep(r) == [Staged(r)!StagedNext]_(Staged(r)!stagedVars)

\* The three kinds of steps that do not touch a group.
LEMMA SameRun ==
    ASSUME NEW r, run'[r] = run[r]
    PROVE  StageStep(r)
  BY DEF StageStep, Staged!stagedVars, PhaseOf, AnswersOf, GroupsOf

LEMMA StillWaiting ==
    ASSUME NEW r \in Runs, RunOK(run[r]), RunOK(run'[r]),
           run[r].at \in {"none", "loading", "starting"}, run'[r].at \in {"none", "loading", "starting"}
    PROVE  StageStep(r)
  <1>1. BlankOf(r)
    BY NothingInHand
  <1>2. BlankOf(r)'
    <2>1. /\ run'[r].acts = <<>> /\ run'[r].results = <<>>
          /\ run'[r].outcomes = <<>> /\ run'[r].pending = {}
      BY DEF RunOK
    <2> QED BY <2>1 DEF BlankOf, GroupsOf, AnswersOf
  <1>3. PhaseOf(r) = "waiting" /\ PhaseOf(r)' = "waiting"
    BY DEF PhaseOf
  <1> QED BY <1>1, <1>2, <1>3 DEF BlankOf, StageStep, Staged!stagedVars

LEMMA RunIsDropped ==
    ASSUME NEW r \in Runs, RunOK(run[r]), run[r].at \in Active, run'[r] = [Unused EXCEPT !.at = "quit"]
    PROVE  StageStep(r)
  <1>1. PhaseOf(r) \in {"waiting", "open"}
    BY DEF Active, PhaseOf
  <1>2. PhaseOf(r)' = "dropped"
    BY DEF PhaseOf, Unused
  <1>3. BlankOf(r)'
    BY DEF BlankOf, GroupsOf, AnswersOf, Unused
  <1>4. Staged(r)!Blank'
    BY <1>3 DEF BlankOf, Staged!Blank
  <1>5. Staged(r)!DropRun
    BY <1>1, <1>2, <1>4 DEF Staged!DropRun
  <1> QED BY <1>5 DEF StageStep, Staged!StagedNext

\* The plan of a run that reads its actions is one of the plans there are.
LEMMA OpensRun ==
    ASSUME ScenarioInv, NEW r \in Runs, GetActions(r)
    PROVE  StageStep(r)
  <1> DEFINE acts == ActionsOf(run[r].of)
  <1>1. RunOK(run[r]) /\ run[r].at = "starting"
    BY DEF ScenarioInv, RunsOK, GetActions
  <1>2. BlankOf(r)
    BY <1>1, NothingInHand
  <1>3. /\ run'[r].acts = acts /\ run'[r].at \in {"ready", "pushing"}
        /\ run'[r].results = run[r].results /\ run'[r].outcomes = run[r].outcomes
        /\ run'[r].pending = run[r].pending
    BY <1>1 DEF GetActions, NextPlace, ScenarioInv, RunsOK, RunOK, Fields
  <1>4. acts \in {<<>>} \cup Range(Plan)
    <2>1. run[r].of \in DOMAIN Plan
      BY <1>1, ScenarioConstants DEF RunOK, Active
    <2> QED BY <2>1 DEF ActionsOf, Range
  <1>5. PhaseOf(r) = "waiting" /\ PhaseOf(r)' = "open"
    BY <1>1, <1>3 DEF PhaseOf
  <1>6. AnswersOf(r)' = AnswersOf(r)
    BY <1>3 DEF AnswersOf
  <1>7. GroupsOf(run[r].acts)' \in {GroupsOf(list) : list \in {<<>>} \cup Range(Plan)}
    <2> HIDE DEF acts
    <2>1. GroupsOf(run[r].acts)' = GroupsOf(acts)
      BY <1>3 DEF GroupsOf
    <2> QED BY <1>4, <2>1
  <1>8. Staged(r)!OpenRun
    BY <1>3, <1>5, <1>6, <1>7 DEF Staged!OpenRun
  <1> QED BY <1>8 DEF StageStep, Staged!StagedNext

\* The neighbours of a stretch have one group, if each has the one of the one before.
LEMMA OneGroup ==
    ASSUME NEW acts \in Seq(Actions), NEW lo \in 1 .. Len(acts), NEW hi \in lo .. Len(acts),
           GroupFrom(acts, lo) = lo .. hi
    PROVE  /\ \A i \in lo .. hi : acts[i].group = acts[lo].group
           /\ lo < hi => acts[lo].group # NoGroup
           /\ hi < Len(acts) => ~Joins(acts, hi + 1)
  <1>1. \A m \in lo + 1 .. hi : Joins(acts, m)
    BY DEF GroupFrom
  <1>2. \A i \in lo .. hi : acts[i].group = acts[lo].group
    <2> DEFINE S == {i \in lo .. hi : acts[i].group # acts[lo].group}
    <2> SUFFICES ASSUME S # {} PROVE FALSE
      OBVIOUS
    <2>1. PICK i \in S : \A j \in S : i <= j
      <3>1. S \subseteq Nat
        OBVIOUS
      <3> HIDE DEF S
      <3> QED BY <3>1, LeastNatural
    <2>2. i \in lo + 1 .. hi /\ i - 1 \in lo .. hi /\ i - 1 \notin S
      BY <2>1
    <2>3. acts[i - 1].group = acts[lo].group
      BY <2>2
    <2> QED BY <1>1, <2>1, <2>2, <2>3 DEF Joins
  <1>3. ASSUME lo < hi PROVE acts[lo].group # NoGroup
    <2>1. Joins(acts, lo + 1)
      BY <1>1, <1>3
    <2>2. acts[lo + 1].group = acts[lo].group
      BY <1>2, <1>3
    <2> QED BY <2>1, <2>2 DEF Joins
  <1>4. ASSUME hi < Len(acts) PROVE ~Joins(acts, hi + 1)
    <2> SUFFICES ASSUME Joins(acts, hi + 1) PROVE FALSE
      OBVIOUS
    <2>1. \A m \in lo + 1 .. hi + 1 : Joins(acts, m)
      BY <1>1
    <2>2. hi + 1 \in GroupFrom(acts, lo)
      BY <1>4, <2>1 DEF GroupFrom
    <2> QED BY <2>2
  <1> QED BY <1>2, <1>3, <1>4

LEMMA BeginsStage ==
    ASSUME ScenarioInv, NEW r \in Runs, LoadGroup(r)
    PROVE  StageStep(r)
  <1> DEFINE acts == run[r].acts
             n == Len(run[r].results)
             lo == n + 1
             plan == GroupsOf(acts)
  <1>1. RunOK(run[r]) /\ run[r].at = "ready"
    BY DEF ScenarioInv, RunsOK, LoadGroup
  <1>2. acts \in Seq(Actions) /\ n \in Nat /\ lo \in 1 .. Len(acts)
    BY <1>1, PlansAreLists DEF RunOK
  <1>3. PICK hi \in lo .. Len(acts) : GroupFrom(acts, lo) = lo .. hi
    BY <1>2, GroupIsStretch
  <1>4. /\ run'[r].at = "acting" /\ run'[r].acts = run[r].acts /\ run'[r].results = run[r].results
        /\ run'[r].outcomes = run[r].outcomes /\ run'[r].pending = lo .. hi
    BY <1>1, <1>3 DEF LoadGroup, ScenarioInv, RunsOK, RunOK, Fields
  <1>5. run[r].pending = {} /\ DOMAIN run[r].outcomes = {}
    BY <1>1 DEF RunOK
  <1>6. DOMAIN AnswersOf(r) = 1 .. n
    BY <1>1, <1>5, AnswersAre
  <1>7. AnswersOf(r)' = AnswersOf(r) /\ GroupsOf(run[r].acts)' = plan
    BY <1>4 DEF AnswersOf, GroupsOf
  <1>8. PhaseOf(r) = "open" /\ PhaseOf(r)' = "open"
    BY <1>1, <1>4 DEF PhaseOf
  <1>9. /\ DOMAIN plan = 1 .. Len(acts) /\ Len(plan) = Len(acts)
        /\ \A i \in 1 .. Len(acts) : plan[i] = acts[i].group
    BY <1>2 DEF GroupsOf
  <1> HIDE DEF acts, n, plan
  <1>10. /\ \A i \in lo .. hi : acts[i].group = acts[lo].group
         /\ lo < hi => acts[lo].group # NoGroup
         /\ hi < Len(acts) => ~Joins(acts, hi + 1)
    BY <1>2, <1>3, OneGroup
  <1>11. lo = hi \/ \A i \in lo .. hi : plan[i] = plan[lo] /\ plan[i] # NoGroup
    BY <1>2, <1>3, <1>9, <1>10
  <1>12. hi = Len(plan) \/ ~(\A i \in lo .. hi + 1 : plan[i] = plan[lo] /\ plan[i] # NoGroup)
    <2> SUFFICES ASSUME hi # Len(plan), \A i \in lo .. hi + 1 : plan[i] = plan[lo] /\ plan[i] # NoGroup
                 PROVE  FALSE
      OBVIOUS
    <2>5. Len(acts) \in Nat
      BY <1>2
    <2>6. lo \in 1 .. Len(acts) /\ hi \in lo .. Len(acts) /\ hi # Len(acts)
      BY <1>2, <1>3, <1>9
    <2> HIDE DEF lo
    <2>1. /\ lo \in Nat /\ hi \in Nat /\ lo <= hi /\ hi < Len(acts)
          /\ hi \in lo .. hi + 1 /\ hi + 1 \in lo .. hi + 1 /\ hi + 1 - 1 = hi
          /\ hi \in 1 .. Len(acts) /\ hi + 1 \in 1 .. Len(acts)
      BY <2>5, <2>6
    <2>2. plan[hi + 1] = plan[lo] /\ plan[hi] = plan[lo] /\ plan[hi + 1] # NoGroup
      BY <2>1
    <2>3. acts[hi + 1].group # NoGroup /\ acts[hi + 1].group = acts[hi].group
      BY <1>9, <2>1, <2>2
    <2>4. Joins(acts, hi + 1)
      BY <2>1, <2>3 DEF Joins
    <2> QED BY <1>10, <2>1, <2>4
  <1>13. Staged(r)!IsStage(lo, hi)
    BY <1>11, <1>12 DEF Staged!IsStage, Staged!Together, plan, acts
  <1> DEFINE begun == DOMAIN AnswersOf(r) \cup run[r].pending
  <1>14. DOMAIN AnswersOf(r) = begun /\ begun = 1 .. (lo - 1)
    BY <1>2, <1>5, <1>6
  <1>15. begun' = 1 .. hi
    BY <1>2, <1>3, <1>4, <1>5, <1>6, <1>7
  <1>16. lo \in 1 .. Len(GroupsOf(run[r].acts)) /\ hi \in lo .. Len(GroupsOf(run[r].acts))
    BY <1>2, <1>3, <1>9 DEF plan, acts
  <1>17. UNCHANGED <<PhaseOf(r), GroupsOf(run[r].acts), AnswersOf(r)>>
    BY <1>7, <1>8 DEF plan, acts
  <1> HIDE DEF lo, begun
  <1>18. Staged(r)!BeginStage
    BY <1>8, <1>13, <1>14, <1>15, <1>16, <1>17 DEF Staged!BeginStage, begun
  <1> QED BY <1>18 DEF StageStep, Staged!StagedNext

LEMMA AnswersAction ==
    ASSUME ScenarioInv, ScenarioInv', NEW r \in Runs, NEW i, ActionAnswers(r, i)
    PROVE  StageStep(r)
  <1>1. RunOK(run[r]) /\ RunOK(run'[r]) /\ run[r].at = "acting" /\ i \in run[r].pending
    BY DEF ScenarioInv, RunsOK, ActionAnswers, RunOK
  <1>2. PICK ok \in {FALSE} \cup {CanSucceed(run[r].acts[i], run[r].found)} :
          run' = [run EXCEPT ![r].pending = @ \ {i},
                             ![r].outcomes = [j \in DOMAIN @ \cup {i} |-> IF j = i THEN ok ELSE @[j]]]
    BY DEF ActionAnswers
  <1>3. ok \in BOOLEAN
    BY SuccessIsBoolean
  <1>4. /\ run'[r].at = "acting" /\ run'[r].acts = run[r].acts /\ run'[r].results = run[r].results
        /\ run'[r].pending = run[r].pending \ {i}
        /\ run'[r].outcomes = [j \in DOMAIN run[r].outcomes \cup {i} |->
                                  IF j = i THEN ok ELSE run[r].outcomes[j]]
    BY <1>1, <1>2 DEF ScenarioInv, RunsOK, RunOK, Fields
  <1>5. PhaseOf(r) = "open" /\ PhaseOf(r)' = "open" /\ GroupsOf(run[r].acts)' = GroupsOf(run[r].acts)
    BY <1>1, <1>4 DEF PhaseOf, GroupsOf
  <1>6. /\ DOMAIN AnswersOf(r) = 1 .. Len(run[r].results) \cup DOMAIN run[r].outcomes
        /\ i \in Nat /\ i > Len(run[r].results) /\ i \notin DOMAIN run[r].outcomes
    BY <1>1, AnswersAre DEF RunOK
  <1>7. i \in (DOMAIN AnswersOf(r) \cup run[r].pending) \ DOMAIN AnswersOf(r)
    BY <1>1, <1>6
  <1>8. (DOMAIN AnswersOf(r) \cup run[r].pending)' = DOMAIN AnswersOf(r) \cup run[r].pending
        /\ AnswersOf(r)' = [j \in DOMAIN AnswersOf(r) \cup {i} |-> IF j = i THEN ok ELSE AnswersOf(r)[j]]
    <2>1. DOMAIN run[r].results = 1 .. Len(run[r].results)
      BY <1>1 DEF RunOK
    <2>2. AnswersOf(r)' = [j \in DOMAIN AnswersOf(r) \cup {i} |-> IF j = i THEN ok ELSE AnswersOf(r)[j]]
      BY <1>4, <1>6, <2>1 DEF AnswersOf
    <2>3. DOMAIN AnswersOf(r)' = DOMAIN AnswersOf(r) \cup {i}
      BY <2>2
    <2> QED BY <1>1, <1>4, <2>2, <2>3
  <1>9. Staged(r)!AnswerAction
    BY <1>3, <1>5, <1>7, <1>8 DEF Staged!AnswerAction
  <1> QED BY <1>9 DEF StageStep, Staged!StagedNext

\* A group that is settled has only put its answers away.
LEMMA SettlesUnseen ==
    ASSUME ScenarioInv, NEW r \in Runs, Settle(r)
    PROVE  StageStep(r)
  <1>1. RunOK(run[r]) /\ run[r].at = "acting" /\ run[r].pending = {} /\ DOMAIN run = Runs
    BY DEF ScenarioInv, RunsOK, Settle
  <1>2. CASE run' = [run EXCEPT ![r] = [Unused EXCEPT !.at = "quit"]]
    <2>1. run'[r] = [Unused EXCEPT !.at = "quit"]
      BY <1>1, <1>2
    <2> QED BY <1>1, <2>1, RunIsDropped DEF Active
  <1>3. CASE run' = [run EXCEPT ![r] = AfterGroup(run[r], Settled(run[r]))]
    <2> DEFINE results == Settled(run[r])
    <2>1. /\ results \in Seq(BOOLEAN) /\ Len(run[r].results) < Len(results)
          /\ DOMAIN run[r].outcomes = Len(run[r].results) + 1 .. Len(results)
          /\ \A i \in 1 .. Len(run[r].results) : results[i] = run[r].results[i]
          /\ \A i \in DOMAIN run[r].outcomes : results[i] = run[r].outcomes[i]
      BY <1>1, SettledResults
    <2> HIDE DEF results
    <2>2. run'[r] = AfterGroup(run[r], results)
      BY <1>1, <1>3 DEF results
    <2>3. /\ run'[r].at \in {"ready", "pushing"} /\ run'[r].acts = run[r].acts
          /\ run'[r].results = results /\ run'[r].outcomes = <<>> /\ run'[r].pending = {}
      BY <1>1, <2>2 DEF AfterGroup, NextPlace, RunOK, Fields
    <2>4. PhaseOf(r) = "open" /\ PhaseOf(r)' = "open" /\ GroupsOf(run[r].acts)' = GroupsOf(run[r].acts)
      BY <1>1, <2>3 DEF PhaseOf, GroupsOf
    <2>5. run[r].results \in Seq(BOOLEAN) /\ Len(run[r].results) \in Nat /\ Len(results) \in Nat
      BY <1>1, <2>1 DEF RunOK
    <2>6. DOMAIN AnswersOf(r) = 1 .. Len(results)
      <3>1. DOMAIN AnswersOf(r) = 1 .. Len(run[r].results) \cup DOMAIN run[r].outcomes
        BY <1>1, AnswersAre
      <3> QED BY <2>1, <2>5, <3>1
    <2>7. \A i \in 1 .. Len(results) : AnswersOf(r)[i] = results[i]
      <3> TAKE i \in 1 .. Len(results)
      <3>1. CASE i \in 1 .. Len(run[r].results)
        BY <1>1, <2>1, <3>1, AnswersAre
      <3>2. CASE i \notin 1 .. Len(run[r].results)
        <4>1. i \in DOMAIN run[r].outcomes
          BY <2>1, <2>5, <3>2
        <4> QED BY <1>1, <2>1, <4>1, AnswersAre
      <3> QED BY <3>1, <3>2
    <2>8. AnswersOf(r)' = [i \in 1 .. Len(results) |-> results[i]]
      <3>1. DOMAIN results = 1 .. Len(results) /\ DOMAIN <<>> = {}
        BY <2>1
      <3> QED BY <2>3, <3>1 DEF AnswersOf
    <2>9. AnswersOf(r) = [i \in 1 .. Len(results) |-> results[i]]
      <3>1. AnswersOf(r) = [i \in DOMAIN AnswersOf(r) |-> AnswersOf(r)[i]]
        BY <1>1, AnswersAre
      <3> QED BY <2>6, <2>7, <3>1
    <2>10. (DOMAIN AnswersOf(r) \cup run[r].pending)' = DOMAIN AnswersOf(r) \cup run[r].pending
      BY <1>1, <2>3, <2>8, <2>9
    <2> QED BY <2>4, <2>8, <2>9, <2>10 DEF StageStep, Staged!stagedVars
  <1> QED BY <1>2, <1>3, SettleIs

\* A run is told of whole.
LEMMA TellsRun ==
    ASSUME ScenarioInv, NEW r \in Runs, PushResults(r)
    PROVE  StageStep(r)
  <1>1. RunOK(run[r]) /\ run[r].at = "pushing" /\ run'[r] = [Unused EXCEPT !.at = "done"]
    BY DEF ScenarioInv, RunsOK, PushResults
  <1>2. PhaseOf(r) = "open" /\ PhaseOf(r)' = "told"
    BY <1>1 DEF PhaseOf, Unused
  <1>3. BlankOf(r)'
    BY <1>1 DEF BlankOf, GroupsOf, AnswersOf, Unused
  <1>4. Staged(r)!Blank'
    BY <1>3 DEF BlankOf, Staged!Blank
  <1>5. DOMAIN AnswersOf(r) = DOMAIN GroupsOf(run[r].acts)
    <2>1. DOMAIN run[r].outcomes = {} /\ Len(run[r].results) = Len(run[r].acts)
      BY <1>1 DEF RunOK
    <2>2. run[r].acts \in Seq(Actions)
      BY <1>1, PlansAreLists DEF RunOK
    <2>3. DOMAIN GroupsOf(run[r].acts) = 1 .. Len(run[r].acts)
      BY <2>2 DEF GroupsOf
    <2> QED BY <1>1, <2>1, <2>3, AnswersAre
  <1>6. Staged(r)!TellRun
    BY <1>2, <1>4, <1>5 DEF Staged!TellRun
  <1> QED BY <1>6 DEF StageStep, Staged!StagedNext

\* Every step is, for each run, a step of its staged run or none.
LEMMA StagesStep == ScenarioInv /\ ScenarioInv' /\ [Next]_vars => \A r \in Runs : StageStep(r)
  <1> SUFFICES ASSUME ScenarioInv, ScenarioInv', [Next]_vars, NEW r \in Runs
               PROVE  StageStep(r)
    OBVIOUS
  <1>0. DOMAIN run = Runs /\ RunOK(run[r]) /\ RunOK(run'[r])
    BY DEF ScenarioInv, RunsOK, RunOK
  <1>1. ASSUME NEW q \in Runs, q # r,
               \/ Step(q) \/ BreaksOff(q)
               \/ \E id \in Scenarios : Fire(q, id) \/ RestRun(q, id) \/ VoiceRun(q, id)
        PROVE  StageStep(r)
    <2>1. run'[r] = run[r]
      BY <1>0, <1>1 DEF Step, FireLoads, GetActions, LoadGroup, Settle, PushResults,
                        ActionAnswers, BreaksOff, Fire, RestRun, VoiceRun, Begin
    <2> QED BY <2>1, SameRun
  <1>2. ASSUME NEW id \in Scenarios, Fire(r, id) \/ RestRun(r, id) \/ VoiceRun(r, id)
        PROVE  StageStep(r)
    <2>1. run[r].at = "none" /\ run'[r].at \in {"loading", "starting"}
      BY <1>0, <1>2 DEF Fire, RestRun, VoiceRun, Begin, Unused
    <2> QED BY <1>0, <2>1, StillWaiting
  <1>3. CASE FireLoads(r)
    <2>1. CASE Ready(run[r].of)
      <3>1. run[r].at = "loading" /\ run'[r].at = "starting"
        BY <1>0, <1>3, <2>1 DEF FireLoads, RunOK, Fields
      <3> QED BY <1>0, <3>1, StillWaiting
    <2>2. CASE ~Ready(run[r].of)
      <3>1. run[r].at \in Active /\ run'[r] = [Unused EXCEPT !.at = "quit"]
        BY <1>0, <1>3, <2>2 DEF FireLoads, Active
      <3> QED BY <1>0, <3>1, RunIsDropped
    <2> QED BY <2>1, <2>2
  <1>4. CASE BreaksOff(r)
    <2>1. run[r].at \in Active /\ run'[r] = [Unused EXCEPT !.at = "quit"]
      BY <1>0, <1>4 DEF BreaksOff
    <2> QED BY <1>0, <2>1, RunIsDropped
  <1>5. CASE Crash
    <2>1. CASE run[r].at \in Active
      <3>1. run'[r] = [Unused EXCEPT !.at = "quit"]
        BY <1>5, <2>1 DEF Crash
      <3> QED BY <1>0, <2>1, <3>1, RunIsDropped
    <2>2. CASE run[r].at \notin Active
      <3>1. run'[r] = run[r]
        BY <1>5, <2>2 DEF Crash
      <3> QED BY <3>1, SameRun
    <2> QED BY <2>1, <2>2
  <1>6. ASSUME \/ \E id \in Scenarios : Table(id)
               \/ \E d \in Devices : DeleteDevice(d)
               \/ Boot
               \/ UNCHANGED vars
        PROVE  StageStep(r)
    <2>1. run' = run
      BY <1>6 DEF Table, CreateCommit, CreateSchedules, CreateFails, DeleteUnschedules,
                  DeleteCommits, DeleteFails, DeleteDevice, Boot, vars
    <2> QED BY <2>1, SameRun
  <1>7. CASE GetActions(r) \/ LoadGroup(r) \/ Settle(r) \/ PushResults(r)
    BY <1>7, OpensRun, BeginsStage, SettlesUnseen, TellsRun
  <1>8. ASSUME NEW i \in Indices, ActionAnswers(r, i)
        PROVE  StageStep(r)
    BY <1>8, AnswersAction
  <1> QED
    BY <1>1, <1>2, <1>3, <1>4, <1>5, <1>6, <1>7, <1>8 DEF Next, Step

\* Every run begins its groups one behind the other, none before the last has answered,
\* and is told of with every answer at its place, whatever runs beside it, fails or stops.
THEOREM StagesImplemented == Spec => ImplementsStages
  <1> DEFINE Steps == \A r \in Runs : StageStep(r)
             Starts == \A r \in Runs : Staged(r)!StagedInit
  <1>1. Init => Starts
    BY DEF Init, Staged!StagedInit, Staged!Blank, PhaseOf, AnswersOf, GroupsOf, Unused
  <1>2. ScenarioInv /\ ScenarioInv' /\ [Next]_vars => [Steps]_run
    BY StagesStep
  <1>3. Steps <=> \A r \in Runs : [Staged(r)!StagedNext]_(Staged(r)!stagedVars)
    BY DEF StageStep
  <1> QED BY <1>1, <1>2, <1>3, ScenarioInvariant, PTL DEF Spec, ImplementsStages, StageStep
=============================================================================
