-------------------------- MODULE MCScenarioEngine --------------------------
(* ScenarioEngine with a scenario that has a bad crontab and no actions, and  *)
(* one with two triggers and two actions in no group before a group of two on *)
(* one device.                                                                *)
EXTENDS ScenarioEngine, TLC

CONSTANT lamp

Act(kind, device, group) == [kind |-> kind, device |-> device, group |-> group]

RunSymmetry == Permutations(Runs)

MCScenarios == 1 .. 2
MCDevices == {lamp}
MCPlan == <<
    <<>>,
    <<Act("unknown", NoDevice, NoGroup), Act("unknown", NoDevice, NoGroup),
      Act("device_command", lamp, 1), Act("device_command", lamp, 1)>> >>
MCTriggers == << {<<"bad">>}, {<<"weekdays", "weekend">>} >>
=============================================================================
