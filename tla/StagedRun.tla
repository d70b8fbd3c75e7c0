----------------------------- MODULE StagedRun -----------------------------
(***************************************************************************)
(* What a run of a scenario promises, with no database, no devices and no  *)
(* cancellation in sight: its actions are begun stage by stage, a stage    *)
(* being a stretch of neighbours of one group or a single action; nobody   *)
(* begins the next stage before the whole of this one has answered, and a  *)
(* run that is told of is told of whole, with the answer of every action   *)
(* at that action's place.  Each run of ScenarioEngine implements this     *)
(* module.                                                                 *)
(***************************************************************************)
EXTENDS Naturals, Sequences

CONSTANTS
    Labels,   \* what a plan may look like: sequences of groups
    Alone     \* the label of an action that is in no group

VARIABLES
    phase,    \* "waiting", "open", "told" or "dropped"
    plan,     \* the groups of its actions, in order
    begun,    \* the actions that were begun
    answers   \* the answer of every action that has one

stagedVars == <<phase, plan, begun, answers>>

Blank == plan = <<>> /\ begun = {} /\ answers = <<>>

StagedInit == phase = "waiting" /\ Blank

OpenRun ==
    /\ phase = "waiting" /\ phase' = "open"
    /\ plan' \in Labels
    /\ UNCHANGED <<begun, answers>>

\* The actions lo .. hi can go together; they are a stage if hi + 1 cannot go with them.
Together(lo, hi) == \A i \in lo .. hi : plan[i] = plan[lo] /\ plan[i] # Alone
IsStage(lo, hi) ==
    /\ lo = hi \/ Together(lo, hi)
    /\ hi = Len(plan) \/ ~Together(lo, hi + 1)

BeginStage ==
    /\ phase = "open"
    /\ DOMAIN answers = begun
    /\ \E lo \in 1 .. Len(plan) : \E hi \in lo .. Len(plan) :
          begun = 1 .. (lo - 1) /\ IsStage(lo, hi) /\ begun' = 1 .. hi
    /\ UNCHANGED <<phase, plan, answers>>

AnswerAction ==
    /\ phase = "open"
    /\ \E i \in begun \ DOMAIN answers, ok \in BOOLEAN :
          answers' = [j \in DOMAIN answers \cup {i} |-> IF j = i THEN ok ELSE answers[j]]
    /\ UNCHANGED <<phase, plan, begun>>

\* All actions have answered, and the answers are told.
TellRun ==
    /\ phase = "open"
    /\ DOMAIN answers = DOMAIN plan
    /\ phase' = "told" /\ Blank'

\* A run that is not told of leaves nothing behind.
DropRun ==
    /\ phase \in {"waiting", "open"}
    /\ phase' = "dropped" /\ Blank'

StagedNext == OpenRun \/ BeginStage \/ AnswerAction \/ TellRun \/ DropRun

StagedSpec == StagedInit /\ [][StagedNext]_stagedVars
=============================================================================
