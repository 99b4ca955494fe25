-------------------------------- MODULE Alarms --------------------------------
(***************************************************************************)
(* The alarm engine (AlarmEngine) and the rule it judges every reading by  *)
(* (ThresholdWatch), which one channel is put through here for every       *)
(* choice of limits.  They share the hysteresis and no state: the rule is  *)
(* a function, and each is explored with the other at rest (part says      *)
(* which one moves).                                                       *)
(***************************************************************************)
EXTENDS AlarmEngine

CONSTANTS LimitValues, RuleReadings      \* of the rule

VARIABLES part, ruleLimits, ruleValue, inForce

rule == <<ruleLimits, ruleValue, inForce>>

W == INSTANCE ThresholdWatch WITH
       Readings <- RuleReadings, limits <- ruleLimits, value <- ruleValue, current <- inForce

ASSUME AlarmsAssumption == W!WatchAssumption

(* A rule at rest has no limits. *)
BothInit ==
  /\ Init /\ W!Init
  /\ part \in {"rule", "engine"}
  /\ part = "engine" => ruleLimits = <<>> /\ ruleValue = CHOOSE r \in RuleReadings : TRUE

InEngine(Step) == part = "engine" /\ Step /\ UNCHANGED <<part, rule>>
InRule(Step) == part = "rule" /\ Step /\ UNCHANGED <<part, vars>>

BothNext == InRule(W!Next) \/ InEngine(Next)

(* The fairness of the engine, of steps in this module.                    *)
BothSpec ==
  /\ BothInit /\ [][BothNext]_<<part, vars, rule>>
  /\ WF_vars(InEngine(Tick))
  /\ WF_vars(InEngine(CheckStaleness)) /\ WF_vars(InEngine(PumpTake))
  /\ WF_vars(InEngine(ReloadForget)) /\ WF_vars(InEngine(ReloadClear))
  /\ \A c \in Channels : SF_vars(InEngine(OnRetainedAlarm(c)))

\* The properties of the rule, in the names of this module.
WorstLimitReported == W!WorstLimitReported
ClearsPastMargin == W!ClearsPastMargin
===============================================================================
