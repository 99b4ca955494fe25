------------------------------ MODULE Thresholds ------------------------------
(***************************************************************************)
(* The threshold rule of the alarm engine (alarms/engine.py,               *)
(* _threshold_for): which of a channel's four limits a good reading is     *)
(* past, with the hysteresis that keeps a channel in the alarm it is in.   *)
(*                                                                         *)
(* A channel's limits are a function from the names alarms.yaml gives for  *)
(* it, a subset of the four, to [value, severity].  Readings and limits    *)
(* are integers; the margin, a fraction of the limit's magnitude, is       *)
(* Hysteresis hundredths of it, so limits are compared in hundredths.      *)
(***************************************************************************)
EXTENDS Integers

CONSTANT Hysteresis      \* defaults.hysteresis, in percent (2 in alarms.yaml)

ASSUME HysteresisAssumption == Hysteresis \in Nat

SEVERITY_ORDER == [ok |-> 0, minor |-> 1, major |-> 2, critical |-> 3]
Severities == {"ok", "minor", "major", "critical"}

ThresholdNames == {"hihi", "lolo", "high", "low"}
LOW_THRESHOLDS == {"lolo", "low"}
NoThreshold == "none"

Limit == [value : Int, severity : Severities \ {"ok"}]
IsLimits(limits) ==
  /\ DOMAIN limits \subseteq ThresholdNames
  /\ \A name \in DOMAIN limits : limits[name] \in Limit

-------------------------------------------------------------------------------
Magnitude(n) == IF n < 0 THEN -n ELSE n

Bug_MarginSign(limit, name, current) ==
  IF current = name THEN -(Magnitude(limit) * Hysteresis) ELSE 0

(* Only the threshold a channel is already alarming on gets the margin. *)
Margin(limit, name, current) ==
  IF current = name THEN Magnitude(limit) * Hysteresis ELSE 0

Tripped(limits, name, value, current) ==
  /\ name \in DOMAIN limits
  /\ LET limit  == limits[name].value
         margin == Margin(limit, name, current)
     IN IF name \in LOW_THRESHOLDS
        THEN 100 * value < 100 * limit + margin
        ELSE 100 * value > 100 * limit - margin

Verdict(limits, name) == [threshold |-> name, severity |-> limits[name].severity]
NoAlarm == [threshold |-> NoThreshold, severity |-> "ok"]

Bug_MildestFirst(limits, value, current) ==
  LET hit(name) == Tripped(limits, name, value, current)
  IN CASE hit("low")  -> Verdict(limits, "low")
       [] ~hit("low") /\ hit("high") -> Verdict(limits, "high")
       [] ~hit("low") /\ ~hit("high") /\ hit("lolo") -> Verdict(limits, "lolo")
       [] ~hit("low") /\ ~hit("high") /\ ~hit("lolo") /\ hit("hihi")
            -> Verdict(limits, "hihi")
       [] OTHER -> NoAlarm

(* Most severe first, so a value past hihi reports hihi rather than high. *)
ThresholdFor(limits, value, current) ==
  LET hit(name) == Tripped(limits, name, value, current)
  IN IF hit("hihi") THEN Verdict(limits, "hihi")
     ELSE IF hit("lolo") THEN Verdict(limits, "lolo")
     ELSE IF hit("high") THEN Verdict(limits, "high")
     ELSE IF hit("low") THEN Verdict(limits, "low")
     ELSE NoAlarm
===============================================================================
