----------------------------- MODULE ThresholdWatch -----------------------------
(***************************************************************************)
(* One channel fed every sequence of good readings, under every choice of  *)
(* limits: what _threshold_for (alarms/engine.py) promises.                *)
(***************************************************************************)
EXTENDS Thresholds

CONSTANTS LimitValues, Readings

WatchAssumption ==
  LimitValues \subseteq Int /\ Readings \subseteq Int /\ Readings # {}

VARIABLES limits, value, current
vars == <<limits, value, current>>

SeverityOf == [hihi |-> "major", lolo |-> "major", high |-> "minor", low |-> "minor"]
Limit4(names, at) == [n \in names |-> [value |-> at[n], severity |-> SeverityOf[n]]]

Init ==
  /\ \E names \in SUBSET ThresholdNames :
       \E at \in [names -> LimitValues] : limits = Limit4(names, at)
  /\ value \in Readings
  /\ current = ThresholdFor(limits, value, NoThreshold).threshold

Next ==
  /\ value' \in Readings
  /\ current' = ThresholdFor(limits, value', current).threshold
  /\ UNCHANGED limits

Spec == Init /\ [][Next]_vars

(* The reference: a value is past a limit, without any hysteresis. *)
Past(name, v) ==
  /\ name \in DOMAIN limits
  /\ IF name \in LOW_THRESHOLDS THEN v < limits[name].value ELSE v > limits[name].value

WorseThan == [hihi |-> {}, lolo |-> {"hihi"}, high |-> {"hihi", "lolo"},
              low |-> {"hihi", "lolo", "high"}, none |-> ThresholdNames]

(* Whatever the channel went through, a value past a limit is in alarm,    *)
(* and on the most severe limit it is past (engine.py:161).                *)
WorstLimitReported ==
  \A name \in WorseThan[current] : ~Past(name, value)

(* A channel leaves an alarm only when the value has come back past the    *)
(* limit by the margin, so a value sitting on a limit does not chatter     *)
(* (engine.py:153-156).                                                    *)
ClearsPastMargin ==
  [][\A name \in ThresholdNames :
       current = name /\ current' = NoThreshold =>
         LET at == limits[name].value
             band == Magnitude(at) * Hysteresis
         IN IF name \in LOW_THRESHOLDS THEN 100 * (value' - at) >= band
                                       ELSE 100 * (at - value') >= band]_vars
===============================================================================
