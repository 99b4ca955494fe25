------------------------------- MODULE AlarmsMC -------------------------------
(***************************************************************************)
(* Alarms for TLC.  The rule: limits on both sides of zero and at it;      *)
(* readings on and around each, inside and outside a hysteresis band of    *)
(* ten percent.  The engine: one channel with upper limits; a reading      *)
(* crosses one of them or none; the gateway may hang for ever.             *)
(***************************************************************************)
EXTENDS Alarms

CONSTANTS pmain

MCLimitValues == {-20, 0, 10, 20}
MCReadings == {-25, -21, -20, -19, -18, -17, -1, 0, 1, 8, 9, 10, 11, 12, 17, 18, 19, 20, 21}

Usual == [watched |-> {pmain}, switchable |-> {},
          limits |-> [c \in {pmain} |->
                        [high |-> [value |-> 100, severity |-> "minor"],
                         hihi |-> [value |-> 200, severity |-> "major"]]]]
Unlimited == [Usual EXCEPT !.limits = [c \in {pmain} |-> <<>>]]
Unwatched == [Usual EXCEPT !.watched = {}]

MCConfigs == {Usual, Unlimited, Unwatched}
===============================================================================
