----------------------------- MODULE AlarmEngineMC -----------------------------
(***************************************************************************)
(* Instances of AlarmEngine for TLC.  ln2_mass has two lower limits and is *)
(* the one alarm that may be switched off, as in alarms.yaml; its readings *)
(* are past lolo, past low, inside the hysteresis band of low              *)
(* (100 <= 101 < 102), past none.                                          *)
(***************************************************************************)
EXTENDS AlarmEngine

CONSTANTS ln2_mass

Usual == [watched |-> Channels, switchable |-> Channels,
          limits |-> [c \in Channels |-> [low |-> [value |-> 100, severity |-> "minor"],
                                          lolo |-> [value |-> 20, severity |-> "major"]]]]
Unlimited == [Usual EXCEPT !.switchable = {}, !.limits = [c \in Channels |-> <<>>]]
Unwatched == [Usual EXCEPT !.watched = {}]

MCConfigs == {Usual, Unlimited, Unwatched}
AllReadings == {10, 50, 101, 150}
===============================================================================
