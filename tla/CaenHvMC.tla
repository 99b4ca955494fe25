-------------------------------- MODULE CaenHvMC --------------------------------
(* Instances of CaenHv for TLC. *)
EXTENDS CaenHv, TLC

CONSTANTS anode, cathode

Interchangeable == Permutations(Channels)

(* A pair of channels between two starts of the service; with one channel   *)
(* the run of CaenService explores its restarts.                            *)
BoardEvent == \E c \in Channels : FlagTrip(c) \/ Collapse(c) \/ SwitchOff(c) \/ SwitchOn(c)
OneLifeNext == MainLoop \/ NetworkThread \/ BoardEvent
OneLifeSpec == Init /\ [][OneLifeNext]_vars
===============================================================================
