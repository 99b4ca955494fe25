------------------------------ MODULE StatusPageMC ------------------------------
(* Instances of StatusPage for TLC. *)
EXTENDS StatusPage

CONSTANTS lakeshore, alarms
===============================================================================
