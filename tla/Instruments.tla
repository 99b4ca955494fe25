------------------------------ MODULE Instruments ------------------------------
(***************************************************************************)
(* Single instruments: the serial port of the temperature controller       *)
(* (LakeshorePort), the acquisitions of the gas analyser (RgaScan), the    *)
(* background threads of the cDAQ (CdaqReader) and the tap on the turbo    *)
(* pump (TurboTap).  Each is a process of its own; they share no state and *)
(* each is explored with the others at rest.                               *)
(***************************************************************************)
EXTENDS Naturals, Sequences, FiniteSets

CONSTANTS Settings, ReadsToReconnect, PortCommands, PortTroubles,  \* of the port
          Acquired, Count, Commands, Restarts, ScanTroubles,       \* of the analyser
          Slow, Fast, Patience, MaxReadings,                       \* of the cDAQ
          Params, MaxAge, Listening, MaxPause, Switches, Garbled   \* of the tap

VARIABLES part,
          port, portLock, setting, buffer, late, portLoop, portCommand, received, answered,
          okAnswers, portTroubles,
          up, acq, memory, young, main, worker, analyser, pending, unkept, files, announced,
          begun, commands, restarts, troubles,
          service, tasks, toDo, thread, stop, listLock, list, reader, inHand, failing, waited,
          made, handed, torn,
          asking, heard, plugged, tapPort, tapBuffer, latest, at, first, left, due, failures,
          shown, switches, lost, calm

lakeshore == <<port, portLock, setting, buffer, late, portLoop, portCommand, received, answered,
               okAnswers, portTroubles>>
rga == <<up, acq, memory, young, main, worker, analyser, pending, unkept, files, announced,
         begun, commands, restarts, troubles>>
cdaq == <<service, tasks, toDo, thread, stop, listLock, list, reader, inHand, failing, waited,
          made, handed, torn>>
turbo == <<asking, heard, plugged, tapPort, tapBuffer, latest, at, first, left, due, failures,
           shown, switches, lost, calm>>

L == INSTANCE LakeshorePort WITH
       MaxCommands <- PortCommands, MaxTroubles <- PortTroubles,
       device <- port, lock <- portLock, loop <- portLoop, command <- portCommand,
       troubles <- portTroubles

R == INSTANCE RgaScan WITH
       MaxAcquisitions <- Acquired, MaxCommands <- Commands, MaxRestarts <- Restarts,
       MaxTroubles <- ScanTroubles

D == INSTANCE CdaqReader WITH lock <- listLock, pending <- list

T == INSTANCE TurboTap WITH
       Identify <- Listening, MaxSwitches <- Switches, MaxLost <- Garbled, port <- tapPort,
       buffer <- tapBuffer

ASSUME InstrumentsAssumption ==
  L!PortAssumption /\ R!ScanAssumption /\ D!ReaderAssumption /\ T!TapAssumption

(* Those at rest are at rest in one way. *)
Init ==
  /\ L!Init /\ R!Init /\ D!Init /\ T!Init
  /\ part \in {"lakeshore", "rga", "cdaq", "turbo"}
  /\ part # "lakeshore" => setting = CHOOSE s \in Settings : TRUE
  /\ part # "turbo" => asking = <<>>

InLakeshore(Step) == part = "lakeshore" /\ Step /\ UNCHANGED <<part, rga, cdaq, turbo>>
InRga(Step) == part = "rga" /\ Step /\ UNCHANGED <<part, lakeshore, cdaq, turbo>>
InCdaq(Step) == part = "cdaq" /\ Step /\ UNCHANGED <<part, lakeshore, rga, turbo>>
InTurbo(Step) == part = "turbo" /\ Step /\ UNCHANGED <<part, lakeshore, rga, cdaq>>

Next == InLakeshore(L!Next) \/ InRga(R!Next) \/ InCdaq(D!Next) \/ InTurbo(T!Next)

(* The fairness of the parts, of steps in this module.                     *)
Spec ==
  /\ Init /\ [][Next]_<<part, lakeshore, rga, cdaq, turbo>>
  /\ WF_lakeshore(InLakeshore(L!Loop)) /\ SF_lakeshore(InLakeshore(L!Command))
  /\ WF_rga(InRga(R!TakeScan)) /\ WF_rga(InRga(R!Grow)) /\ WF_rga(InRga(R!MainLoop))

\* The properties of the parts, in the names of this module.
OkMeansHeld == L!OkMeansHeld
CommandsEnd == L!CommandsEnd
AnnouncedAsSaved == R!AnnouncedAsSaved
PendingKeepsUp == R!PendingKeepsUp
ScanEnds == R!ScanEnds
HandedOnce == D!HandedOnce
ClosedUnderNobody == D!ClosedUnderNobody
ShownAsHeard == T!ShownAsHeard
===============================================================================
