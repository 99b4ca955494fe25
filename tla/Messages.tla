------------------------------- MODULE Messages -------------------------------
(***************************************************************************)
(* What travels over the bus: publishing through an outage (BusOutbox),    *)
(* commands and their answers (CommandAcks), edits of the configuration    *)
(* and the reload that tells of them (ConfigEdits); and the processes on   *)
(* it, as they are started and stopped (Launcher).  The four share no      *)
(* state; each is explored with the others at rest.                        *)
(***************************************************************************)
EXTENDS BusOutbox

CONSTANTS
  Clients, Inboxes, HomeOf, Targets, Depth, MaxAsked,       \* of the commands
  Channels, Savers, Limits, MaxSaves, MaxTroubles,          \* of the edits
  Processes, Operators, MaxOrders, MaxKills                 \* of the processes

VARIABLES part,
          begun, current, sent, requests, answers, queue, handled, told, givenUp,
          limit, file, tmp, web, service, saver, toldWeb, toldService, untold, saves,
          troubles,
          at, asked, lockFile, pidFile, ctl, orders, kills

commands == <<begun, current, sent, requests, answers, queue, handled, told,
              givenUp>>
edits == <<limit, file, tmp, web, service, saver, toldWeb, toldService, untold, saves,
           troubles>>
processes == <<at, asked, lockFile, pidFile, ctl, orders, kills>>

C == INSTANCE CommandAcks WITH published <- sent, MaxCommands <- MaxAsked
E == INSTANCE ConfigEdits
L == INSTANCE Launcher WITH MaxCommands <- MaxOrders, commands <- orders

ASSUME PartsAssumption == /\ C!CommandAssumption /\ E!EditsAssumption
                          /\ L!LauncherAssumption

AllInit == /\ Init /\ C!Init /\ E!Init /\ L!Init
           /\ part \in {"bus", "commands", "edits", "processes"}
           /\ part # "edits" => limit = CHOOSE l \in Limits : TRUE   \* at rest: in one way
           /\ part # "processes" => lockFile = L!Absent

InBus(Step) ==
  part = "bus" /\ Step /\ UNCHANGED <<part, commands, edits, processes>>
InCommands(Step) ==
  part = "commands" /\ Step /\ UNCHANGED <<part, vars, edits, processes>>
InEdits(Step) ==
  part = "edits" /\ Step /\ UNCHANGED <<part, vars, commands, processes>>
InProcesses(Step) ==
  part = "processes" /\ Step /\ UNCHANGED <<part, vars, commands, edits>>

AllNext == \/ InBus(Next) \/ InCommands(C!Next) \/ InEdits(E!Next) \/ InProcesses(L!Next)

AllSpec == AllInit /\ [][AllNext]_<<part, vars, commands, edits, processes>>

\* The properties of the others, in the names of this module.
MixUpsHaveACause == C!MixUpsHaveACause
EverybodyFollows == E!EverybodyFollows
OneInstance == L!OneInstance
===============================================================================
