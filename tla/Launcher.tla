-------------------------------- MODULE Launcher --------------------------------
(***************************************************************************)
(* One service, the processes started for it, and the command line that    *)
(* starts and stops them (cli/xams_ctl.py; SingleInstance in service.py).  *)
(*                                                                         *)
(* What keeps two processes from one instrument is a lock file, created    *)
(* exclusively and kept open; as on Windows, a file that somebody has open *)
(* cannot be removed.  The command line knows the process by a file with   *)
(* its pid, which any start replaces.                                      *)
(***************************************************************************)
EXTENDS Naturals, FiniteSets

CONSTANTS
  Processes,       \* processes that may be started
  Operators,       \* command lines in use at the same time
  MaxCommands,     \* bound: commands given
  MaxKills         \* bound: processes killed by anything but a stop

Absent == "absent"       \* no such file
Left == "left"           \* there, and nobody has it open

LauncherAssumption ==
  /\ IsFiniteSet(Processes) /\ Operators # {} /\ {MaxCommands, MaxKills} \subseteq Nat
  /\ Absent \notin Processes /\ Left \notin Processes

VARIABLES
  at,          \* each process: "none", "new", "claim", "reopen", "running", "closing",
               \* "refused" or "gone"
  asked,       \* processes that taskkill was asked to end
  lockFile,    \* Absent, Left, or the process that has it open
  pidFile,     \* Absent, or the process whose pid it holds
  ctl,         \* each command line: where it is, the process it started or stops
  commands, kills

vars == <<at, asked, lockFile, pidFile, ctl, commands, kills>>

NoCommand == [at |-> "idle", process |-> Absent]

TypeOK ==
  /\ at \in [Processes -> {"none", "new", "claim", "reopen", "running", "closing", "refused",
                           "gone"}]
  /\ asked \subseteq Processes
  /\ lockFile \in Processes \cup {Absent, Left} /\ pidFile \in Processes \cup {Absent}
  /\ ctl \in [Operators -> [at : {"idle", "start", "note", "stop", "wait", "released"},
                            process : Processes \cup {Absent}]]

Alive(p) == at[p] \notin {"none", "refused", "gone"}

---------------------------------------------------------------------------
\* A process: SingleInstance.acquire and release

Moves(p, where) == at' = [at EXCEPT ![p] = where]
ProcessStep == UNCHANGED <<asked, pidFile, ctl, commands, kills>>

(* Created, unless it is there: then it may be left over.                  *)
Acquire(p) ==
  /\ at[p] = "new"
  /\ IF lockFile = Absent THEN lockFile' = p /\ Moves(p, "running")
                          ELSE UNCHANGED lockFile /\ Moves(p, "claim")
  /\ ProcessStep

(* Removing it fails when somebody has it open, and when it is gone.       *)
Bug_Removable == lockFile # Absent
Removable == lockFile = Left

Claim(p) ==
  /\ at[p] = "claim"
  /\ IF Removable THEN lockFile' = Absent /\ Moves(p, "reopen")
                  ELSE UNCHANGED lockFile /\ Moves(p, "refused")
  /\ ProcessStep

Retry == lockFile = Absent

Reopen(p) ==
  /\ at[p] = "reopen"
  /\ IF Retry THEN lockFile' = p /\ Moves(p, "running")
              ELSE UNCHANGED lockFile /\ Moves(p, "refused")
  /\ ProcessStep

(* release, after the hardware is closed: the file closed, then removed    *)
(* if nobody opened it meanwhile.                                          *)
Release(p) ==
  /\ at[p] = "running" /\ kills < MaxKills /\ kills' = kills + 1
  /\ Moves(p, "closing") /\ lockFile' = Left
  /\ UNCHANGED <<asked, pidFile, ctl, commands>>

Remove(p) ==
  /\ at[p] = "closing" /\ Moves(p, "gone")
  /\ lockFile' = IF lockFile = Left THEN Absent ELSE lockFile
  /\ ProcessStep

Dies(p) ==
  /\ Alive(p)
  /\ \/ p \in asked /\ UNCHANGED kills
     \/ p \notin asked /\ kills < MaxKills /\ kills' = kills + 1
  /\ Moves(p, "gone")
  /\ lockFile' = IF lockFile = p THEN Left ELSE lockFile
  /\ UNCHANGED <<asked, pidFile, ctl, commands>>

---------------------------------------------------------------------------
\* xams-ctl

CtlStep(c, where, p) == ctl' = [ctl EXCEPT ![c] = [at |-> where, process |-> p]]
Ended(c) == ctl' = [ctl EXCEPT ![c] = NoCommand]
Known == IF pidFile # Absent /\ Alive(pidFile) THEN pidFile ELSE Absent    \* _running

Give(c, where) ==
  /\ ctl[c].at = "idle" /\ commands < MaxCommands /\ commands' = commands + 1
  /\ CtlStep(c, where, Known)
  /\ UNCHANGED <<at, asked, lockFile, pidFile, kills>>

StartCommand(c) == Known = Absent /\ Give(c, "start")
StopCommand(c) == Give(c, "stop")

Spawn(c, p) ==
  /\ ctl[c].at = "start" /\ at[p] = "none" /\ Moves(p, "new") /\ CtlStep(c, "note", p)
  /\ UNCHANGED <<asked, lockFile, pidFile, commands, kills>>

NotePid(c) ==
  /\ ctl[c].at = "note" /\ pidFile' = ctl[c].process /\ Ended(c)
  /\ UNCHANGED <<at, asked, lockFile, commands, kills>>

(* Nothing known to run: nothing is waited for, and all is said to be      *)
(* released.  Otherwise taskkill, which returns before the process is gone.*)
Kill(c) ==
  /\ ctl[c].at = "stop" /\ pidFile' = Absent
  /\ IF ctl[c].process = Absent THEN CtlStep(c, "released", Absent) /\ UNCHANGED asked
     ELSE CtlStep(c, "wait", ctl[c].process) /\ asked' = asked \cup {ctl[c].process}
  /\ UNCHANGED <<at, lockFile, commands, kills>>

(* _lock_held: a lock file that can be removed is held by nobody.          *)
Wait(c) ==
  /\ ctl[c].at = "wait" /\ lockFile \in {Absent, Left}
  /\ lockFile' = Absent /\ CtlStep(c, "released", Absent)
  /\ UNCHANGED <<at, asked, pidFile, commands, kills>>

(* Still held after 15 s: said, and given up.                              *)
GiveUp(c) ==
  /\ ctl[c].at = "wait" /\ lockFile \in Processes /\ Ended(c)
  /\ UNCHANGED <<at, asked, lockFile, pidFile, commands, kills>>

(* "All hardware released. LabVIEW can be started."                        *)
SayReleased(c) ==
  /\ ctl[c].at = "released" /\ Ended(c)
  /\ UNCHANGED <<at, asked, lockFile, pidFile, commands, kills>>

---------------------------------------------------------------------------
Init ==
  /\ at = [p \in Processes |-> "none"] /\ asked = {} /\ pidFile = Absent
  /\ lockFile \in {Absent, Left}       \* left over by a process that was killed
  /\ ctl = [c \in Operators |-> NoCommand]
  /\ commands = 0 /\ kills = 0

Process(p) == Acquire(p) \/ Claim(p) \/ Reopen(p) \/ Release(p) \/ Remove(p) \/ Dies(p)
CommandLine(c) == \/ StartCommand(c) \/ StopCommand(c) \/ NotePid(c) \/ Kill(c) \/ Wait(c)
                  \/ GiveUp(c) \/ SayReleased(c) \/ \E p \in Processes : Spawn(c, p)
Next == (\E p \in Processes : Process(p)) \/ (\E c \in Operators : CommandLine(c))
Spec == Init /\ [][Next]_vars

---------------------------------------------------------------------------
\* Properties

(* "Every device admits only one process" (service.py 44): never two with  *)
(* the lock, however starts, stops, kills and left-over files interleave.  *)
OneInstance == \A p, q \in Processes : at[p] = "running" /\ at[q] = "running" => p = q

(* Not kept by the code (README, Divergences): "stop means stopped"        *)
(* (xams_ctl.py 237).  A process whose pid is not noted yet, or was        *)
(* replaced by that of a second start that was then refused, is not known. *)
ReleasedMeansReleased ==
  [][\A c \in Operators : ctl[c].at = "stop" /\ ctl'[c].at = "released"
                            => \A p \in Processes : at[p] # "running"]_vars
===============================================================================
