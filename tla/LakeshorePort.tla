----------------------------- MODULE LakeshorePort -----------------------------
(***************************************************************************)
(* The serial port of the temperature controller (devices/lakeshore.py),   *)
(* shared by the service's loop, which reads once a second and rebuilds    *)
(* the link after failed reads, and the network thread, which carries out  *)
(* commands: read the old value, write, read back, under one lock.         *)
(*                                                                         *)
(* A reply carries no name: it answers whoever reads next.  An instrument  *)
(* that is slow answers after the reader gave up.  Setpoint and heater     *)
(* range are commanded in the same way; the model has one setting.         *)
(***************************************************************************)
EXTENDS Naturals, Sequences

CONSTANTS
  Settings,        \* values of the setting, and of what else is read: plausible numbers
  ReadsToReconnect,   \* failed reads in a row after which the link is rebuilt (2)
  MaxCommands,     \* bound: commands that pass the checks
  MaxTroubles      \* bound: replies late or missing, writes not taken, ports that do not open

PortAssumption ==
  /\ Settings # {} /\ 0 \notin Settings /\ ReadsToReconnect \in Nat \ {0}
  /\ {MaxCommands, MaxTroubles} \subseteq Nat

None == 0        \* number(): no answer, and no value of a setting
Asks == <<"reading", "setting">>     \* what one read() asks for, in order

VARIABLES
  device,      \* _device: [is: "none", "closed" or "open", object: which LakeShore it is]
  lock,        \* who holds the lock of that object: "free", "loop" or "command"
  setting,     \* the instrument
  buffer,      \* replies received and not read
  late,        \* replies on their way, after the reader gave up
  loop,        \* the loop: where it is, the query it is at, queries and reads that failed
  command,     \* the network thread: where it is, its object, the value wanted, what it
               \* read back, and (history) whether the instrument held the value then
  received, answered, okAnswers,   \* commands past the checks, answered, answered ok
  troubles

vars == <<device, lock, setting, buffer, late, loop, command, received, answered, okAnswers,
          troubles>>

Reply(value, isLate) == [value |-> value, late |-> isLate]
NoReply == [value |-> None, late |-> FALSE]
Replies == [value : Settings \cup {None}, late : BOOLEAN]
NoCommand == [at |-> "idle", object |-> 0, wanted |-> None, got |-> NoReply, held |-> FALSE]

TypeOK ==
  /\ device \in [is : {"none", "closed", "open"}, object : Nat]
  /\ lock \in {"free", "loop", "command"} /\ setting \in Settings
  /\ buffer \in Seq(Replies) /\ late \in Seq(Replies)
  /\ loop \in [at : {"rest", "ask", "take", "judge", "identify", "open"},
               query : 1..Len(Asks) + 1, failed : 0..Len(Asks), reads : 0..ReadsToReconnect]
  /\ command \in [at : {"idle", "checked", "enter", "before", "send", "after", "readback",
                        "answer"}, object : Nat, wanted : Settings \cup {None},
                  got : Replies, held : BOOLEAN]
  /\ {received, answered, okAnswers} \subseteq Nat

Trouble == troubles < MaxTroubles /\ troubles' = troubles + 1
NoTrouble == UNCHANGED troubles

---------------------------------------------------------------------------
\* The instrument and the line

(* The input buffer is emptied, the question written, the answer is there  *)
(* in time, comes late, or does not come.                                  *)
Question(answers) ==
  \E v \in answers :
    \/ buffer' = <<Reply(v, FALSE)>> /\ UNCHANGED late /\ NoTrouble
    \/ buffer' = <<>> /\ late' = Append(late, Reply(v, TRUE)) /\ Trouble
    \/ buffer' = <<>> /\ UNCHANGED late /\ Trouble

Arrive ==
  /\ late # <<>> /\ late' = Tail(late)
  /\ buffer' = IF device.is = "open" THEN Append(buffer, Head(late)) ELSE buffer
  /\ UNCHANGED <<device, lock, setting, loop, command, received, answered, okAnswers, troubles>>

(* What read_until returns: the first line there, or nothing in time.      *)
Answer == IF buffer = <<>> THEN NoReply ELSE Head(buffer)
Taken == buffer' = IF buffer = <<>> THEN <<>> ELSE Tail(buffer)

---------------------------------------------------------------------------
\* The loop: read(), and reconnect() after reads that failed

LoopStep == UNCHANGED <<setting, command, received, answered, okAnswers>>

StartRead ==
  /\ loop.at = "rest" /\ loop' = [loop EXCEPT !.at = "ask", !.query = 1, !.failed = 0]
  /\ UNCHANGED <<device, lock, buffer, late>> /\ NoTrouble /\ LoopStep

(* A closed port answers nothing and takes no lock; without a device the   *)
(* read raises.                                                            *)
LoopAsk ==
  /\ loop.at = "ask"
  /\ IF device.is = "open"
       THEN /\ lock = "free" /\ lock' = "loop"
            /\ Question(IF Asks[loop.query] = "setting" THEN {setting} ELSE Settings)
       ELSE UNCHANGED <<lock, buffer, late>> /\ NoTrouble
  /\ loop' = [loop EXCEPT !.at = "take"]
  /\ UNCHANGED device /\ LoopStep

Bug_Released == IF buffer = <<>> THEN lock ELSE "free"
Released == "free"

LoopTake ==
  /\ loop.at = "take"
  /\ LET answered_ == device.is = "open" /\ buffer # <<>>
         last == loop.query = Len(Asks)
     IN loop' = [loop EXCEPT !.failed = IF answered_ THEN @ ELSE @ + 1,
                             !.query = @ + 1, !.at = IF last THEN "judge" ELSE "ask"]
  /\ lock' = IF lock = "loop" THEN Released ELSE lock
  /\ Taken /\ UNCHANGED <<device, late>> /\ NoTrouble /\ LoopStep

Lost == loop.failed = Len(Asks)      \* no query was answered: the read raises

ReadOk == /\ loop.at = "judge" /\ ~Lost /\ loop' = [loop EXCEPT !.at = "rest", !.reads = 0]
          /\ UNCHANGED <<device, lock, buffer, late>> /\ NoTrouble /\ LoopStep

(* reconnect: the old object is closed and forgotten, whoever is using it. *)
ReadFails ==
  /\ loop.at = "judge" /\ Lost
  /\ IF loop.reads + 1 < ReadsToReconnect
       THEN loop' = [loop EXCEPT !.at = "rest", !.reads = @ + 1] /\ UNCHANGED <<device, lock, buffer>>
       ELSE /\ loop' = [loop EXCEPT !.at = "identify", !.reads = ReadsToReconnect - 1]
            /\ device' = [device EXCEPT !.is = "none"]
            /\ lock' = "free" /\ buffer' = <<>>
  /\ UNCHANGED late /\ NoTrouble /\ LoopStep

(* verify_identity: a new object once the instrument said who it is, put   *)
(* in place before its port is opened.                                     *)
Identify ==
  /\ loop.at = "identify"
  /\ \/ /\ device' = [is |-> "closed", object |-> device.object + 1]
        /\ loop' = [loop EXCEPT !.at = "open"] /\ NoTrouble
     \/ loop' = [loop EXCEPT !.at = "rest"] /\ UNCHANGED device /\ Trouble
  /\ UNCHANGED <<lock, buffer, late>> /\ LoopStep

OpenPort ==
  /\ loop.at = "open"
  /\ \/ device' = [device EXCEPT !.is = "open"] /\ loop' = [loop EXCEPT !.at = "rest", !.reads = 0]
        /\ NoTrouble
     \/ loop' = [loop EXCEPT !.at = "rest"] /\ UNCHANGED device /\ Trouble
  /\ UNCHANGED <<lock, buffer, late>> /\ LoopStep

Loop == \/ StartRead \/ LoopAsk \/ LoopTake \/ ReadOk \/ ReadFails \/ Identify \/ OpenPort

---------------------------------------------------------------------------
\* The network thread: _handle_setpoint, _handle_range

CommandStep == UNCHANGED <<device, loop>>
Goes(where) == command' = [command EXCEPT !.at = where]
InPlace == device.is # "none" /\ device.object = command.object
Mine == InPlace /\ device.is = "open"

(* _check_writable: a device, an output that is written to, a value within *)
(* its limits.                                                             *)
Receive(v) ==
  /\ command.at = "idle" /\ received < MaxCommands /\ received' = received + 1
  /\ device.is # "none"
  /\ command' = [NoCommand EXCEPT !.at = "checked", !.wanted = v]
  /\ UNCHANGED <<lock, setting, buffer, late, answered, okAnswers, troubles>> /\ CommandStep

(* `device = self._device`, looked up again.                               *)
PickDevice ==
  /\ command.at = "checked" /\ device.is # "none"
  /\ command' = [command EXCEPT !.at = "enter", !.object = device.object]
  /\ UNCHANGED <<lock, setting, buffer, late, received, answered, okAnswers, troubles>>
  /\ CommandStep

(* Gone meanwhile: the handler raises, the bus logs it.                    *)
DeviceGone ==
  /\ command.at = "checked" /\ device.is = "none" /\ command' = NoCommand
  /\ UNCHANGED <<lock, setting, buffer, late, received, answered, okAnswers, troubles>>
  /\ CommandStep

(* The transaction holds the lock from the first question to the last      *)
(* answer.                                                                 *)
Bug_TakeLock == UNCHANGED lock
TakeLock == lock = "free" /\ lock' = "command"

Enter ==
  /\ command.at = "enter"
  /\ IF InPlace THEN TakeLock ELSE UNCHANGED lock
  /\ IF Mine THEN Question({setting}) ELSE UNCHANGED <<buffer, late>> /\ NoTrouble
  /\ Goes("before")
  /\ UNCHANGED <<setting, received, answered, okAnswers>> /\ CommandStep

TakeBefore ==
  /\ command.at = "before" /\ Goes("send")
  /\ IF Mine THEN Taken ELSE UNCHANGED buffer
  /\ UNCHANGED <<lock, setting, late, received, answered, okAnswers, troubles>> /\ CommandStep

(* The write goes out or fails; the instrument need not take it.           *)
Send ==
  /\ command.at = "send"
  /\ \/ /\ Mine /\ buffer' = <<>> /\ Goes("after")
        /\ \/ setting' = command.wanted /\ NoTrouble
           \/ UNCHANGED setting /\ Trouble
     \/ Mine /\ Goes("answer") /\ Trouble /\ UNCHANGED <<buffer, setting>>
     \/ ~Mine /\ Goes("answer") /\ NoTrouble /\ UNCHANGED <<buffer, setting>>
  /\ UNCHANGED <<lock, late, received, answered, okAnswers>> /\ CommandStep

AskAfter ==
  /\ command.at = "after"
  /\ IF Mine THEN Question({setting}) ELSE UNCHANGED <<buffer, late>> /\ NoTrouble
  /\ command' = [command EXCEPT !.at = "readback", !.held = setting = command.wanted]
  /\ UNCHANGED <<lock, setting, received, answered, okAnswers>> /\ CommandStep

TakeAfter ==
  /\ command.at = "readback"
  /\ command' = [command EXCEPT !.at = "answer", !.got = IF Mine THEN Answer ELSE NoReply]
  /\ IF Mine THEN Taken ELSE UNCHANGED buffer
  /\ UNCHANGED <<lock, setting, late, received, answered, okAnswers, troubles>> /\ CommandStep

(* Answered ok only for a read-back of the value asked for.                *)
Confirmed == command.got.value = command.wanted

GiveAnswer ==
  /\ command.at = "answer" /\ answered' = answered + 1
  /\ okAnswers' = IF Confirmed THEN okAnswers + 1 ELSE okAnswers
  /\ lock' = IF lock = "command" THEN "free" ELSE lock
  /\ command' = NoCommand
  /\ UNCHANGED <<setting, buffer, late, received, troubles>> /\ CommandStep

Command == \/ PickDevice \/ DeviceGone \/ Enter \/ TakeBefore \/ Send \/ AskAfter \/ TakeAfter
           \/ GiveAnswer

(* Somebody at the front panel.                                            *)
FrontPanel(v) ==
  /\ v # setting /\ Trouble /\ setting' = v
  /\ UNCHANGED <<device, lock, buffer, late, loop, command, received, answered, okAnswers>>

---------------------------------------------------------------------------
Init ==
  /\ device = [is |-> "open", object |-> 0] /\ lock = "free" /\ setting \in Settings
  /\ buffer = <<>> /\ late = <<>> /\ command = NoCommand
  /\ loop = [at |-> "rest", query |-> 1, failed |-> 0, reads |-> 0]
  /\ received = 0 /\ answered = 0 /\ okAnswers = 0 /\ troubles = 0

Next == Arrive \/ Loop \/ Command \/ \E v \in Settings : Receive(v) \/ FrontPanel(v)
Spec == Init /\ [][Next]_vars

(* Both threads go on.  The lock favours nobody, but the loop sleeps       *)
(* between its reads: a command that waits for it gets it.                 *)
Fairness == WF_vars(Loop) /\ SF_vars(Command)
FairSpec == Spec /\ Fairness

---------------------------------------------------------------------------
\* Properties

(* A command is answered ok only when the instrument held the value asked  *)
(* for after the write - unless what was read back was the late answer to  *)
(* an earlier question (transaction, _handle_setpoint, _handle_range).     *)
OkMeansHeld ==
  [][okAnswers' = okAnswers + 1 => command.held \/ command.got.late]_vars

(* No command hangs: neither thread waits for the other's lock for ever,   *)
(* whatever times out and whenever the link is rebuilt.                    *)
CommandsEnd == command.at # "idle" ~> command.at = "idle"

(* "A rejected command is acknowledged with a reason and audited, never    *)
(* silently dropped" (docs/drivers/lakeshore.md 129): every command that   *)
(* came was answered.                                                      *)
NeverDropped == command.at = "idle" => answered = received

(* Not kept by the code (README, Divergences): an answer other than ok     *)
(* leaves the instrument as it was.                                        *)
RefusedLeavesAlone ==
  [][answered' = answered + 1 /\ okAnswers' = okAnswers => ~command.held]_vars
===============================================================================
