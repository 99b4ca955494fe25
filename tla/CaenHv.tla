-------------------------------- MODULE CaenHv --------------------------------
(***************************************************************************)
(* One high-voltage supply and the service that drives it                  *)
(* (devices/caen.py, CaenService).                                         *)
(*                                                                         *)
(* Two threads share the serial port.  The main loop polls every channel,  *)
(* looks for trips, makes a tripped channel safe, and zeroes the setpoint  *)
(* of a channel whose enable switch is off.  The network thread carries    *)
(* out vset, output and clear commands, one at a time, and receives the    *)
(* service's own trip records back from the broker.  A transaction on the  *)
(* port keeps the other thread away, but neither the board nor the hand on *)
(* its switches waits, and the dictionaries of latches and counts have no  *)
(* lock at all: between any two accesses of one thread the other may run.  *)
(*                                                                         *)
(* A setpoint is zero or not (`loaded`); the trip bit of STAT and the      *)
(* channel's bit of BDALARM are one flag; the readings of one channel in   *)
(* one cycle are one action, and so are its two counts.                    *)
(***************************************************************************)
EXTENDS Naturals, Sequences, FiniteSets

CONSTANTS
  Channels,               \* the hv_vset channels of the supply
  FLAG_CONFIRM_READS,
  COLLAPSE_CONFIRM_READS,
  EchoDepth,              \* bound: trip records of the main loop on the way back
  MaxFaults,              \* bound: exchanges with the board that fail
  MaxEvents,              \* bound: trips, collapses and hands on the switches
  MaxCommands,            \* bound: commands from operators
  MaxRestarts             \* bound: how often the service dies

ASSUME HvAssumption ==
  /\ IsFiniteSet(Channels)
  /\ FLAG_CONFIRM_READS \in Nat \ {0, 1}
  /\ COLLAPSE_CONFIRM_READS \in Nat \ {0, 1}
  /\ {EchoDepth, MaxFaults, MaxEvents, MaxCommands, MaxRestarts} \subseteq Nat

VARIABLES
  \* the board
  disabled,      \* channels whose enable switch is off
  on,            \* energised channels
  loaded,        \* channels with a setpoint other than zero
  flagged,       \* channels with a trip flag
  failed,        \* channels whose output collapses when it is raised
  \* the service
  tripped,       \* _tripped: per channel "no", "unsafe" or "safe" (made_safe)
  flagHits, collapseHits,
  snapshot,      \* what the cycle read of each channel, or Unread
  stage, todo,   \* where the main loop is in its cycle, and for which channels
  watching,      \* the channel whose readings it is judging, and how far it is
  saving,        \* the channel it is making safe: its step and its record
  command,       \* what the network thread is carrying out
  locked,        \* the network thread holds the port
  \* the broker
  retained,      \* the trip record of each channel, as "no", "unsafe" or "safe"
  echo,          \* trip records on the way back to the service
  \* bounds and history
  faults, events, commands, restarts,
  unseen         \* history: channels that were cleared and have not been read since

board   == <<disabled, on, loaded, flagged, failed>>
hits    == <<flagHits, collapseHits>>
cycle   == <<snapshot, stage, todo, watching, saving>>
network == <<command, locked>>
broker  == <<retained, echo>>
bounds  == <<faults, events, commands, restarts>>
vars == <<board, tripped, hits, cycle, network, broker, bounds, unseen>>

Unread == {"unread"}
NothingRead == [c \in Channels |-> Unread]
NotWatching == [step |-> "none"]
NotSaving == [step |-> "none"]
Idle == [kind |-> "none"]

(* A reply that says OK; a refusal (LOCAL mode, or no command at all); or  *)
(* a command the board obeys although its reply is lost.                   *)
Replies == IF faults < MaxFaults THEN {"ok", "refused", "unheard"} ELSE {"ok"}
Obeyed(reply) == reply # "refused"
CountFaults(replies) ==
  faults' = faults + (IF \E i \in DOMAIN replies : replies[i] # "ok" THEN 1 ELSE 0)
Write(S, c, reply) == IF Obeyed(reply) THEN S \ {c} ELSE S

-------------------------------------------------------------------------------
(* The main loop: read ... *)
Collapsed(c) == c \in on \cap loaded \cap failed

Evidence(c) ==
  {e \in {"flagged", "collapsed", "disabled and loaded"} :
     \/ e = "flagged" /\ c \in flagged
     \/ e = "collapsed" /\ Collapsed(c)
     \/ e = "disabled and loaded" /\ c \in disabled \cap loaded}

NextStage(done, then) ==
  IF todo = {done} THEN stage' = then /\ todo' = Channels
                   ELSE stage' = stage /\ todo' = todo \ {done}

Poll(c) ==
  /\ stage = "poll" /\ c \in todo
  /\ ~locked
  /\ \E reply \in Replies :
       /\ snapshot' = [snapshot EXCEPT ![c] = IF reply = "ok" THEN Evidence(c) ELSE Unread]
       /\ unseen' = IF reply = "ok" THEN unseen \ {c} ELSE unseen
       /\ CountFaults(<<reply>>)
  /\ NextStage(c, "watch")
  /\ UNCHANGED <<board, tripped, hits, watching, saving, network, broker, events, commands,
                 restarts>>

(* ... _watch_trips: count what was seen ... *)
Count(n, seen) == IF seen THEN n + 1 ELSE 0
AtMost(n, most) == IF n < most THEN n ELSE most

FlagHits(c) == AtMost(Count(flagHits[c], "flagged" \in snapshot[c]), FLAG_CONFIRM_READS)
CollapseHits(c) ==
  AtMost(Count(collapseHits[c], "collapsed" \in snapshot[c]), COLLAPSE_CONFIRM_READS)

AtWatch(c) ==
  /\ stage = "watch" /\ c \in todo
  /\ watching = NotWatching /\ saving = NotSaving

WatchUnread(c) ==
  /\ AtWatch(c)
  /\ snapshot[c] = Unread
  /\ NextStage(c, "enforce")
  /\ UNCHANGED <<board, tripped, hits, snapshot, watching, saving, network, broker, bounds,
                 unseen>>

(* The network thread is between taking the trip of a channel out and      *)
(* taking its counts out.                                                  *)
Forgetting(c) == command.kind \in {"pop flags", "pop collapses"} /\ command.target = c

(* The old counts are read ...                                             *)
Watch(c) ==
  /\ AtWatch(c)
  /\ snapshot[c] # Unread
  /\ watching' = [step |-> "count", channel |-> c,
                  flags |-> FlagHits(c), collapses |-> CollapseHits(c),
                  popped |-> {}, raced |-> Forgetting(c)]
  /\ UNCHANGED <<board, tripped, hits, snapshot, stage, todo, saving, network, broker,
                 bounds, unseen>>

(* ... and the new ones stored; is the channel latched?                    *)
StoreCounts ==
  /\ watching.step = "count"
  /\ flagHits' = [flagHits EXCEPT ![watching.channel] = watching.flags]
  /\ collapseHits' = [collapseHits EXCEPT ![watching.channel] = watching.collapses]
  /\ watching' = [watching EXCEPT !.step = "latched?", !.flags = 0, !.collapses = 0]
  /\ UNCHANGED <<board, tripped, snapshot, stage, todo, saving, network, broker, bounds,
                 unseen>>

TestLatch ==
  /\ watching.step = "latched?"
  /\ watching' = [watching EXCEPT !.step = IF tripped[watching.channel] # "no" THEN "take"
                                           ELSE "confirmed?"]
  /\ UNCHANGED <<board, tripped, hits, snapshot, stage, todo, saving, network, broker,
                 bounds, unseen>>

(* The counts of the channel, or of one kind, were popped after they were  *)
(* stored, or its latch after it was seen: the KeyError ends the cycle,    *)
(* and the next one begins with reading.                                   *)
CycleFails ==
  /\ stage' = "poll" /\ todo' = Channels
  /\ snapshot' = NothingRead
  /\ watching' = NotWatching

NextChannel ==
  /\ NextStage(watching.channel, "enforce")
  /\ watching' = NotWatching
  /\ UNCHANGED snapshot

Missing(c) == \/ "flags" \in watching.popped
              \/ "collapses" \in watching.popped /\ flagHits[c] # FLAG_CONFIRM_READS
Confirmed(c) == \/ flagHits[c] = FLAG_CONFIRM_READS
                \/ collapseHits[c] = COLLAPSE_CONFIRM_READS

TestCounts ==
  /\ watching.step = "confirmed?"
  /\ LET c == watching.channel
     IN \/ Missing(c) /\ CycleFails
        \/ ~Missing(c) /\ ~Confirmed(c) /\ NextChannel
        \/ /\ ~Missing(c) /\ Confirmed(c)
           /\ watching' = [watching EXCEPT !.step = "latch"]
           /\ UNCHANGED <<snapshot, stage, todo>>
  /\ UNCHANGED <<board, tripped, hits, saving, network, broker, bounds, unseen>>

(* _latch_trip, and the channel is made safe; or so is one that is latched *)
(* already and not safe.                                                   *)
MakeItSafe ==
  /\ saving' = [step |-> "write", channel |-> watching.channel,
                ours |-> TRUE, safe |-> FALSE]
  /\ watching' = NotWatching
  /\ UNCHANGED <<snapshot, stage, todo>>

Latch ==
  /\ watching.step = "latch"
  /\ tripped' = [tripped EXCEPT ![watching.channel] = "unsafe"]
  /\ MakeItSafe
  /\ UNCHANGED <<board, hits, network, broker, bounds, unseen>>

Bug_StillUnsafe(c) == FALSE
StillUnsafe(c) == tripped[c] = "unsafe"

TakeRecord ==
  /\ watching.step = "take"
  /\ LET c == watching.channel
     IN \/ tripped[c] = "no" /\ CycleFails /\ UNCHANGED saving
        \/ tripped[c] # "no" /\ StillUnsafe(c) /\ MakeItSafe
        \/ tripped[c] # "no" /\ ~StillUnsafe(c) /\ NextChannel /\ UNCHANGED saving
  /\ UNCHANGED <<board, tripped, hits, network, broker, bounds, unseen>>

(* ... _make_safe: zero, then off, and tell, in the record this cycle      *)
(* found or made, which a clear may have taken out of _tripped meanwhile.  *)
MakeSafe ==
  /\ saving.step = "write"
  /\ ~locked
  /\ \E zeroed, off \in Replies :
       LET c == saving.channel
           safe == zeroed = "ok" /\ off = "ok"
       IN /\ loaded' = Write(loaded, c, zeroed)
          /\ on' = Write(on, c, off)
          /\ saving' = [saving EXCEPT !.step = "publish", !.safe = safe]
          /\ tripped' = IF safe /\ saving.ours THEN [tripped EXCEPT ![c] = "safe"]
                        ELSE tripped
          /\ CountFaults(<<zeroed, off>>)
  /\ UNCHANGED <<disabled, flagged, failed, hits, snapshot, stage, todo, watching, network,
                 broker, events, commands, restarts, unseen>>

PublishTrip(c, record) ==
  /\ retained' = [retained EXCEPT ![c] = record]
  /\ echo' = Append(echo, <<c, record>>)

PublishRecord ==
  /\ saving.step = "publish"
  /\ Len(echo) < EchoDepth
  /\ PublishTrip(saving.channel, IF saving.safe THEN "safe" ELSE "unsafe")
  /\ NextStage(saving.channel, "enforce")
  /\ saving' = NotSaving
  /\ UNCHANGED <<board, tripped, hits, snapshot, watching, network, bounds, unseen>>

(* ... _enforce_disabled_zero: the switch is read again under the lock.    *)
StillDisabled(c) == c \in disabled

Bug_Loaded(c) == "disabled and loaded" \in snapshot[c] /\ c \in on
LoadedWhenRead(c) == "disabled and loaded" \in snapshot[c]

EnforceDisabledZero(c) ==
  /\ stage = "enforce" /\ c \in todo
  /\ LoadedWhenRead(c) => ~locked
  /\ IF LoadedWhenRead(c) /\ StillDisabled(c)
     THEN \E reply \in Replies : /\ loaded' = Write(loaded, c, reply)
                                 /\ CountFaults(<<reply>>)
     ELSE UNCHANGED <<loaded, faults>>
  /\ NextStage(c, "poll")
  /\ snapshot' = [snapshot EXCEPT ![c] = Unread]
  /\ UNCHANGED <<disabled, on, flagged, failed, tripped, hits, watching, saving,
                 network, broker, events, commands, restarts, unseen>>

-------------------------------------------------------------------------------
(* The network thread: _handle_vset reads the status word ... *)
Free == command = Idle
MayCommand == Free /\ ~locked /\ commands < MaxCommands
CountCommand == commands' = commands + 1

VsetCheck(c, load) ==
  /\ MayCommand
  /\ load => c \notin disabled
  /\ command' = [kind |-> "vset", channel |-> c, load |-> load]
  /\ CountCommand
  /\ UNCHANGED <<board, tripped, hits, cycle, locked, broker, faults, events, restarts,
                 unseen>>

(* ... and writes the setpoint in a transaction. *)
VsetWrite ==
  /\ command.kind = "vset"
  /\ \E reply \in Replies :
       /\ loaded' = IF ~Obeyed(reply) THEN loaded
                    ELSE IF command.load THEN loaded \cup {command.channel}
                    ELSE loaded \ {command.channel}
       /\ CountFaults(<<reply>>)
  /\ command' = Idle
  /\ UNCHANGED <<disabled, on, flagged, failed, tripped, hits, cycle, locked,
                 broker, events, commands, restarts, unseen>>

(* _handle_output looks at the latch ... *)
OutputCheck(c, turnOn) ==
  /\ MayCommand
  /\ turnOn => tripped[c] = "no"
  /\ command' = [kind |-> "output", channel |-> c, turnOn |-> turnOn]
  /\ CountCommand
  /\ UNCHANGED <<board, tripped, hits, cycle, locked, broker, faults, events, restarts,
                 unseen>>

(* ... and then, in a transaction, at the switch, before it writes. *)
MayEnergise(c) == c \notin disabled

OutputWrite ==
  /\ command.kind = "output"
  /\ LET c == command.channel
     IN \E reply \in Replies :
          /\ on' = IF ~Obeyed(reply) THEN on
                   ELSE IF ~command.turnOn THEN on \ {c}
                   ELSE IF MayEnergise(c) THEN on \cup {c} ELSE on
          /\ CountFaults(<<reply>>)
  /\ command' = Idle
  /\ UNCHANGED <<disabled, loaded, flagged, failed, tripped, hits, cycle, locked,
                 broker, events, commands, restarts, unseen>>

(* _handle_clear, in one transaction: read every channel of the supply.    *)
(* `heard` are the channels whose status word came, and BDALARM comes or   *)
(* not; a channel nobody heard of is tripped only if the latch says so,    *)
(* and nobody knows that it is on.                                         *)
ClearRead(c) ==
  /\ MayCommand
  /\ \E heard \in SUBSET Channels, alarmHeard \in BOOLEAN :
       LET complete == heard = Channels /\ alarmHeard
           flagSeen == IF alarmHeard THEN flagged ELSE flagged \cap heard
           latched == {s \in Channels : tripped[s] # "no" \/ s \in flagSeen}
           targets == latched \cup {c}
       IN /\ c \in heard
          /\ complete \/ faults < MaxFaults
          /\ c \in latched \/ c \notin on
          /\ command' = [kind |-> "clear", channel |-> c, targets |-> targets,
                         unsafe |-> targets, seenOn |-> on \cap heard]
          /\ faults' = faults + (IF complete THEN 0 ELSE 1)
  /\ locked' = TRUE
  /\ CountCommand
  /\ UNCHANGED <<board, tripped, hits, cycle, broker, events, restarts, unseen>>

(* Zero each target, and switch off the ones seen on; the first failure    *)
(* ends the command.                                                       *)
ClearZero(s) ==
  /\ command.kind = "clear" /\ s \in command.unsafe
  /\ \E zeroed, off \in Replies :
       /\ loaded' = IF s \in loaded THEN Write(loaded, s, zeroed) ELSE loaded
       /\ LET zeroFails == s \in loaded /\ zeroed # "ok"
              switchOff == s \in command.seenOn
              offFails == switchOff /\ off # "ok"
          IN /\ on' = IF ~zeroFails /\ switchOff THEN Write(on, s, off) ELSE on
             /\ IF zeroFails \/ offFails
                THEN command' = Idle /\ locked' = FALSE
                ELSE command' = [command EXCEPT !.unsafe = @ \ {s}] /\ UNCHANGED locked
       /\ CountFaults(<<zeroed, off>>)
  /\ UNCHANGED <<disabled, flagged, failed, tripped, hits, cycle, broker, events,
                 commands, restarts, unseen>>

(* BDCLR clears the flags of the whole board; whether it brings a          *)
(* collapsed output back is not known.                                     *)
Bug_MayClear == TRUE
MayClear == command.unsafe = {}

ClearSend ==
  /\ command.kind = "clear" /\ MayClear
  /\ \E reply \in Replies :
       /\ IF Obeyed(reply) THEN flagged' = {} /\ failed' \in {failed, {}}
                           ELSE UNCHANGED <<flagged, failed>>
       /\ command' = IF reply = "ok"
                     THEN [kind |-> "forget", channel |-> command.channel,
                           targets |-> command.targets]
                     ELSE Idle
       /\ CountFaults(<<reply>>)
  /\ locked' = FALSE
  /\ UNCHANGED <<disabled, on, loaded, tripped, hits, cycle, broker, events,
                 commands, restarts, unseen>>

(* Outside it, one target after another is popped from _tripped, then from *)
(* _flag_hits, then from _collapse_hits, and the broker is told.           *)
Forgotten(c) == IF saving # NotSaving /\ saving.channel = c
                THEN [saving EXCEPT !.ours = FALSE] ELSE saving

PoppedUnder(c, counts) ==
  IF watching # NotWatching /\ watching.channel = c
  THEN [watching EXCEPT !.raced = TRUE,
                        !.popped = IF watching.step = "count" THEN {} ELSE @ \cup counts]
  ELSE watching

ForgetTrip(s) ==
  /\ command.kind = "forget" /\ s \in command.targets
  /\ tripped' = [tripped EXCEPT ![s] = "no"]
  /\ saving' = Forgotten(s)
  /\ watching' = PoppedUnder(s, {})
  /\ unseen' = unseen \cup {s}
  /\ command' = [kind |-> "pop flags", channel |-> command.channel,
                 targets |-> command.targets \ {s}, target |-> s, had |-> tripped[s] # "no"]
  /\ UNCHANGED <<board, hits, snapshot, stage, todo, locked, broker, bounds>>

Bug_HitsAfterClear(h, s) == h
HitsAfterClear(h, s) == [h EXCEPT ![s] = 0]

PopFlags ==
  /\ command.kind = "pop flags"
  /\ flagHits' = HitsAfterClear(flagHits, command.target)
  /\ watching' = PoppedUnder(command.target, {"flags"})
  /\ command' = [command EXCEPT !.kind = "pop collapses"]
  /\ UNCHANGED <<board, tripped, collapseHits, snapshot, stage, todo, saving, locked,
                 broker, bounds, unseen>>

PopCollapses ==
  /\ command.kind = "pop collapses"
  /\ collapseHits' = HitsAfterClear(collapseHits, command.target)
  /\ watching' = PoppedUnder(command.target, {"collapses"})
  /\ command' = [command EXCEPT !.kind = "tell"]
  /\ UNCHANGED <<board, tripped, flagHits, snapshot, stage, todo, saving, locked,
                 broker, bounds, unseen>>

TellForgotten ==
  /\ command.kind = "tell"
  /\ IF command.had \/ command.target = command.channel
     THEN PublishTrip(command.target, "no")
     ELSE UNCHANGED broker
  /\ command' = IF command.targets = {} THEN Idle
                ELSE [kind |-> "forget", channel |-> command.channel,
                      targets |-> command.targets]
  /\ UNCHANGED <<board, tripped, hits, cycle, locked, bounds, unseen>>

(* _on_trip_record: a record restores a latch that is not there, an empty  *)
(* one removes it.                                                         *)
Bug_AfterRecord(old, record) == IF old # "no" THEN old ELSE record
AfterRecord(old, record) == IF record # "no" /\ old # "no" THEN old ELSE record

OnTripRecord ==
  /\ Free
  /\ echo # <<>>
  /\ LET c == Head(echo)[1]
         record == Head(echo)[2]
     IN /\ tripped' = [tripped EXCEPT ![c] = AfterRecord(@, record)]
        /\ saving' = IF record = "no" THEN Forgotten(c) ELSE saving
  /\ echo' = Tail(echo)
  /\ UNCHANGED <<board, hits, snapshot, stage, todo, watching, network, retained, bounds,
                 unseen>>

-------------------------------------------------------------------------------
(* The board and the people in front of it. *)
Event == events < MaxEvents /\ events' = events + 1
ElsewhereUnchanged ==
  UNCHANGED <<tripped, hits, cycle, network, broker, faults, commands, restarts, unseen>>

(* The channel trips as the manual says, flagged and switched off, or its  *)
(* output collapses and the board says nothing.                            *)
FlagTrip(c) ==
  /\ Event /\ c \in on \ flagged
  /\ flagged' = flagged \cup {c}
  /\ on' = on \ {c}
  /\ UNCHANGED <<disabled, loaded, failed>> /\ ElsewhereUnchanged

Collapse(c) ==
  /\ Event /\ c \notin failed
  /\ failed' = failed \cup {c}
  /\ UNCHANGED <<disabled, on, loaded, flagged>> /\ ElsewhereUnchanged

SwitchOff(c) ==
  /\ Event /\ c \notin disabled
  /\ disabled' = disabled \cup {c}
  /\ on' = on \ {c}
  /\ UNCHANGED <<loaded, flagged, failed>> /\ ElsewhereUnchanged

SwitchOn(c) ==
  /\ Event /\ c \in disabled
  /\ disabled' = disabled \ {c}
  /\ UNCHANGED <<on, loaded, flagged, failed>> /\ ElsewhereUnchanged

Unlatched == [c \in Channels |-> "no"]
NoHits == [c \in Channels |-> 0]

(* The service dies; the broker delivers the retained records to the new   *)
(* one.                                                                    *)
Restart ==
  /\ restarts < MaxRestarts
  /\ restarts' = restarts + 1
  /\ tripped' = Unlatched
  /\ flagHits' = NoHits /\ collapseHits' = NoHits
  /\ snapshot' = NothingRead /\ stage' = "poll" /\ todo' = Channels
  /\ watching' = NotWatching /\ saving' = NotSaving
  /\ command' = Idle /\ locked' = FALSE
  /\ unseen' = {}
  /\ LET held == {c \in Channels : retained[c] # "no"}
     IN \E order \in [1..Cardinality(held) -> held] :
          /\ \A c \in held : \E i \in DOMAIN order : order[i] = c
          /\ echo' = [i \in DOMAIN order |-> <<order[i], retained[order[i]]>>]
  /\ UNCHANGED <<board, retained, faults, events, commands>>

-------------------------------------------------------------------------------
(* The service starts on a supply somebody is using. *)
Init ==
  /\ tripped = Unlatched
  /\ flagHits = NoHits /\ collapseHits = NoHits
  /\ snapshot = NothingRead /\ stage = "poll" /\ todo = Channels
  /\ watching = NotWatching /\ saving = NotSaving
  /\ command = Idle /\ locked = FALSE
  /\ unseen = {}
  /\ disabled \in SUBSET Channels
  /\ on \in SUBSET (Channels \ disabled)
  /\ loaded \in SUBSET Channels
  /\ flagged = {} /\ failed = {}
  /\ retained = Unlatched
  /\ echo = <<>>
  /\ faults = 0 /\ events = 0 /\ commands = 0 /\ restarts = 0

MainLoop ==
  \/ \E c \in Channels : \/ Poll(c) \/ WatchUnread(c) \/ Watch(c)
                         \/ EnforceDisabledZero(c)
  \/ StoreCounts \/ TestLatch \/ TestCounts \/ Latch \/ TakeRecord
  \/ MakeSafe \/ PublishRecord

NetworkThread ==
  \/ \E c \in Channels, yes \in BOOLEAN : VsetCheck(c, yes) \/ OutputCheck(c, yes)
  \/ VsetWrite \/ OutputWrite
  \/ \E c \in Channels : ClearRead(c) \/ ClearZero(c) \/ ForgetTrip(c)
  \/ ClearSend \/ PopFlags \/ PopCollapses \/ TellForgotten
  \/ OnTripRecord

Surroundings ==
  \/ \E c \in Channels : FlagTrip(c) \/ Collapse(c) \/ SwitchOff(c) \/ SwitchOn(c)
  \/ Restart

Next == MainLoop \/ NetworkThread \/ Surroundings

Spec == Init /\ [][Next]_vars

(* Both threads run; a command in progress is finished, and records come   *)
(* back.  Nobody has to send a command.                                    *)
FinishCommand ==
  \/ VsetWrite \/ OutputWrite
  \/ ClearSend \/ PopFlags \/ PopCollapses \/ TellForgotten
  \/ \E c \in Channels : ClearZero(c) \/ ForgetTrip(c)

Fairness ==
  /\ WF_vars(MainLoop)
  /\ WF_vars(FinishCommand)
  /\ WF_vars(OnTripRecord)

FairSpec == Spec /\ Fairness

-------------------------------------------------------------------------------
Latches == {"no", "unsafe", "safe"}

TypeOK ==
  /\ on \subseteq Channels \ disabled
  /\ disabled \cup loaded \cup flagged \cup failed \cup todo \cup unseen \subseteq Channels
  /\ {tripped, retained} \subseteq [Channels -> Latches]
  /\ flagHits \in [Channels -> 0..FLAG_CONFIRM_READS]
  /\ collapseHits \in [Channels -> 0..COLLAPSE_CONFIRM_READS]
  /\ stage \in {"poll", "watch", "enforce"}
  /\ watching # NotWatching => stage = "watch" /\ watching.channel \in todo
  /\ saving # NotSaving => stage = "watch" /\ saving.channel \in todo
  /\ locked <=> command.kind = "clear"
  /\ echo \in Seq(Channels \X Latches)

(* caen.py:1594-1604: BDCLR is sent only when every channel that was seen  *)
(* tripped, and the one asked about, is at zero, and off if it was seen    *)
(* on.                                                                     *)
ClearedWhenUnloaded ==
  [][ClearSend => command.targets \cap (loaded \cup (on \cap command.seenOn)) = {}]_vars

(* A channel that was cleared is latched again on a reading from before    *)
(* the clear only if the loop was judging that very reading while the      *)
(* clear popped the channel: a reading that waits to be counted, and the   *)
(* counts of earlier ones, latch nothing.                                  *)
OldEvidenceLatchesByARace ==
  [][\A c \in Channels :
        Latch /\ watching.channel = c => c \notin unseen \/ watching.raced]_vars

(* The broker's trip records, which the pages show, and the latch, which   *)
(* blocks turning on, agree whenever nothing is on its way between them    *)
(* and no clear is in the middle of a channel.                             *)
BetweenPops == command.kind \in {"pop flags", "pop collapses", "tell"}

RecordsAgree ==
  echo = <<>> /\ saving = NotSaving /\ ~BetweenPops =>
    \A c \in Channels : retained[c] = "no" <=> tripped[c] = "no"

(* A trip that lasts is latched, and a latched channel is made safe, as    *)
(* soon as the board obeys, through failed exchanges and restarts.         *)
TripIsAnswered ==
  \A c \in Channels :
    /\ (c \in flagged \/ Collapsed(c)) /\ tripped[c] = "no"
         ~> tripped[c] # "no" \/ ~(c \in flagged \/ Collapsed(c))
    /\ tripped[c] = "unsafe" ~> tripped[c] # "unsafe"

(* caen.py:1101-1107: a disabled channel does not keep its setpoint. *)
DisabledIsUnloaded ==
  \A c \in Channels : c \in disabled \cap loaded ~> c \notin disabled \cap loaded

-------------------------------------------------------------------------------
(* caen.py:473-475, of _tripped: "Present until somebody clears it; while  *)
(* present the channel cannot be turned on".                               *)
LatchedCannotBeTurnedOn ==
  [][\A c \in Channels : tripped[c] # "no" => c \notin on' \ on]_vars

(* caen.py:1710-1711: "The acknowledgement: the latch goes".  The reading   *)
(* that was being judged when it went brings it back.                      *)
AcknowledgedIsForgotten ==
  [][\A c \in Channels : Latch /\ watching.channel = c => c \notin unseen]_vars

(* caen.py:1594-1598: VSET goes to zero before the alarm is cleared, "and  *)
(* the channel is switched OFF"; a tripped sibling whose status word did   *)
(* not come is cleared without.                                            *)
ClearedWhenOff == [][ClearSend => command.targets \cap on = {}]_vars
===============================================================================
