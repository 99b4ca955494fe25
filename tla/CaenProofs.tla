------------------------------ MODULE CaenProofs ------------------------------
(***************************************************************************)
(* What is proved of the CAEN service: of one supply with any number of    *)
(* channels, faults, commands, events and restarts (CaenHv), and of any    *)
(* number of supplies and ports, whatever cables are moved (CaenLink).     *)
(***************************************************************************)
EXTENDS CaenService, FiniteSetTheorems, TLAPS

Vsets == [kind : {"vset"}, channel : Channels, load : BOOLEAN]
Outputs == [kind : {"output"}, channel : Channels, turnOn : BOOLEAN]
Clears ==
  [kind : {"clear"}, channel : Channels, targets : SUBSET Channels,
   unsafe : SUBSET Channels, seenOn : SUBSET Channels]
Forgets == [kind : {"forget"}, channel : Channels, targets : SUBSET Channels]
Pops ==
  [kind : {"pop flags", "pop collapses", "tell"}, channel : Channels,
   targets : SUBSET Channels, target : Channels, had : BOOLEAN]

Commands ==
  {Idle} \cup Vsets \cup Outputs \cup Clears \cup Forgets \cup Pops

Watchings ==
  [step : {"count", "latched?", "confirmed?", "take", "latch"}, channel : Channels,
   flags : 0..FLAG_CONFIRM_READS, collapses : 0..COLLAPSE_CONFIRM_READS,
   popped : SUBSET {"flags", "collapses"}, raced : BOOLEAN]

Savings ==
  {NotSaving} \cup [step : {"write", "publish"}, channel : Channels,
                    ours : BOOLEAN, safe : BOOLEAN]

Readings == SUBSET {"unread", "flagged", "collapsed", "disabled and loaded"}

(* TypeOK, with the shape of the records it leaves open; the loop judges a *)
(* channel or makes one safe, not both at once.                            *)
TypeInv ==
  /\ TypeOK
  /\ command \in Commands
  /\ watching \in {NotWatching} \cup Watchings
  /\ saving \in Savings
  /\ watching = NotWatching \/ saving = NotSaving
  /\ snapshot \in [Channels -> Readings]

(* While BDCLR is being prepared, what has been dealt with stays dealt     *)
(* with: the network thread holds the port and everybody else only turns   *)
(* things off.                                                             *)
ClearInv ==
  command.kind = "clear" =>
    (command.targets \ command.unsafe) \cap (loaded \cup (on \cap command.seenOn)) = {}

SavingFor(c) == saving # NotSaving /\ saving.channel = c
Watching(c) == watching # NotWatching /\ watching.channel = c

(* The reading of the channel waits to be counted.                         *)
Uncounted(c) ==
  /\ snapshot[c] # Unread
  /\ \/ stage = "poll" /\ c \notin todo
     \/ stage = "watch" /\ c \in todo /\ ~SavingFor(c) /\ ~Watching(c)

(* Of a channel that has not been read since it was cleared, nothing has   *)
(* been counted while its last reading waits to be counted; if the clear   *)
(* did not come while it was judged, it has been counted at most once.     *)
Judged(c) ==
  /\ watching.step = "count" => watching.flags <= 1 /\ watching.collapses <= 1
  /\ watching.step # "count" => flagHits[c] <= 1 /\ collapseHits[c] <= 1
  /\ watching.step # "latch"

FreshInv ==
  \A c \in unseen :
    /\ Uncounted(c) =>
         /\ ~Forgetting(c) => flagHits[c] = 0 /\ collapseHits[c] = 0
         /\ command.kind = "pop collapses" => flagHits[c] = 0
    /\ Watching(c) /\ ~watching.raced => Judged(c) /\ ~Forgetting(c)
-------------------------------------------------------------------------------
(* The record of a command by its kind. *)
LEMMA CommandRecord ==
  ASSUME TypeInv
  PROVE  /\ command.kind = "vset" => command \in Vsets
         /\ command.kind = "output" => command \in Outputs
         /\ command.kind = "clear" => command \in Clears
         /\ command.kind = "forget" => command \in Forgets
         /\ command.kind \in {"pop flags", "pop collapses", "tell"} => command \in Pops
<1>1. command = Idle => command.kind = "none"
  BY DEF Idle
<1>2. command \in Vsets => command.kind = "vset"
  BY DEF Vsets
<1>3. command \in Outputs => command.kind = "output"
  BY DEF Outputs
<1>4. command \in Clears => command.kind = "clear"
  BY DEF Clears
<1>5. command \in Forgets => command.kind = "forget"
  BY DEF Forgets
<1>6. command \in Pops => command.kind \in {"pop flags", "pop collapses", "tell"}
  BY DEF Pops
<1> QED
  BY <1>1, <1>2, <1>3, <1>4, <1>5, <1>6 DEF TypeInv, Commands

LEMMA HitTypes ==
  ASSUME TypeInv, NEW c \in Channels
  PROVE  /\ FlagHits(c) \in 0..FLAG_CONFIRM_READS
         /\ CollapseHits(c) \in 0..COLLAPSE_CONFIRM_READS
  BY HvAssumption DEF TypeInv, TypeOK, FlagHits, CollapseHits, Count, AtMost

LEMMA StageTypes ==
  ASSUME TypeInv, NEW done \in Channels, NEW then \in {"poll", "watch", "enforce"},
         NextStage(done, then)
  PROVE  stage' \in {"poll", "watch", "enforce"} /\ todo' \subseteq Channels
  BY DEF TypeInv, TypeOK, NextStage

LEMMA EchoType ==
  ASSUME TypeInv, NEW c \in Channels, NEW record \in Latches, PublishTrip(c, record)
  PROVE  /\ retained' \in [Channels -> Latches]
         /\ echo' \in Seq(Channels \X Latches)
<1>1. <<c, record>> \in Channels \X Latches
  OBVIOUS
<1>2. echo \in Seq(Channels \X Latches) /\ retained \in [Channels -> Latches]
  BY DEF TypeInv, TypeOK
<1> QED
  BY <1>1, <1>2 DEF PublishTrip

LEMMA PollType ==
  ASSUME TypeInv, NEW c \in Channels, Poll(c)
  PROVE  TypeInv'
<1>1. Evidence(c) \in Readings /\ Unread \in Readings
  BY DEF Evidence, Unread, Readings
<1>2. stage' \in {"poll", "watch", "enforce"} /\ todo' \subseteq Channels
  BY StageTypes DEF Poll
<1>3. saving = NotSaving /\ watching = NotWatching
  BY DEF Poll, TypeInv, TypeOK
<1>4. snapshot' \in [Channels -> Readings]
  BY <1>1 DEF Poll, TypeInv
<1>5. unseen' \subseteq Channels
  BY DEF Poll, TypeInv, TypeOK
<1> QED
  BY <1>2, <1>3, <1>4, <1>5
     DEF Poll, TypeInv, TypeOK, board, hits, network, broker

LEMMA WatchType ==
  ASSUME TypeInv, NEW c \in Channels, Watch(c) \/ WatchUnread(c)
  PROVE  TypeInv'
<1>1. CASE WatchUnread(c)
  <2>1. stage' \in {"poll", "watch", "enforce"} /\ todo' \subseteq Channels
    BY <1>1, StageTypes DEF WatchUnread
  <2> QED
    BY <1>1, <2>1 DEF WatchUnread, AtWatch, TypeInv, TypeOK, board, hits, network, broker, bounds
<1>2. CASE Watch(c)
  <2>1. watching' \in Watchings /\ watching'.channel = c
    <3>1. watching' = [step |-> "count", channel |-> c, flags |-> FlagHits(c),
                       collapses |-> CollapseHits(c), popped |-> {}, raced |-> Forgetting(c)]
      BY <1>2 DEF Watch
    <3>2. Forgetting(c) \in BOOLEAN
      BY DEF Forgetting
    <3> HIDE DEF Forgetting
    <3> QED
      BY <3>1, <3>2, HitTypes DEF Watchings
  <2> QED
    BY <1>2, <2>1 DEF Watch, AtWatch, TypeInv, TypeOK, board, hits, network, broker, bounds
<1> QED
  BY <1>1, <1>2

(* What the steps of the judging find.                                     *)
LEMMA WatchingRecord ==
  ASSUME TypeInv, watching.step \in {"count", "latched?", "confirmed?", "take", "latch"}
  PROVE  /\ watching \in Watchings /\ watching # NotWatching
         /\ stage = "watch" /\ watching.channel \in todo /\ saving = NotSaving
  BY DEF TypeInv, TypeOK, NotWatching

LEMMA CycleFailsType ==
  ASSUME TypeInv, CycleFails, saving = NotSaving,
         UNCHANGED <<board, tripped, hits, saving, network, broker, unseen>>
  PROVE  TypeInv'
<1>1. snapshot' \in [Channels -> Readings]
  BY DEF CycleFails, NothingRead, Unread, Readings
<1> QED
  BY <1>1 DEF CycleFails, TypeInv, TypeOK, board, hits, network, broker

LEMMA NextChannelType ==
  ASSUME TypeInv, NextChannel, watching \in Watchings, saving = NotSaving,
         UNCHANGED <<board, tripped, hits, saving, network, broker, unseen>>
  PROVE  TypeInv'
<1>1. stage' \in {"poll", "watch", "enforce"} /\ todo' \subseteq Channels
  BY StageTypes DEF NextChannel, Watchings
<1> QED
  BY <1>1 DEF NextChannel, TypeInv, TypeOK, board, hits, network, broker

LEMMA MakeItSafeType ==
  ASSUME TypeInv, MakeItSafe, watching \in Watchings, watching # NotWatching,
         tripped' \in [Channels -> Latches],
         UNCHANGED <<board, hits, network, broker, unseen>>
  PROVE  TypeInv'
<1>1. saving' = [step |-> "write", channel |-> watching.channel, ours |-> TRUE, safe |-> FALSE]
  BY DEF MakeItSafe
<1>2. saving' \in Savings
  BY <1>1, Zenon DEF Savings, Watchings
<1>3. saving'.channel = watching.channel
  BY <1>1
<1>4. stage = "watch" /\ watching.channel \in todo
  BY DEF TypeInv, TypeOK
<1> QED
  BY <1>2, <1>3, <1>4 DEF MakeItSafe, TypeInv, TypeOK, board, hits, network, broker

LEMMA JudgeType ==
  ASSUME TypeInv, StoreCounts \/ TestLatch \/ TestCounts \/ Latch \/ TakeRecord
  PROVE  TypeInv'
<1>1. /\ watching \in Watchings /\ watching # NotWatching
      /\ stage = "watch" /\ watching.channel \in todo /\ saving = NotSaving
  BY WatchingRecord DEF StoreCounts, TestLatch, TestCounts, Latch, TakeRecord
<1>2. CASE StoreCounts
  <2>1. /\ flagHits' \in [Channels -> 0..FLAG_CONFIRM_READS]
        /\ collapseHits' \in [Channels -> 0..COLLAPSE_CONFIRM_READS]
    BY <1>1, <1>2 DEF StoreCounts, TypeInv, TypeOK, Watchings
  <2>2. watching' \in Watchings /\ watching'.channel = watching.channel
    <3>1. watching' = [watching EXCEPT !.step = "latched?", !.flags = 0, !.collapses = 0]
      BY <1>2 DEF StoreCounts
    <3>2. 0 \in 0..FLAG_CONFIRM_READS /\ 0 \in 0..COLLAPSE_CONFIRM_READS
      BY HvAssumption
    <3> QED
      BY <1>1, <3>1, <3>2 DEF Watchings
  <2> QED
    BY <1>1, <1>2, <2>1, <2>2 DEF StoreCounts, TypeInv, TypeOK, board, network, broker, bounds
<1>3. CASE TestLatch
  <2>1. watching' \in Watchings /\ watching'.channel = watching.channel
    BY <1>1, <1>3 DEF TestLatch, Watchings
  <2> QED
    BY <1>1, <1>3, <2>1 DEF TestLatch, TypeInv, TypeOK, board, hits, network, broker, bounds
<1>4. CASE TestCounts
  <2>1. CASE watching' = [watching EXCEPT !.step = "latch"] /\ UNCHANGED <<snapshot, stage, todo>>
    <3>1. watching' \in Watchings /\ watching'.channel = watching.channel
      BY <1>1, <2>1 DEF Watchings
    <3> QED
      BY <1>1, <1>4, <2>1, <3>1
         DEF TestCounts, TypeInv, TypeOK, board, hits, network, broker, bounds
  <2>2. CASE CycleFails
    BY <1>1, <1>4, <2>2, CycleFailsType DEF TestCounts
  <2>3. CASE NextChannel
    BY <1>1, <1>4, <2>3, NextChannelType DEF TestCounts
  <2> QED
    BY <1>4, <2>1, <2>2, <2>3 DEF TestCounts
<1>5. CASE Latch
  <2>1. tripped' \in [Channels -> Latches]
    BY <1>1, <1>5 DEF Latch, TypeInv, TypeOK, Latches, Watchings
  <2> QED
    BY <1>1, <1>5, <2>1, MakeItSafeType DEF Latch
<1>6. CASE TakeRecord
  <2>1. CASE CycleFails /\ UNCHANGED saving
    BY <1>1, <1>6, <2>1, CycleFailsType DEF TakeRecord
  <2>2. CASE NextChannel /\ UNCHANGED saving
    BY <1>1, <1>6, <2>2, NextChannelType DEF TakeRecord
  <2>3. CASE MakeItSafe
    BY <1>1, <1>6, <2>3, MakeItSafeType DEF TakeRecord, TypeInv, TypeOK
  <2> QED
    BY <1>6, <2>1, <2>2, <2>3 DEF TakeRecord
<1> QED
  BY <1>2, <1>3, <1>4, <1>5, <1>6

LEMMA MakeSafeType ==
  ASSUME TypeInv, MakeSafe
  PROVE  TypeInv'
<1> DEFINE Record == [step : {"write", "publish"}, channel : Channels,
                      ours : BOOLEAN, safe : BOOLEAN]
<1>1. saving \in Record
  BY DEF MakeSafe, TypeInv, Savings, NotSaving
<1>2. PICK zeroed, off \in Replies :
        LET safe == zeroed = "ok" /\ off = "ok"
        IN /\ loaded' = Write(loaded, saving.channel, zeroed)
           /\ on' = Write(on, saving.channel, off)
           /\ saving' = [saving EXCEPT !.step = "publish", !.safe = safe]
           /\ tripped' = IF safe /\ saving.ours
                         THEN [tripped EXCEPT ![saving.channel] = "safe"] ELSE tripped
  BY DEF MakeSafe
<1>3. loaded' \subseteq loaded /\ on' \subseteq on
  BY <1>2 DEF Write
<1>4. PICK safe \in BOOLEAN : saving' = [saving EXCEPT !.step = "publish", !.safe = safe]
  BY <1>2, Zenon
<1>5. saving' \in Record /\ saving'.channel = saving.channel
  BY <1>1, <1>4
<1>6. saving' \in Savings /\ saving # NotSaving /\ watching = NotWatching
  BY <1>5 DEF Savings, MakeSafe, NotSaving, TypeInv
<1>7. tripped' \in [Channels -> Latches]
  BY <1>1, <1>2 DEF TypeInv, TypeOK, Latches
<1> QED
  BY <1>3, <1>5, <1>6, <1>7 DEF MakeSafe, TypeInv, TypeOK, hits, network, broker

LEMMA PublishRecordType ==
  ASSUME TypeInv, PublishRecord
  PROVE  TypeInv'
<1>1. saving.channel \in Channels /\ watching = NotWatching
  BY DEF PublishRecord, TypeInv, Savings, NotSaving
<1>2. stage' \in {"poll", "watch", "enforce"} /\ todo' \subseteq Channels
  BY <1>1, StageTypes DEF PublishRecord
<1>3. /\ retained' \in [Channels -> Latches]
      /\ echo' \in Seq(Channels \X Latches)
  BY <1>1, EchoType DEF PublishRecord, Latches
<1> QED
  BY <1>1, <1>2, <1>3 DEF PublishRecord, TypeInv, TypeOK, board, hits, network, bounds, Savings

LEMMA EnforceType ==
  ASSUME TypeInv, NEW c \in Channels, EnforceDisabledZero(c)
  PROVE  TypeInv'
<1>1. loaded' \subseteq loaded
  BY DEF EnforceDisabledZero, Write
<1>2. stage' \in {"poll", "watch", "enforce"} /\ todo' \subseteq Channels
  BY StageTypes DEF EnforceDisabledZero
<1>3. saving = NotSaving /\ watching = NotWatching
  BY DEF EnforceDisabledZero, TypeInv, TypeOK
<1>4. snapshot' \in [Channels -> Readings]
  BY DEF EnforceDisabledZero, TypeInv, Unread, Readings
<1> QED
  BY <1>1, <1>2, <1>3, <1>4 DEF EnforceDisabledZero, TypeInv, TypeOK, hits, network, broker

LEMMA BoardSafe == \A S, c, reply : Write(S, c, reply) \subseteq S
  BY DEF Write

LEMMA ForgottenType ==
  ASSUME TypeInv, NEW c \in Channels
  PROVE  /\ Forgotten(c) \in Savings
         /\ Forgotten(c) # NotSaving => saving # NotSaving /\ Forgotten(c).channel = saving.channel
<1>1. CASE SavingFor(c)
  <2>1. saving \in [step : {"write", "publish"}, channel : Channels,
                    ours : BOOLEAN, safe : BOOLEAN]
    BY <1>1 DEF SavingFor, TypeInv, Savings
  <2>2. Forgotten(c) = [saving EXCEPT !.ours = FALSE]
    BY <1>1 DEF Forgotten, SavingFor
  <2>3. PICK no \in BOOLEAN : Forgotten(c) = [saving EXCEPT !.ours = no]
    BY <2>2, Zenon
  <2>4. /\ Forgotten(c) \in [step : {"write", "publish"}, channel : Channels,
                             ours : BOOLEAN, safe : BOOLEAN]
        /\ Forgotten(c).channel = saving.channel
    BY <2>1, <2>3
  <2> QED
    BY <1>1, <2>4 DEF Savings, SavingFor
<1>2. CASE ~SavingFor(c)
  BY <1>2 DEF Forgotten, SavingFor, TypeInv
<1> QED
  BY <1>1, <1>2

LEMMA PoppedType ==
  ASSUME TypeInv, NEW c \in Channels, NEW counts \in SUBSET {"flags", "collapses"}
  PROVE  /\ PoppedUnder(c, counts) \in {NotWatching} \cup Watchings
         /\ (PoppedUnder(c, counts) = NotWatching) <=> (watching = NotWatching)
         /\ watching # NotWatching => PoppedUnder(c, counts).channel = watching.channel
<1>1. CASE Watching(c)
  <2>1. watching \in Watchings
    BY <1>1 DEF Watching, TypeInv
  <2>2. PICK lost \in SUBSET {"flags", "collapses"} :
          PoppedUnder(c, counts) = [watching EXCEPT !.raced = TRUE, !.popped = lost]
    <3>1. watching.popped \in SUBSET {"flags", "collapses"}
      BY <2>1 DEF Watchings
    <3> QED
      BY <1>1, <3>1 DEF PoppedUnder, Watching
  <2>3. /\ PoppedUnder(c, counts) \in Watchings
        /\ PoppedUnder(c, counts).channel = watching.channel
        /\ PoppedUnder(c, counts).step = watching.step
    BY <2>1, <2>2 DEF Watchings
  <2>4. PoppedUnder(c, counts) # NotWatching
    BY <2>1, <2>3 DEF Watchings, NotWatching
  <2> QED
    BY <1>1, <2>3, <2>4 DEF Watching
<1>2. CASE ~Watching(c)
  BY <1>2 DEF PoppedUnder, Watching, TypeInv
<1> QED
  BY <1>1, <1>2

LEMMA CheckType ==
  ASSUME TypeInv, NEW c \in Channels, NEW yes \in BOOLEAN,
         VsetCheck(c, yes) \/ OutputCheck(c, yes)
  PROVE  TypeInv'
<1>1. command' \in Commands /\ command'.kind # "clear"
  <2>1. command' \in Vsets \cup Outputs
    BY DEF VsetCheck, OutputCheck, Vsets, Outputs
  <2> QED
    BY <2>1 DEF Commands, Vsets, Outputs
<1>2. command.kind # "clear" /\ ~locked
  BY DEF VsetCheck, OutputCheck, MayCommand, Free, Idle
<1> QED
  BY <1>1, <1>2 DEF VsetCheck, OutputCheck, TypeInv, TypeOK, board, hits, cycle, broker

LEMMA WriteType ==
  ASSUME TypeInv, VsetWrite \/ OutputWrite
  PROVE  TypeInv'
<1>1. command.channel \in Channels /\ command.kind # "clear"
  BY CommandRecord DEF VsetWrite, OutputWrite, Vsets, Outputs
<1>2. command' \in Commands /\ command'.kind # "clear"
  BY DEF VsetWrite, OutputWrite, Commands, Idle
<1>3. CASE VsetWrite
  <2>1. loaded' \subseteq Channels
    BY <1>1, <1>3 DEF VsetWrite, TypeInv, TypeOK
  <2> QED
    BY <1>1, <1>2, <1>3, <2>1 DEF VsetWrite, TypeInv, TypeOK, hits, cycle, broker
<1>4. CASE OutputWrite
  <2>1. on' \subseteq Channels \ disabled
    BY <1>1, <1>4 DEF OutputWrite, MayEnergise, TypeInv, TypeOK
  <2> QED
    BY <1>1, <1>2, <1>4, <2>1 DEF OutputWrite, TypeInv, TypeOK, hits, cycle, broker
<1> QED
  BY <1>3, <1>4

(* The kinds a command goes through.                                       *)
LEMMA CommandKinds ==
  ASSUME TypeInv
  PROVE  /\ \A c \in Channels, yes \in BOOLEAN : VsetCheck(c, yes) \/ OutputCheck(c, yes) =>
              command.kind = "none" /\ command'.kind \in {"vset", "output"}
         /\ VsetWrite \/ OutputWrite =>
              command.kind \in {"vset", "output"} /\ command'.kind = "none"
         /\ \A c \in Channels : ClearRead(c) =>
              command.kind = "none" /\ command'.kind = "clear"
         /\ \A c \in Channels : ClearZero(c) =>
              command.kind = "clear" /\ command'.kind \in {"clear", "none"}
         /\ ClearSend => command.kind = "clear" /\ command'.kind \in {"forget", "none"}
         /\ TellForgotten => command.kind = "tell" /\ command'.kind \in {"forget", "none"}
<1>1. ASSUME NEW c \in Channels, NEW yes \in BOOLEAN, VsetCheck(c, yes) \/ OutputCheck(c, yes)
      PROVE  command.kind = "none" /\ command'.kind \in {"vset", "output"}
  <2>1. command = Idle
    BY <1>1 DEF VsetCheck, OutputCheck, MayCommand, Free
  <2>2. CASE VsetCheck(c, yes)
    BY <2>1, <2>2 DEF VsetCheck, Idle
  <2>3. CASE OutputCheck(c, yes)
    BY <2>1, <2>3 DEF OutputCheck, Idle
  <2> QED
    BY <1>1, <2>2, <2>3
<1>2. ASSUME VsetWrite \/ OutputWrite
      PROVE  command.kind \in {"vset", "output"} /\ command'.kind = "none"
  BY <1>2 DEF VsetWrite, OutputWrite, Idle
<1>3. ASSUME NEW c \in Channels, ClearRead(c)
      PROVE  command.kind = "none" /\ command'.kind = "clear"
  BY <1>3 DEF ClearRead, MayCommand, Free, Idle
<1>4. ASSUME NEW c \in Channels, ClearZero(c)
      PROVE  command.kind = "clear" /\ command'.kind \in {"clear", "none"}
  <2>1. command \in Clears /\ command.kind = "clear"
    BY <1>4, CommandRecord DEF ClearZero
  <2>2. CASE command' = Idle
    BY <2>1, <2>2 DEF Idle
  <2>3. CASE command' = [command EXCEPT !.unsafe = command.unsafe \ {c}]
    BY <2>1, <2>3 DEF Clears
  <2> QED
    BY <1>4, <2>2, <2>3 DEF ClearZero
<1>5. ASSUME ClearSend
      PROVE  command.kind = "clear" /\ command'.kind \in {"forget", "none"}
  <2>1. CASE command' = Idle
    BY <1>5, <2>1 DEF ClearSend, Idle
  <2>2. CASE command' = [kind |-> "forget", channel |-> command.channel,
                         targets |-> command.targets]
    BY <1>5, <2>2 DEF ClearSend
  <2> QED
    BY <1>5, <2>1, <2>2 DEF ClearSend
<1>6. ASSUME TellForgotten
      PROVE  command.kind = "tell" /\ command'.kind \in {"forget", "none"}
  <2>1. CASE command' = Idle
    BY <1>6, <2>1 DEF TellForgotten, Idle
  <2>2. CASE command' = [kind |-> "forget", channel |-> command.channel,
                         targets |-> command.targets]
    BY <1>6, <2>2 DEF TellForgotten
  <2> QED
    BY <1>6, <2>1, <2>2 DEF TellForgotten
<1> QED
  BY <1>1, <1>2, <1>3, <1>4, <1>5, <1>6

LEMMA ClearReadType ==
  ASSUME TypeInv, NEW c \in Channels, ClearRead(c)
  PROVE  TypeInv'
<1>1. PICK targets \in SUBSET Channels, seenOn \in SUBSET Channels :
        command' = [kind |-> "clear", channel |-> c, targets |-> targets,
                    unsafe |-> targets, seenOn |-> seenOn]
  BY DEF ClearRead
<1>2. command' \in Commands /\ command'.kind = "clear"
  BY <1>1 DEF Commands, Clears
<1> QED
  BY <1>2 DEF ClearRead, TypeInv, TypeOK, board, hits, cycle, broker

LEMMA ClearZeroType ==
  ASSUME TypeInv, NEW s \in Channels, ClearZero(s)
  PROVE  TypeInv'
<1>1. loaded' \subseteq loaded /\ on' \subseteq on
  BY BoardSafe DEF ClearZero
<1>2. command' \in Commands /\ (locked' <=> command'.kind = "clear")
  <2>1. command.kind = "clear" /\ locked
    BY DEF ClearZero, TypeInv, TypeOK
  <2>2. \/ command' = Idle /\ locked' = FALSE
        \/ command' = [command EXCEPT !.unsafe = command.unsafe \ {s}] /\ locked' = locked
    BY DEF ClearZero
  <2>3. CASE command' = Idle /\ locked' = FALSE
    BY <2>3 DEF Commands, Idle
  <2>4. CASE command' = [command EXCEPT !.unsafe = command.unsafe \ {s}] /\ locked' = locked
    BY <2>1, <2>4, CommandRecord DEF Commands, Clears
  <2> QED
    BY <2>2, <2>3, <2>4
<1> QED
  BY <1>1, <1>2 DEF ClearZero, TypeInv, TypeOK, hits, cycle, broker

LEMMA ClearSendType ==
  ASSUME TypeInv, ClearSend
  PROVE  TypeInv'
<1>1. command' \in Commands /\ command'.kind # "clear"
  <2>1. command \in Clears
    BY CommandRecord DEF ClearSend
  <2>2. \/ command' = Idle
        \/ command' = [kind |-> "forget", channel |-> command.channel,
                       targets |-> command.targets]
    BY DEF ClearSend
  <2> QED
    BY <2>1, <2>2 DEF Commands, Clears, Forgets, Idle
<1>2. flagged' \subseteq flagged /\ failed' \subseteq failed
  BY DEF ClearSend
<1> QED
  BY <1>1, <1>2 DEF ClearSend, TypeInv, TypeOK, hits, cycle, broker

LEMMA ForgetTripType ==
  ASSUME TypeInv, NEW s \in Channels, ForgetTrip(s)
  PROVE  TypeInv'
<1>1. tripped' \in [Channels -> Latches]
  BY DEF ForgetTrip, TypeInv, TypeOK, Latches
<1>2. /\ saving' \in Savings
      /\ saving' # NotSaving => saving # NotSaving /\ saving'.channel = saving.channel
  BY ForgottenType DEF ForgetTrip
<1>3. /\ watching' \in {NotWatching} \cup Watchings
      /\ (watching' = NotWatching) <=> (watching = NotWatching)
      /\ watching # NotWatching => watching'.channel = watching.channel
  BY PoppedType DEF ForgetTrip
<1>4. command' \in Commands /\ command'.kind # "clear" /\ ~locked
  <2>1. command \in Forgets
    BY CommandRecord DEF ForgetTrip
  <2>2. command' = [kind |-> "pop flags", channel |-> command.channel,
                    targets |-> command.targets \ {s}, target |-> s,
                    had |-> (tripped[s] # "no")]
    BY DEF ForgetTrip
  <2> QED
    BY <2>1, <2>2 DEF Commands, Forgets, Pops, TypeInv, TypeOK
<1>5. unseen' \subseteq Channels
  BY DEF ForgetTrip, TypeInv, TypeOK
<1> QED
  BY <1>1, <1>2, <1>3, <1>4, <1>5 DEF ForgetTrip, TypeInv, TypeOK, board, hits, broker

LEMMA PopType ==
  ASSUME TypeInv, PopFlags \/ PopCollapses
  PROVE  TypeInv'
<1>1. command \in Pops /\ command.target \in Channels /\ ~locked
  BY CommandRecord DEF PopFlags, PopCollapses, TypeInv, TypeOK, Pops
<1>2. command' \in Pops
  BY <1>1 DEF PopFlags, PopCollapses, Pops
<1>3. command' \in Commands /\ command'.kind # "clear"
  BY <1>2 DEF Commands, Pops
<1>4. PICK counts \in SUBSET {"flags", "collapses"} :
        watching' = PoppedUnder(command.target, counts)
  BY DEF PopFlags, PopCollapses
<1>5. /\ watching' \in {NotWatching} \cup Watchings
      /\ (watching' = NotWatching) <=> (watching = NotWatching)
      /\ watching # NotWatching => watching'.channel = watching.channel
  BY <1>1, <1>4, PoppedType
<1>6. ASSUME NEW n \in Nat, NEW h \in [Channels -> 0..n]
      PROVE  HitsAfterClear(h, command.target) \in [Channels -> 0..n]
  <2>1. 0 \in 0..n
    OBVIOUS
  <2> QED
    BY <2>1 DEF HitsAfterClear
<1>7. /\ flagHits' \in [Channels -> 0..FLAG_CONFIRM_READS]
      /\ collapseHits' \in [Channels -> 0..COLLAPSE_CONFIRM_READS]
  <2>1. /\ flagHits \in [Channels -> 0..FLAG_CONFIRM_READS]
        /\ collapseHits \in [Channels -> 0..COLLAPSE_CONFIRM_READS]
    BY DEF TypeInv, TypeOK
  <2> QED
    <3>1. FLAG_CONFIRM_READS \in Nat /\ COLLAPSE_CONFIRM_READS \in Nat
      BY HvAssumption
    <3>2. \/ flagHits' = HitsAfterClear(flagHits, command.target) /\ collapseHits' = collapseHits
          \/ collapseHits' = HitsAfterClear(collapseHits, command.target) /\ flagHits' = flagHits
      BY DEF PopFlags, PopCollapses
    <3> QED
      BY <1>6, <2>1, <3>1, <3>2
<1>8. UNCHANGED <<board, tripped, snapshot, stage, todo, saving, locked, broker, unseen>>
  BY DEF PopFlags, PopCollapses
<1> QED
  BY <1>1, <1>3, <1>5, <1>7, <1>8 DEF TypeInv, TypeOK, board, broker

LEMMA TellType ==
  ASSUME TypeInv, TellForgotten
  PROVE  TypeInv'
<1>1. command \in Pops /\ ~locked
  BY CommandRecord DEF TellForgotten, TypeInv, TypeOK
<1>2. command' \in Commands /\ command'.kind # "clear"
  BY <1>1 DEF TellForgotten, Commands, Pops, Forgets, Idle
<1>3. /\ retained' \in [Channels -> Latches]
      /\ echo' \in Seq(Channels \X Latches)
  BY <1>1, EchoType DEF TellForgotten, Pops, broker, TypeInv, TypeOK, Latches
<1> QED
  BY <1>1, <1>2, <1>3 DEF TellForgotten, TypeInv, TypeOK, board, hits, cycle

LEMMA OnTripRecordType ==
  ASSUME TypeInv, OnTripRecord
  PROVE  TypeInv'
<1>1. /\ Head(echo) \in Channels \X Latches
      /\ Tail(echo) \in Seq(Channels \X Latches)
  BY DEF OnTripRecord, TypeInv, TypeOK
<1>2. PICK c \in Channels, record \in Latches :
        /\ tripped' = [tripped EXCEPT ![c] = AfterRecord(tripped[c], record)]
        /\ saving' = IF record = "no" THEN Forgotten(c) ELSE saving
  BY <1>1 DEF OnTripRecord
<1>3. tripped' \in [Channels -> Latches]
  BY <1>2 DEF AfterRecord, TypeInv, TypeOK
<1>4. /\ saving' \in Savings
      /\ saving' # NotSaving => saving # NotSaving /\ saving'.channel = saving.channel
  BY <1>2, ForgottenType DEF TypeInv
<1> QED
  BY <1>1, <1>3, <1>4 DEF OnTripRecord, TypeInv, TypeOK, board, hits, network, bounds

LEMMA SurroundingsType ==
  ASSUME TypeInv,
         \E c \in Channels : FlagTrip(c) \/ Collapse(c) \/ SwitchOff(c) \/ SwitchOn(c)
  PROVE  TypeInv'
<1>1. /\ on' \subseteq Channels \ disabled'
      /\ disabled' \cup loaded' \cup flagged' \cup failed' \subseteq Channels
  BY DEF FlagTrip, Collapse, SwitchOff, SwitchOn, TypeInv, TypeOK
<1> QED
  BY <1>1 DEF FlagTrip, Collapse, SwitchOff, SwitchOn, ElsewhereUnchanged,
              TypeInv, TypeOK, hits, cycle, network, broker

LEMMA RestartType ==
  ASSUME TypeInv, Restart
  PROVE  TypeInv'
<1> DEFINE held == {c \in Channels : retained[c] # "no"}
<1>1. PICK order \in [1..Cardinality(held) -> held] :
        echo' = [i \in DOMAIN order |-> <<order[i], retained[order[i]]>>]
  BY DEF Restart
<1>2. Cardinality(held) \in Nat
  BY HvAssumption, FS_Subset, FS_CardinalityType
<1>3. echo' \in [1..Cardinality(held) -> Channels \X Latches]
  BY <1>1 DEF TypeInv, TypeOK
<1>4. PICK n \in Nat : echo' \in [1..n -> Channels \X Latches]
  BY <1>2, <1>3
<1>5. /\ tripped' \in [Channels -> Latches]
      /\ flagHits' \in [Channels -> 0..FLAG_CONFIRM_READS]
      /\ collapseHits' \in [Channels -> 0..COLLAPSE_CONFIRM_READS]
      /\ snapshot' \in [Channels -> Readings]
  BY HvAssumption DEF Restart, Unlatched, NoHits, NothingRead, Unread, Readings, Latches
<1>6. echo' \in Seq(Channels \X Latches)
  BY <1>4
<1> QED
  BY <1>5, <1>6 DEF Restart, TypeInv, TypeOK, board, Commands, Savings, Idle

LEMMA InitType == Init => TypeInv
<1> SUFFICES ASSUME Init PROVE TypeInv
  OBVIOUS
<1>1. /\ tripped \in [Channels -> Latches] /\ retained \in [Channels -> Latches]
      /\ flagHits \in [Channels -> 0..FLAG_CONFIRM_READS]
      /\ collapseHits \in [Channels -> 0..COLLAPSE_CONFIRM_READS]
      /\ snapshot \in [Channels -> Readings]
  BY HvAssumption DEF Init, Unlatched, NoHits, NothingRead, Unread, Readings, Latches
<1> QED
  BY <1>1 DEF Init, TypeInv, TypeOK, Commands, Savings, Idle

LEMMA TypeStep == TypeInv /\ [Next]_vars => TypeInv'
<1> SUFFICES ASSUME TypeInv, [Next]_vars PROVE TypeInv'
  OBVIOUS
<1>1. CASE MainLoop
  BY <1>1, PollType, WatchType, JudgeType, EnforceType, MakeSafeType, PublishRecordType
     DEF MainLoop
<1>2. CASE NetworkThread
  BY <1>2, CheckType, WriteType, ClearReadType, ClearZeroType, ForgetTripType, PopType,
     TellType, ClearSendType, OnTripRecordType DEF NetworkThread
<1>3. CASE Surroundings
  BY <1>3, SurroundingsType, RestartType DEF Surroundings
<1>4. CASE UNCHANGED vars
  BY <1>4 DEF vars, board, hits, cycle, network, broker, bounds, TypeInv, TypeOK
<1> QED
  BY <1>1, <1>2, <1>3, <1>4 DEF Next

(* Types, and the agreement of the lock, the stages and the records with   *)
(* them; in particular no channel is on whose enable switch is off.        *)
THEOREM TypeCorrect == Spec => []TypeOK
<1>1. TypeInv => TypeOK
  BY DEF TypeInv
<1> QED
  BY InitType, TypeStep, <1>1, PTL DEF Spec

-------------------------------------------------------------------------------
(* BDCLR is sent only when everything it would release has been dealt with. *)
LEMMA ClearStep == TypeInv /\ ClearInv /\ [Next]_vars => ClearInv'
<1> SUFFICES ASSUME TypeInv, ClearInv, [Next]_vars, command'.kind = "clear"
             PROVE  (command'.targets \ command'.unsafe)
                      \cap (loaded' \cup (on' \cap command'.seenOn)) = {}
  BY DEF ClearInv
<1>1. CASE \E c \in Channels : ClearRead(c)
  BY <1>1 DEF ClearRead
<1>2. CASE \E s \in Channels : ClearZero(s)
  <2>1. PICK s \in Channels : ClearZero(s)
    BY <1>2
  <2>2. command' = [command EXCEPT !.unsafe = command.unsafe \ {s}]
    BY <2>1 DEF ClearZero, Idle
  <2>3. /\ command'.targets = command.targets /\ command'.seenOn = command.seenOn
        /\ command'.unsafe = command.unsafe \ {s}
    BY <2>1, <2>2, CommandRecord DEF ClearZero, Clears
  <2>4. loaded' \subseteq loaded \ {s} /\ on' \cap command.seenOn \subseteq on \ {s}
    BY <2>1, <2>2, BoardSafe DEF ClearZero, Write, Obeyed, Idle
  <2> QED
    BY <2>1, <2>3, <2>4 DEF ClearInv, ClearZero
<1>3. ASSUME command' = command,
             loaded' \subseteq loaded, on' \subseteq on
      PROVE  (command'.targets \ command'.unsafe)
               \cap (loaded' \cup (on' \cap command'.seenOn)) = {}
  BY <1>3 DEF ClearInv
<1>4. CASE MainLoop
  <2>1. command' = command
    BY <1>4 DEF MainLoop, Poll, WatchUnread, Watch, StoreCounts, TestLatch, TestCounts, Latch,
                TakeRecord, MakeSafe, PublishRecord, EnforceDisabledZero, network
  <2>2. loaded' \subseteq loaded /\ on' \subseteq on
    <3>1. CASE PublishRecord \/ \E c \in Channels : Poll(c) \/ WatchUnread(c) \/ Watch(c)
      BY <3>1 DEF PublishRecord, Poll, WatchUnread, Watch, board
    <3>2. CASE MakeSafe
      BY <3>2, BoardSafe DEF MakeSafe, board
    <3>3. CASE \E c \in Channels : EnforceDisabledZero(c)
      <4> PICK c \in Channels : EnforceDisabledZero(c)
        BY <3>3
      <4>1. on' = on /\ (loaded' = loaded \/ \E reply : loaded' = Write(loaded, c, reply))
        BY DEF EnforceDisabledZero
      <4> QED
        BY <4>1, BoardSafe
    <3>4. CASE StoreCounts \/ TestLatch \/ TestCounts \/ Latch \/ TakeRecord
      <4>1. UNCHANGED board
        BY <3>4 DEF StoreCounts, TestLatch, TestCounts, Latch, TakeRecord
      <4> QED
        BY <4>1 DEF board
    <3> QED BY <1>4, <3>1, <3>2, <3>3, <3>4 DEF MainLoop
  <2> QED
    BY <1>3, <2>1, <2>2
<1>5. CASE OnTripRecord
  BY <1>3, <1>5 DEF OnTripRecord, board, network
<1>6. CASE \E c \in Channels : FlagTrip(c) \/ Collapse(c) \/ SwitchOff(c) \/ SwitchOn(c)
  BY <1>3, <1>6 DEF FlagTrip, Collapse, SwitchOff, SwitchOn, ElsewhereUnchanged, network
<1>7. ~(\E c \in Channels, yes \in BOOLEAN : VsetCheck(c, yes) \/ OutputCheck(c, yes))
  BY DEF VsetCheck, OutputCheck
<1>8. ~(VsetWrite \/ OutputWrite \/ Restart)
  BY DEF VsetWrite, OutputWrite, Restart, Idle
<1>9. ~ClearSend
  BY ClearSendType DEF TypeInv, TypeOK, ClearSend
<1>10. ~(PopFlags \/ PopCollapses \/ TellForgotten \/ \E s \in Channels : ForgetTrip(s))
  <2>1. ~(PopFlags \/ PopCollapses)
    BY CommandRecord DEF PopFlags, PopCollapses, Pops
  <2>2. ~TellForgotten
    BY DEF TellForgotten, Idle
  <2>3. ASSUME NEW s \in Channels, ForgetTrip(s) PROVE FALSE
    <3>1. command'.kind = "pop flags"
      BY <2>3 DEF ForgetTrip
    <3> QED
      BY <3>1
  <2> QED
    BY <2>1, <2>2, <2>3
<1>11. CASE UNCHANGED vars
  BY <1>3, <1>11 DEF vars, board, network
<1> QED
  BY <1>1, <1>2, <1>4, <1>5, <1>6, <1>7, <1>8, <1>9, <1>10, <1>11
     DEF Next, NetworkThread, Surroundings

(* caen.py:1594-1604, for any number of channels: nothing that was seen    *)
(* tripped holds a setpoint, or is on though it was seen on, when BDCLR    *)
(* is sent, whatever fails and whoever else is at the supply.              *)
THEOREM ClearIsSafe == Spec => ClearedWhenUnloaded
<1>1. Init => ClearInv
  BY DEF Init, ClearInv, Idle
<1>2. ClearInv /\ ClearSend =>
        command.targets \cap (loaded \cup (on \cap command.seenOn)) = {}
  BY DEF ClearInv, ClearSend, MayClear
<1>3. ClearInv /\ [Next]_vars =>
        [ClearSend => command.targets \cap (loaded \cup (on \cap command.seenOn)) = {}]_vars
  BY <1>2
<1> QED
  BY InitType, TypeStep, ClearStep, <1>1, <1>3, PTL DEF Spec, ClearedWhenUnloaded

-------------------------------------------------------------------------------
(* A channel that was cleared is latched again on what was read before     *)
(* only if it was being judged when it was cleared.                        *)

(* Steps that touch neither the counts nor the readings nor the judging    *)
(* keep FreshInv, if no clear is, or comes, between the pops.              *)
NotPopping == command.kind \notin {"pop flags", "pop collapses"}

LEMMA FreshStutter ==
  ASSUME TypeInv, FreshInv, NotPopping, NotPopping', unseen' = unseen,
         flagHits' = flagHits, collapseHits' = collapseHits,
         snapshot' = snapshot, stage' = stage, todo' = todo, watching' = watching,
         \A c \in Channels : SavingFor(c) => SavingFor(c)'
  PROVE  FreshInv'
<1>1. unseen \subseteq Channels
  BY DEF TypeInv, TypeOK
<1>2. \A c \in unseen : Uncounted(c)' => Uncounted(c)
  BY <1>1 DEF Uncounted, Watching
<1>3. \A c \in unseen : (Watching(c)' <=> Watching(c)) /\ (Judged(c)' <=> Judged(c))
  BY DEF Watching, Judged
<1>4. \A c : ~Forgetting(c) /\ ~Forgetting(c)' /\ command'.kind # "pop collapses"
  BY DEF NotPopping, Forgetting
<1> QED
  BY <1>2, <1>3, <1>4 DEF FreshInv

(* So do steps of the main loop that neither count nor begin to judge.     *)
LEMMA FreshSkip ==
  ASSUME FreshInv, command' = command, unseen' \subseteq unseen, unseen \subseteq Channels,
         flagHits' = flagHits, collapseHits' = collapseHits,
         \A c \in Channels \cap unseen' : Uncounted(c)' => Uncounted(c),
         watching' = watching \/ watching' = NotWatching
  PROVE  FreshInv'
<1>1. ASSUME NEW d \in unseen', Watching(d)', ~watching'.raced
      PROVE  Judged(d)' /\ ~Forgetting(d)'
  <2>1. watching' = watching /\ Watching(d) /\ d \in unseen
    BY <1>1 DEF Watching
  <2>2. Judged(d) /\ ~Forgetting(d)
    BY <1>1, <2>1 DEF FreshInv
  <2> QED
    BY <2>1, <2>2 DEF Judged, Forgetting
<1>2. ASSUME NEW d \in unseen', Uncounted(d)'
      PROVE  Uncounted(d) /\ d \in unseen
  BY <1>2
<1> QED
  BY <1>1, <1>2 DEF FreshInv, Forgetting

LEMMA ForgottenSaving ==
  ASSUME TypeInv, NEW s \in Channels, saving' = Forgotten(s)
  PROVE  \A c \in Channels : SavingFor(c) <=> SavingFor(c)'
<1>1. CASE SavingFor(s)
  <2>1. saving \in [step : {"write", "publish"}, channel : Channels,
                    ours : BOOLEAN, safe : BOOLEAN]
    BY <1>1 DEF SavingFor, TypeInv, Savings
  <2>2. saving' = [saving EXCEPT !.ours = FALSE]
    BY <1>1 DEF Forgotten, SavingFor
  <2>3. saving'.channel = saving.channel /\ saving'.step = saving.step
    BY <2>1, <2>2
  <2> QED
    BY <2>1, <2>3 DEF SavingFor, NotSaving
<1>2. CASE ~SavingFor(s)
  BY <1>2 DEF Forgotten, SavingFor
<1> QED
  BY <1>1, <1>2

LEMMA PoppedWatching ==
  ASSUME TypeInv, NEW s \in Channels, NEW counts \in SUBSET {"flags", "collapses"},
         watching' = PoppedUnder(s, counts)
  PROVE  /\ \A c \in Channels : Watching(c) <=> Watching(c)'
         /\ Watching(s) => watching'.raced
         /\ ~Watching(s) => watching' = watching
<1>1. \A c \in Channels : Watching(c) <=> Watching(c)'
  BY PoppedType DEF Watching
<1>2. Watching(s) => watching'.raced
  BY DEF Watching, PoppedUnder, TypeInv, Watchings
<1>3. ~Watching(s) => watching' = watching
  BY DEF Watching, PoppedUnder
<1> QED
  BY <1>1, <1>2, <1>3

LEMMA FreshReading ==
  ASSUME TypeInv, FreshInv,
         \E c \in Channels : Poll(c) \/ WatchUnread(c) \/ EnforceDisabledZero(c)
  PROVE  FreshInv'
<1> PICK c \in Channels : Poll(c) \/ WatchUnread(c) \/ EnforceDisabledZero(c)
  OBVIOUS
<1>1. /\ command' = command /\ unseen' \subseteq unseen /\ unseen \subseteq Channels
      /\ flagHits' = flagHits /\ collapseHits' = collapseHits
      /\ watching' = watching /\ saving' = saving
  BY DEF Poll, WatchUnread, EnforceDisabledZero, hits, network, TypeInv, TypeOK
<1>2. ASSUME NEW d \in Channels \cap unseen', Uncounted(d)'
      PROVE  Uncounted(d)
  <2>1. CASE Poll(c)
    <3>1. CASE d = c
      <4>1. snapshot'[c] = Unread
        BY <1>2, <2>1, <3>1 DEF Poll, TypeInv
      <4> QED
        BY <1>2, <3>1, <4>1 DEF Uncounted
    <3>2. CASE d # c
      BY <1>2, <2>1, <3>2 DEF Poll, Uncounted, NextStage, TypeInv
    <3> QED
      BY <3>1, <3>2
  <2>2. CASE WatchUnread(c)
    BY <1>2, <2>2 DEF WatchUnread, Uncounted, NextStage, SavingFor, Watching
  <2>3. CASE EnforceDisabledZero(c)
    BY <1>2, <2>3 DEF EnforceDisabledZero, Uncounted, NextStage
  <2> QED
    BY <2>1, <2>2, <2>3
<1> QED
  BY <1>1, <1>2, FreshSkip

(* The judging of a channel begins: if it has not been read since it was   *)
(* cleared, its counts are zero, or they are just being popped.            *)
LEMMA FreshWatch ==
  ASSUME TypeInv, FreshInv, NEW c \in Channels, Watch(c)
  PROVE  FreshInv'
<1>1. /\ command' = command /\ unseen' = unseen /\ unseen \subseteq Channels
      /\ flagHits' = flagHits /\ collapseHits' = collapseHits
      /\ snapshot' = snapshot /\ stage' = stage /\ todo' = todo /\ saving' = saving
      /\ watching = NotWatching /\ saving = NotSaving
  BY DEF Watch, AtWatch, hits, network, TypeInv, TypeOK
<1>2. watching' = [step |-> "count", channel |-> c, flags |-> FlagHits(c),
                   collapses |-> CollapseHits(c), popped |-> {}, raced |-> Forgetting(c)]
  BY DEF Watch
<1>3. \A d \in Channels : Uncounted(d)' => Uncounted(d)
  BY <1>1 DEF Uncounted, SavingFor, Watching
<1>4. ASSUME NEW d \in unseen, Watching(d)', ~watching'.raced
      PROVE  Judged(d)' /\ ~Forgetting(d)'
  <2>1. d = c /\ ~Forgetting(c)
    BY <1>2, <1>4 DEF Watching
  <2>2. Uncounted(c)
    BY <1>1 DEF Watch, AtWatch, Uncounted, SavingFor, Watching
  <2>3. flagHits[c] = 0 /\ collapseHits[c] = 0
    BY <1>4, <2>1, <2>2 DEF FreshInv
  <2>4. FlagHits(c) <= 1 /\ CollapseHits(c) <= 1
    BY <2>3, HvAssumption DEF FlagHits, CollapseHits, Count, AtMost
  <2>5. Judged(d)'
    BY <1>2, <2>1, <2>4 DEF Judged
  <2> QED
    BY <1>1, <2>1, <2>5 DEF Forgetting
<1> QED
  BY <1>1, <1>3, <1>4 DEF FreshInv, Forgetting

(* It goes on: at most one is counted, which confirms nothing.             *)
LEMMA FreshJudge ==
  ASSUME TypeInv, FreshInv, StoreCounts \/ TestLatch \/ TestCounts \/ Latch \/ TakeRecord
  PROVE  FreshInv'
<1> PICK c : c = watching.channel
  OBVIOUS
<1>1. /\ watching \in Watchings /\ watching # NotWatching /\ c \in Channels
      /\ stage = "watch" /\ c \in todo /\ saving = NotSaving
  BY WatchingRecord
     DEF StoreCounts, TestLatch, TestCounts, Latch, TakeRecord, TypeInv, TypeOK
<1>2. command' = command /\ unseen' = unseen /\ unseen \subseteq Channels
  BY DEF StoreCounts, TestLatch, TestCounts, Latch, TakeRecord, network, TypeInv, TypeOK
<1>3. \A d \in Channels : Watching(d) <=> d = c
  BY <1>1 DEF Watching
<1>4. CASE StoreCounts
  <2>1. /\ watching' = [watching EXCEPT !.step = "latched?", !.flags = 0, !.collapses = 0]
        /\ flagHits' = [flagHits EXCEPT ![c] = watching.flags]
        /\ collapseHits' = [collapseHits EXCEPT ![c] = watching.collapses]
        /\ watching.step = "count"
        /\ UNCHANGED <<snapshot, stage, todo, saving>>
    BY <1>4 DEF StoreCounts
  <2>2. /\ watching'.step = "latched?" /\ watching'.raced = watching.raced
        /\ watching'.channel = c /\ watching' # NotWatching
    BY <1>1, <2>1 DEF Watchings, NotWatching
  <2>3. \A d \in Channels : Uncounted(d)' => Uncounted(d) /\ d # c
    BY <1>1, <1>3, <2>1, <2>2 DEF Uncounted, SavingFor, Watching
  <2>4. /\ flagHits'[c] = watching.flags /\ collapseHits'[c] = watching.collapses
        /\ \A d \in Channels \ {c} : /\ flagHits'[d] = flagHits[d]
                                     /\ collapseHits'[d] = collapseHits[d]
    BY <1>1, <2>1 DEF TypeInv, TypeOK
  <2>5. ASSUME NEW d \in unseen, Watching(d)', ~watching'.raced
        PROVE  Judged(d)' /\ ~Forgetting(d)'
    <3>1. d = c
      BY <1>3, <2>2, <2>5 DEF Watching
    <3>2. Judged(c) /\ ~Forgetting(c)
      BY <1>1, <1>2, <1>3, <2>2, <2>5, <3>1 DEF FreshInv
    <3> QED
      BY <1>2, <2>1, <2>2, <2>4, <3>1, <3>2 DEF Judged, Forgetting
  <2> QED
    BY <1>2, <2>3, <2>4, <2>5 DEF FreshInv, Forgetting
<1>5. CASE TestLatch
  <2>1. /\ watching' \in {[watching EXCEPT !.step = "take"], [watching EXCEPT !.step = "confirmed?"]}
        /\ watching.step = "latched?"
        /\ UNCHANGED <<hits, snapshot, stage, todo, saving>>
    BY <1>5 DEF TestLatch
  <2>2. /\ watching'.step \in {"take", "confirmed?"} /\ watching'.raced = watching.raced
        /\ watching'.channel = c /\ watching' # NotWatching
    BY <1>1, <2>1 DEF Watchings, NotWatching
  <2>3. \A d \in Channels : (Uncounted(d)' => Uncounted(d)) /\ (Watching(d)' <=> d = c)
    BY <1>3, <2>1, <2>2 DEF Uncounted, SavingFor, Watching
  <2> QED
    BY <1>2, <1>3, <2>1, <2>2, <2>3 DEF FreshInv, Forgetting, Judged, hits
<1>6. CASE TestCounts
  <2>1. UNCHANGED <<hits, saving>>
    BY <1>6 DEF TestCounts
  <2>2. CASE CycleFails
    <3>1. \A d \in Channels : snapshot'[d] = Unread
      BY <2>2 DEF CycleFails, NothingRead
    <3>2. watching' = NotWatching
      BY <2>2 DEF CycleFails
    <3> QED
      BY <1>2, <2>1, <3>1, <3>2, FreshSkip DEF Uncounted, hits
  <2>3. CASE NextChannel
    <3>1. \A d \in Channels : Uncounted(d)' => Uncounted(d)
      BY <1>1, <1>3, <2>1, <2>3 DEF NextChannel, NextStage, Uncounted, SavingFor, Watching
    <3> QED
      BY <1>2, <2>1, <2>3, <3>1, FreshSkip DEF NextChannel, hits
  <2>4. CASE Confirmed(c) /\ watching' = [watching EXCEPT !.step = "latch"]
                          /\ UNCHANGED <<snapshot, stage, todo>>
    <3>1. c \in unseen => watching.raced
      <4> SUFFICES ASSUME c \in unseen, ~watching.raced PROVE FALSE
        OBVIOUS
      <4>1. flagHits[c] <= 1 /\ collapseHits[c] <= 1
        BY <1>1, <1>3, <1>6 DEF FreshInv, Judged, TestCounts
      <4> QED
        BY <2>4, <4>1, HvAssumption DEF Confirmed
    <3>2. /\ watching'.raced = watching.raced
          /\ watching'.channel = c /\ watching' # NotWatching
      BY <1>1, <2>4 DEF Watchings, NotWatching
    <3>3. \A d \in Channels : (Uncounted(d)' => Uncounted(d)) /\ (Watching(d)' <=> d = c)
      BY <1>3, <2>1, <2>4, <3>2 DEF Uncounted, SavingFor, Watching
    <3> QED
      BY <1>2, <2>1, <3>1, <3>2, <3>3 DEF FreshInv, Forgetting, hits
  <2> QED
    BY <1>6, <2>2, <2>3, <2>4 DEF TestCounts
<1>7. CASE Latch \/ TakeRecord
  <2>1. UNCHANGED hits
    BY <1>7 DEF Latch, TakeRecord
  <2>2. CASE CycleFails
    <3>1. \A d \in Channels : snapshot'[d] = Unread
      BY <2>2 DEF CycleFails, NothingRead
    <3>2. watching' = NotWatching
      BY <2>2 DEF CycleFails
    <3> QED
      BY <1>2, <2>1, <3>1, <3>2, FreshSkip DEF Uncounted, hits
  <2>3. CASE NextChannel /\ UNCHANGED saving
    <3>1. \A d \in Channels : Uncounted(d)' => Uncounted(d)
      BY <1>1, <1>3, <2>3 DEF NextChannel, NextStage, Uncounted, SavingFor, Watching
    <3> QED
      BY <1>2, <2>1, <2>3, <3>1, FreshSkip DEF NextChannel, hits
  <2>4. CASE MakeItSafe
    <3>1. saving'.channel = c /\ saving'.step = "write"
      BY <2>4 DEF MakeItSafe
    <3>2. SavingFor(c)'
      BY <3>1 DEF SavingFor, NotSaving
    <3>3. \A d \in Channels : Uncounted(d)' => Uncounted(d)
      BY <1>1, <1>3, <2>4, <3>2 DEF MakeItSafe, Uncounted, SavingFor
    <3> QED
      BY <1>2, <2>1, <2>4, <3>3, FreshSkip DEF MakeItSafe, hits
  <2> QED
    BY <1>7, <2>2, <2>3, <2>4 DEF Latch, TakeRecord
<1> QED
  BY <1>4, <1>5, <1>6, <1>7

LEMMA SavingRecord ==
  ASSUME TypeInv, MakeSafe
  PROVE  /\ saving \in [step : {"write", "publish"}, channel : Channels,
                       ours : BOOLEAN, safe : BOOLEAN]
         /\ saving # NotSaving /\ watching = NotWatching
         /\ saving'.channel = saving.channel /\ saving'.step = "publish"
<1>1. saving \in [step : {"write", "publish"}, channel : Channels,
                  ours : BOOLEAN, safe : BOOLEAN]
  BY DEF MakeSafe, TypeInv, Savings, NotSaving
<1>2. PICK safe : saving' = [saving EXCEPT !.step = "publish", !.safe = safe]
  BY Zenon DEF MakeSafe
<1>3. saving'.channel = saving.channel /\ saving'.step = "publish"
  BY <1>1, <1>2
<1>4. saving # NotSaving
  BY DEF MakeSafe, NotSaving
<1> QED
  BY <1>1, <1>3, <1>4 DEF TypeInv

LEMMA FreshSaving ==
  ASSUME TypeInv, FreshInv, MakeSafe \/ PublishRecord
  PROVE  FreshInv'
<1>1. /\ command' = command /\ unseen' = unseen /\ unseen \subseteq Channels
      /\ UNCHANGED hits /\ watching' = watching
  BY DEF MakeSafe, PublishRecord, network, TypeInv, TypeOK
<1>2. CASE MakeSafe
  <2>1. /\ saving # NotSaving /\ saving' # NotSaving /\ saving'.channel = saving.channel
        /\ UNCHANGED <<snapshot, stage, todo>>
    BY <1>2, SavingRecord DEF MakeSafe, NotSaving
  <2>2. \A d \in Channels : Uncounted(d)' => Uncounted(d)
    BY <1>1, <2>1 DEF Uncounted, SavingFor, Watching
  <2> QED
    BY <1>1, <2>2, FreshSkip DEF hits
<1>3. CASE PublishRecord
  <2>1. saving # NotSaving /\ saving.channel \in Channels /\ saving' = NotSaving
    BY <1>3 DEF PublishRecord, TypeInv, Savings, NotSaving
  <2>2. \A d \in Channels : Uncounted(d)' => Uncounted(d)
    BY <1>1, <1>3, <2>1
       DEF PublishRecord, NextStage, Uncounted, SavingFor, Watching, TypeInv, TypeOK
  <2> QED
    BY <1>1, <2>2, FreshSkip DEF hits
<1> QED
  BY <1>2, <1>3

(* The pops: a channel whose latch is taken out is between them until both *)
(* of its counts are gone, and whoever is judged meanwhile is raced.       *)
LEMMA FreshPops ==
  ASSUME TypeInv, FreshInv,
         PopFlags \/ PopCollapses \/ \E s \in Channels : ForgetTrip(s)
  PROVE  FreshInv'
<1>1. UNCHANGED <<snapshot, stage, todo>> /\ unseen \subseteq Channels
  BY DEF PopFlags, PopCollapses, ForgetTrip, TypeInv, TypeOK
<1>2. ASSUME NEW s \in Channels, ForgetTrip(s)
      PROVE  FreshInv'
  <2>1. \A d \in Channels : /\ SavingFor(d) <=> SavingFor(d)'
                            /\ Watching(d) <=> Watching(d)'
    BY <1>2, ForgottenSaving, PoppedWatching DEF ForgetTrip
  <2>2. /\ Watching(s) => watching'.raced
        /\ ~Watching(s) => watching' = watching
    BY <1>2, PoppedWatching DEF ForgetTrip
  <2>3. /\ command.kind = "forget" /\ command'.kind = "pop flags" /\ command'.target = s
        /\ unseen' = unseen \cup {s} /\ UNCHANGED hits
    BY <1>2 DEF ForgetTrip
  <2>4. \A d \in Channels : Uncounted(d)' => Uncounted(d)
    BY <1>1, <2>1 DEF Uncounted
  <2>5. ASSUME NEW d \in unseen', Watching(d)', ~watching'.raced
        PROVE  Judged(d)' /\ ~Forgetting(d)'
    <3>1. d # s /\ d \in unseen /\ d \in Channels
      BY <1>1, <2>1, <2>2, <2>3, <2>5
    <3>2. ~Watching(s)
      BY <2>2, <2>5
    <3> QED
      BY <2>1, <2>2, <2>3, <2>5, <3>1, <3>2 DEF FreshInv, Judged, Forgetting, hits
  <2>6. ASSUME NEW d \in unseen', Uncounted(d)', ~Forgetting(d)'
        PROVE  flagHits'[d] = 0 /\ collapseHits'[d] = 0
    <3>1. d # s /\ d \in unseen /\ d \in Channels
      BY <1>1, <2>3, <2>6 DEF Forgetting
    <3> QED
      BY <2>3, <2>4, <2>6, <3>1 DEF FreshInv, Forgetting, hits
  <2> QED
    BY <2>3, <2>5, <2>6 DEF FreshInv
<1>3. CASE PopFlags \/ PopCollapses
  <2> PICK t : t = command.target
    OBVIOUS
  <2>1. command \in Pops /\ t \in Channels
    BY <1>3, CommandRecord DEF PopFlags, PopCollapses, Pops
  <2>2. PICK counts \in SUBSET {"flags", "collapses"} : watching' = PoppedUnder(t, counts)
    BY <1>3 DEF PopFlags, PopCollapses
  <2>3. /\ \A d \in Channels : Watching(d) <=> Watching(d)'
        /\ Watching(t) => watching'.raced
        /\ ~Watching(t) => watching' = watching
    BY <2>1, <2>2, PoppedWatching
  <2>4. command'.target = t /\ unseen' = unseen /\ saving' = saving
    BY <1>3, <2>1 DEF PopFlags, PopCollapses, Pops
  <2>5. \A d \in Channels \ {t} : flagHits'[d] = flagHits[d] /\ collapseHits'[d] = collapseHits[d]
    <3>1. CASE PopFlags
      BY <2>1, <3>1 DEF PopFlags, HitsAfterClear, TypeInv, TypeOK
    <3>2. CASE PopCollapses
      BY <2>1, <3>2 DEF PopCollapses, HitsAfterClear, TypeInv, TypeOK
    <3> QED
      BY <1>3, <3>1, <3>2
  <2>6. \A d \in Channels : Uncounted(d)' => Uncounted(d)
    BY <1>1, <2>3, <2>4 DEF Uncounted, SavingFor
  <2>7. ASSUME NEW d \in unseen', Watching(d)', ~watching'.raced
        PROVE  Judged(d)' /\ ~Forgetting(d)'
    <3>1. d # t /\ d \in unseen /\ d \in Channels
      BY <1>1, <2>3, <2>4, <2>7
    <3>2. ~Watching(t)
      BY <2>3, <2>7
    <3> QED
      BY <2>3, <2>4, <2>5, <2>7, <3>1, <3>2 DEF FreshInv, Judged, Forgetting
  <2>8. \A d \in unseen \ {t} : Uncounted(d) => flagHits[d] = 0 /\ collapseHits[d] = 0
    BY DEF FreshInv, Forgetting
  <2>9. CASE PopFlags
    <3>1. command'.kind = "pop collapses" /\ flagHits'[t] = 0
      BY <2>1, <2>9 DEF PopFlags, HitsAfterClear, Pops, TypeInv, TypeOK
    <3> QED
      BY <1>1, <2>4, <2>5, <2>6, <2>7, <2>8, <3>1 DEF FreshInv, Forgetting
  <2>10. CASE PopCollapses
    <3>1. command'.kind = "tell" /\ collapseHits'[t] = 0 /\ flagHits' = flagHits
      BY <2>1, <2>10 DEF PopCollapses, HitsAfterClear, Pops, TypeInv, TypeOK
    <3>2. t \in unseen /\ Uncounted(t) => flagHits[t] = 0
      BY <2>10 DEF FreshInv, PopCollapses
    <3> QED
      BY <1>1, <2>4, <2>5, <2>6, <2>7, <2>8, <3>1, <3>2 DEF FreshInv, Forgetting
  <2> QED
    BY <1>3, <2>9, <2>10
<1> QED
  BY <1>2, <1>3

LEMMA FreshStep == TypeInv /\ FreshInv /\ [Next]_vars => FreshInv'
<1> SUFFICES ASSUME TypeInv, FreshInv, [Next]_vars PROVE FreshInv'
  OBVIOUS
<1>1. CASE MainLoop
  BY <1>1, FreshReading, FreshWatch, FreshJudge, FreshSaving DEF MainLoop
<1>2. CASE PopFlags \/ PopCollapses \/ \E s \in Channels : ForgetTrip(s)
  BY <1>2, FreshPops
<1>3. CASE OnTripRecord
  <2>1. Head(echo)[1] \in Channels
    BY <1>3 DEF OnTripRecord, TypeInv, TypeOK
  <2>2. \A c \in Channels : SavingFor(c) => SavingFor(c)'
    <3>1. CASE saving' = saving
      BY <3>1 DEF SavingFor
    <3>2. CASE saving' = Forgotten(Head(echo)[1])
      BY <2>1, <3>2, ForgottenSaving
    <3> QED
      BY <1>3, <3>1, <3>2 DEF OnTripRecord
  <2>3. NotPopping /\ NotPopping'
    BY <1>3 DEF OnTripRecord, Free, Idle, NotPopping, network
  <2> QED
    BY <1>3, <2>2, <2>3, FreshStutter DEF OnTripRecord, hits
<1>4. ASSUME UNCHANGED <<hits, cycle, unseen>>, NotPopping, NotPopping'
      PROVE  FreshInv'
  BY <1>4, FreshStutter DEF hits, cycle, SavingFor
<1>5. ASSUME NEW c \in Channels, NEW yes \in BOOLEAN, VsetCheck(c, yes) \/ OutputCheck(c, yes)
      PROVE  FreshInv'
  <2>1. UNCHANGED <<hits, cycle, unseen>>
    BY <1>5 DEF VsetCheck, OutputCheck
  <2> QED
    BY <1>4, <1>5, <2>1, CommandKinds DEF NotPopping
<1>6. CASE VsetWrite \/ OutputWrite \/ ClearSend \/ TellForgotten
  <2>1. UNCHANGED <<hits, cycle, unseen>>
    BY <1>6 DEF VsetWrite, OutputWrite, ClearSend, TellForgotten
  <2> QED
    BY <1>4, <1>6, <2>1, CommandKinds DEF NotPopping
<1>7. ASSUME NEW c \in Channels, ClearRead(c) \/ ClearZero(c)
      PROVE  FreshInv'
  <2>1. UNCHANGED <<hits, cycle, unseen>>
    BY <1>7 DEF ClearRead, ClearZero
  <2> QED
    BY <1>4, <1>7, <2>1, CommandKinds DEF NotPopping
<1>8. ASSUME NEW c \in Channels, FlagTrip(c) \/ Collapse(c) \/ SwitchOff(c) \/ SwitchOn(c)
      PROVE  FreshInv'
  BY <1>8 DEF FlagTrip, Collapse, SwitchOff, SwitchOn, ElsewhereUnchanged, hits, cycle, network,
              FreshInv, Uncounted, Watching, SavingFor, Judged, Forgetting
<1>9. CASE Restart
  BY <1>9 DEF Restart, FreshInv
<1>10. CASE UNCHANGED vars
  BY <1>10 DEF vars, hits, cycle, network, FreshInv, Uncounted, Watching, SavingFor, Judged,
               Forgetting
<1> QED
  BY <1>1, <1>2, <1>3, <1>5, <1>6, <1>7, <1>8, <1>9, <1>10
     DEF Next, NetworkThread, Surroundings

(* For any number of confirming reads above one: a channel that was        *)
(* cleared is latched again on a reading from before the clear only if     *)
(* the loop was judging that reading while the clear popped the channel.   *)
THEOREM LatchIsFresh == Spec => OldEvidenceLatchesByARace
<1>1. Init => FreshInv
  BY DEF Init, FreshInv
<1>2. ASSUME TypeInv, FreshInv, NEW c \in Channels, Latch, watching.channel = c
      PROVE  c \notin unseen \/ watching.raced
  <2>1. watching # NotWatching /\ watching.step = "latch"
    BY <1>2, WatchingRecord DEF Latch
  <2> QED
    BY <1>2, <2>1 DEF FreshInv, Watching, Judged
<1>3. TypeInv /\ FreshInv /\ [Next]_vars =>
        [\A c \in Channels : Latch /\ watching.channel = c
           => c \notin unseen \/ watching.raced]_vars
  BY <1>2
<1> QED
  BY InitType, TypeStep, FreshStep, <1>1, <1>3, PTL DEF Spec, OldEvidenceLatchesByARace

-------------------------------------------------------------------------------
(* The latch and the records of the broker. *)

Pending(c) == \E i \in 1..Len(echo) : echo[i][1] = c

LastFor(c, i) == echo[i][1] = c /\ \A j \in (i + 1)..Len(echo) : echo[j][1] # c

(* The last record on its way for a channel is the one the broker keeps;   *)
(* with none on its way and none about to be sent, the latch agrees.       *)
Telling(c) ==
  BetweenPops /\ command.target = c /\ (command.had \/ c = command.channel)

RecordInv ==
  \A c \in Channels :
    /\ \A i \in 1..Len(echo) : LastFor(c, i) => echo[i][2] = retained[c]
    /\ ~Pending(c) /\ ~SavingFor(c) /\ ~Telling(c) =>
         (retained[c] = "no" <=> tripped[c] = "no")

(* Steps that send nothing and change no latch but that of a channel being *)
(* made safe.                                                              *)
LEMMA RecordStutter ==
  ASSUME RecordInv, echo' = echo, retained' = retained,
         command' = command,
         \A c \in Channels : SavingFor(c)' \/ (tripped'[c] = tripped[c] /\ ~SavingFor(c))
  PROVE  RecordInv'
  BY DEF RecordInv, Pending, LastFor, Telling, BetweenPops

(* A record that is sent is the last of its channel. *)
LEMMA RecordSent ==
  ASSUME TypeInv, RecordInv, NEW s \in Channels, NEW record \in Latches,
         PublishTrip(s, record),
         \A c \in Channels \ {s} :
           /\ tripped'[c] = tripped[c]
           /\ SavingFor(c) => SavingFor(c)'
           /\ ~Telling(c)' => ~Telling(c)
  PROVE  RecordInv'
<1> DEFINE n == Len(echo)
<1>1. /\ n \in Nat /\ echo' = Append(echo, <<s, record>>) /\ Len(echo') = n + 1
      /\ echo'[n + 1] = <<s, record>>
      /\ \A i \in 1..n : echo'[i] = echo[i]
  BY DEF TypeInv, TypeOK, PublishTrip
<1>2. retained'[s] = record /\ \A c \in Channels \ {s} : retained'[c] = retained[c]
  BY DEF TypeInv, TypeOK, PublishTrip
<1>3. Pending(s)'
  BY <1>1 DEF Pending
<1>4. \A i \in 1..Len(echo') : LastFor(s, i)' => i = n + 1
  BY <1>1 DEF LastFor
<1>5. ASSUME NEW c \in Channels \ {s}
      PROVE  /\ \A i \in 1..Len(echo') : LastFor(c, i)' => i \in 1..n /\ LastFor(c, i)
             /\ Pending(c) => Pending(c)'
  <2>1. ASSUME NEW i \in 1..Len(echo'), LastFor(c, i)'
        PROVE  i \in 1..n /\ LastFor(c, i)
    <3>1. i # n + 1
      BY <1>1, <2>1 DEF LastFor
    <3>2. i \in 1..n
      BY <1>1, <3>1
    <3>3. \A j \in (i + 1)..n : j \in (i + 1)..Len(echo') /\ j \in 1..n
      BY <1>1, <3>2
    <3> QED
      BY <1>1, <2>1, <3>2, <3>3 DEF LastFor
  <2>2. Pending(c) => Pending(c)'
    BY <1>1 DEF Pending
  <2> QED
    BY <2>1, <2>2
<1>6. ASSUME NEW c \in Channels, NEW i \in 1..Len(echo'), LastFor(c, i)'
      PROVE  echo'[i][2] = retained'[c]
  <2>1. CASE c = s
    BY <1>1, <1>2, <1>4, <1>6, <2>1
  <2>2. CASE c # s
    <3>1. i \in 1..n /\ LastFor(c, i)
      BY <1>5, <1>6, <2>2
    <3>2. echo[i][2] = retained[c]
      BY <3>1 DEF RecordInv
    <3> QED
      BY <1>1, <1>2, <2>2, <3>1, <3>2
  <2> QED
    BY <2>1, <2>2
<1>7. ASSUME NEW c \in Channels, ~Pending(c)', ~SavingFor(c)', ~Telling(c)'
      PROVE  retained'[c] = "no" <=> tripped'[c] = "no"
  <2>1. c # s
    BY <1>3, <1>7
  <2>2. ~Pending(c) /\ ~SavingFor(c) /\ ~Telling(c)
    BY <1>5, <1>7, <2>1
  <2>3. tripped'[c] = tripped[c] /\ retained'[c] = retained[c]
    BY <1>2, <2>1
  <2> QED
    BY <2>2, <2>3 DEF RecordInv
<1> QED
  BY <1>6, <1>7 DEF RecordInv

LEMMA RecordReceived ==
  ASSUME TypeInv, RecordInv, OnTripRecord
  PROVE  RecordInv'
<1> DEFINE n == Len(echo)
           s == Head(echo)[1]
           record == Head(echo)[2]
<1>1. /\ n \in Nat /\ n > 0 /\ Len(echo') = n - 1
      /\ \A i \in 1..(n - 1) : echo'[i] = echo[i + 1]
      /\ echo[1] = <<s, record>> /\ s \in Channels /\ record \in Latches
  BY DEF TypeInv, TypeOK, OnTripRecord
<1>2. /\ retained' = retained
      /\ tripped'[s] = AfterRecord(tripped[s], record)
      /\ \A c \in Channels \ {s} : tripped'[c] = tripped[c]
  BY <1>1 DEF TypeInv, TypeOK, OnTripRecord
<1>3. \A c \in Channels : SavingFor(c) <=> SavingFor(c)'
  <2>1. CASE saving' = saving
    BY <2>1 DEF SavingFor
  <2>2. CASE saving' = Forgotten(s)
    BY <1>1, <2>2, ForgottenSaving
  <2> QED
    BY <2>1, <2>2 DEF OnTripRecord
<1>4. ASSUME NEW c \in Channels, NEW i \in 1..Len(echo'), LastFor(c, i)'
      PROVE  i + 1 \in 1..n /\ LastFor(c, i + 1) /\ echo'[i] = echo[i + 1]
  <2>1. i + 1 \in 1..n /\ echo'[i] = echo[i + 1]
    BY <1>1
  <2>2. \A j \in (i + 2)..n : j - 1 \in (i + 1)..Len(echo') /\ echo'[j - 1] = echo[j]
    BY <1>1
  <2>3. \A j \in (i + 2)..n : echo[j][1] # c
    BY <1>4, <2>2 DEF LastFor
  <2> QED
    BY <1>4, <2>1, <2>3 DEF LastFor
<1>5. ASSUME NEW c \in Channels, ~Pending(c)', Pending(c)
      PROVE  c = s /\ LastFor(c, 1)
  <2>1. \A j \in 2..n : j - 1 \in 1..Len(echo') /\ echo'[j - 1] = echo[j]
    BY <1>1
  <2>2. \A j \in 2..n : echo[j][1] # c
    BY <1>5, <2>1 DEF Pending
  <2>3. echo[1][1] = c
    BY <1>1, <1>5, <2>2 DEF Pending
  <2> QED
    BY <1>1, <2>2, <2>3 DEF LastFor
<1>6. ASSUME NEW c \in Channels, ~Pending(c)', ~SavingFor(c)'
      PROVE  retained[c] = "no" <=> tripped'[c] = "no"
  <2>1. CASE Pending(c)
    <3>1. c = s /\ retained[s] = record
      BY <1>1, <1>5, <1>6, <2>1 DEF RecordInv
    <3> QED
      BY <1>2, <3>1 DEF AfterRecord
  <2>2. CASE ~Pending(c)
    <3>1. c # s
      BY <1>1, <2>2 DEF Pending
    <3> QED
      BY <1>2, <1>3, <1>6, <2>2, <3>1 DEF RecordInv, Telling, BetweenPops, OnTripRecord, Free, Idle
  <2> QED
    BY <2>1, <2>2
<1> QED
  BY <1>2, <1>4, <1>6 DEF RecordInv

LEMMA RecordRestart ==
  ASSUME TypeInv, Restart
  PROVE  RecordInv'
<1> DEFINE held == {c \in Channels : retained[c] # "no"}
<1>1. PICK order \in [1..Cardinality(held) -> held] :
        /\ \A c \in held : \E i \in DOMAIN order : order[i] = c
        /\ echo' = [i \in DOMAIN order |-> <<order[i], retained[order[i]]>>]
  BY DEF Restart
<1>2. Cardinality(held) \in Nat
  BY HvAssumption, FS_Subset, FS_CardinalityType
<1>3. PICK n \in Nat : /\ order \in [1..n -> held]
                       /\ echo' = [i \in 1..n |-> <<order[i], retained[order[i]]>>]
  BY <1>1, <1>2
<1>4. Len(echo') = n /\ \A i \in 1..n : echo'[i] = <<order[i], retained[order[i]]>>
  BY <1>3
<1>5. ASSUME NEW c \in held
      PROVE  Pending(c)'
  <2>1. PICK i \in 1..n : order[i] = c
    BY <1>1, <1>3
  <2>2. i \in 1..Len(echo') /\ echo'[i][1] = c
    BY <1>4, <2>1
  <2> QED
    BY <2>2 DEF Pending
<1>6. retained' = retained /\ tripped' = Unlatched
  BY DEF Restart
<1>7. ASSUME NEW c \in Channels, NEW i \in 1..Len(echo'), LastFor(c, i)'
      PROVE  echo'[i][2] = retained'[c]
  BY <1>3, <1>4, <1>6, <1>7 DEF LastFor
<1>8. ASSUME NEW c \in Channels, ~Pending(c)'
      PROVE  retained'[c] = "no" /\ tripped'[c] = "no"
  BY <1>5, <1>6, <1>8 DEF Unlatched
<1> QED
  BY <1>7, <1>8 DEF RecordInv

LEMMA RecordStep == TypeInv /\ RecordInv /\ [Next]_vars => RecordInv'
<1> SUFFICES ASSUME TypeInv, RecordInv, [Next]_vars PROVE RecordInv'
  OBVIOUS
<1>1. ASSUME UNCHANGED <<tripped, saving, broker>>,
             \A c \in Channels : Telling(c) => Telling(c)'
      PROVE  RecordInv'
  BY <1>1 DEF broker, RecordInv, Pending, LastFor, SavingFor
<1>2. ASSUME UNCHANGED <<tripped, saving, broker, command>>
      PROVE  RecordInv'
  BY <1>1, <1>2 DEF Telling, BetweenPops
<1>3. CASE StoreCounts \/ TestLatch \/ TestCounts \/ Latch \/ TakeRecord
  <2>1. CASE UNCHANGED <<tripped, saving>>
    BY <1>2, <1>3, <2>1
       DEF StoreCounts, TestLatch, TestCounts, Latch, TakeRecord, network
  <2>2. CASE MakeItSafe /\ \A d \in Channels \ {watching.channel} : tripped'[d] = tripped[d]
    <3>1. saving'.channel = watching.channel /\ saving'.step = "write"
      BY <2>2 DEF MakeItSafe
    <3>2. \A d \in Channels : SavingFor(d)' <=> d = watching.channel
      BY <3>1 DEF SavingFor, NotSaving
    <3>3. saving = NotSaving
      BY <1>3, WatchingRecord DEF StoreCounts, TestLatch, TestCounts, Latch, TakeRecord
    <3>4. UNCHANGED <<broker, command>>
      BY <1>3 DEF StoreCounts, TestLatch, TestCounts, Latch, TakeRecord, network
    <3> QED
      BY <2>2, <3>2, <3>3, <3>4, RecordStutter DEF broker, SavingFor
  <2> QED
    BY <1>3, <2>1, <2>2
       DEF StoreCounts, TestLatch, TestCounts, Latch, TakeRecord, TypeInv, TypeOK
<1>4. CASE MakeSafe
  <2>1. \A d \in Channels \ {saving.channel} : tripped'[d] = tripped[d]
    BY <1>4, SavingRecord DEF MakeSafe, TypeInv, TypeOK
  <2>2. \A d \in Channels : SavingFor(d)' <=> d = saving.channel
    BY <1>4, SavingRecord DEF SavingFor, NotSaving
  <2>3. UNCHANGED <<broker, network>>
    BY <1>4 DEF MakeSafe
  <2> QED
    BY <2>1, <2>2, <2>3, RecordStutter DEF broker, network, SavingFor
<1>5. CASE PublishRecord
  <2>1. saving.channel \in Channels
    BY <1>5 DEF PublishRecord, TypeInv, Savings, NotSaving
  <2>2. \A d \in Channels \ {saving.channel} : ~SavingFor(d)
    BY DEF SavingFor
  <2>3. \A d \in Channels : Telling(d) <=> Telling(d)'
    BY <1>5 DEF PublishRecord, network, Telling, BetweenPops
  <2> QED
    BY <1>5, <2>1, <2>2, <2>3, RecordSent DEF PublishRecord, Latches
<1>6. ASSUME NEW s \in Channels, ForgetTrip(s)
      PROVE  RecordInv'
  <2>1. \A d \in Channels : SavingFor(d) <=> SavingFor(d)'
    BY <1>6, ForgottenSaving DEF ForgetTrip
  <2>2. /\ tripped'[s] = "no" /\ \A d \in Channels \ {s} : tripped'[d] = tripped[d]
        /\ UNCHANGED broker
    BY <1>6 DEF ForgetTrip, TypeInv, TypeOK
  <2>3. \A d \in Channels : ~Telling(d)
    BY <1>6 DEF Telling, BetweenPops, ForgetTrip
  <2>4. Telling(s)' \/ tripped[s] = "no"
    BY <1>6 DEF Telling, BetweenPops, ForgetTrip
  <2> QED
    BY <2>1, <2>2, <2>3, <2>4 DEF broker, RecordInv, Pending, LastFor
<1>7. CASE PopFlags \/ PopCollapses
  <2>1. /\ UNCHANGED <<tripped, saving, broker>> /\ BetweenPops'
        /\ command'.target = command.target /\ command'.had = command.had
        /\ command'.channel = command.channel
    BY <1>7, CommandRecord DEF PopFlags, PopCollapses, BetweenPops, Pops
  <2> QED
    BY <1>1, <2>1 DEF Telling
<1>8. CASE TellForgotten
  <2> DEFINE t == command.target
  <2>1. command \in Pops /\ t \in Channels
    BY <1>8, CommandRecord DEF TellForgotten, Pops
  <2>2. UNCHANGED <<tripped, saving>>
    BY <1>8 DEF TellForgotten, cycle
  <2>3. CASE Telling(t)
    <3>1. PublishTrip(t, "no")
      BY <1>8, <2>3 DEF TellForgotten, Telling
    <3>2. \A d \in Channels \ {t} : ~Telling(d)
      BY DEF Telling
    <3> QED
      BY <2>1, <2>2, <3>1, <3>2, RecordSent DEF SavingFor, Latches
  <2>4. CASE ~Telling(t)
    <3>1. UNCHANGED broker
      BY <1>8, <2>4 DEF TellForgotten, Telling, BetweenPops
    <3>2. \A d \in Channels : ~Telling(d)
      BY <2>4 DEF Telling
    <3> QED
      BY <1>1, <2>2, <3>1, <3>2
  <2> QED
    BY <2>3, <2>4
<1>9. ASSUME NEW c \in Channels, Poll(c) \/ WatchUnread(c) \/ Watch(c) \/ EnforceDisabledZero(c)
      PROVE  RecordInv'
  BY <1>2, <1>9 DEF Poll, WatchUnread, Watch, EnforceDisabledZero, network
<1>10. CASE MainLoop
  BY <1>3, <1>4, <1>5, <1>9, <1>10 DEF MainLoop
<1>11. ASSUME NEW c \in Channels, NEW yes \in BOOLEAN, VsetCheck(c, yes) \/ OutputCheck(c, yes)
       PROVE  RecordInv'
  <2>1. UNCHANGED <<tripped, cycle, broker>>
    BY <1>11 DEF VsetCheck, OutputCheck
  <2>2. ~BetweenPops
    BY <1>11, CommandKinds DEF BetweenPops
  <2> QED
    BY <1>1, <2>1, <2>2 DEF cycle, Telling
<1>12. CASE VsetWrite \/ OutputWrite \/ ClearSend
  <2>1. UNCHANGED <<tripped, cycle, broker>>
    BY <1>12 DEF VsetWrite, OutputWrite, ClearSend
  <2>2. ~BetweenPops
    BY <1>12, CommandKinds DEF BetweenPops
  <2> QED
    BY <1>1, <2>1, <2>2 DEF cycle, Telling
<1>13. ASSUME NEW c \in Channels, ClearRead(c) \/ ClearZero(c)
       PROVE  RecordInv'
  <2>1. UNCHANGED <<tripped, cycle, broker>>
    BY <1>13 DEF ClearRead, ClearZero
  <2>2. ~BetweenPops
    BY <1>13, CommandKinds DEF BetweenPops
  <2> QED
    BY <1>1, <2>1, <2>2 DEF cycle, Telling
<1>14. ASSUME NEW c \in Channels, FlagTrip(c) \/ Collapse(c) \/ SwitchOff(c) \/ SwitchOn(c)
       PROVE  RecordInv'
  BY <1>2, <1>14
     DEF FlagTrip, Collapse, SwitchOff, SwitchOn, ElsewhereUnchanged, cycle, network
<1>15. CASE UNCHANGED vars
  BY <1>2, <1>15 DEF vars, cycle, network
<1> QED
  BY <1>6, <1>7, <1>8, <1>10, <1>11, <1>12, <1>13, <1>14, <1>15, RecordReceived, RecordRestart
     DEF Next, NetworkThread, Surroundings

(* For any number of channels, clears, records on their way and restarts:  *)
(* once nothing is on its way, the broker and the service agree on which   *)
(* channels are tripped.                                                   *)
THEOREM RecordsCorrect == Spec => []RecordsAgree
<1>1. Init => RecordInv
  BY DEF Init, RecordInv, Unlatched
<1>2. TypeInv /\ RecordInv => RecordsAgree
  BY DEF RecordInv, RecordsAgree, Pending, SavingFor, Telling
<1> QED
  BY InitType, TypeStep, RecordStep, <1>1, <1>2, PTL DEF Spec

-------------------------------------------------------------------------------
(* Which supply is behind which port. *)

(* What a handle, the main loop and a command may look like.               *)
LinkHandles == [port : Ports \cup {K!NoPort}, open : BOOLEAN]
LinkLoops == [at : {"start", "bind", "refused", "read", "sleep", "close", "find", "open"},
              todo : SUBSET Supplies, found : Ports \cup {K!NoPort},
              for : Supplies \cup {K!Nobody}]
LinkCarried == [at : {"write", "read back", "ok", "failed"}, supply : Supplies,
                reader : LinkHandles,
                wrote : Supplies \cup {K!Nobody}, raced : BOOLEAN, undisturbed : BOOLEAN]

LinkTypes ==
  /\ plugged \in [Ports -> Supplies \cup {K!Nobody}]
  /\ readers \in [Supplies -> LinkHandles]
  /\ linkLoop \in LinkLoops
  /\ linkLoop.at = "open" => linkLoop.found \in Ports /\ linkLoop.for \in Supplies
  /\ linkLoop.at = "bind" => \A d \in Supplies : readers[d].port \in Ports
  /\ linkCommand \in {K!AtRest} \cup LinkCarried
  /\ crossed \subseteq Supplies

(* A handle that is open is open to a board: it died with the last one.    *)
OpenTo(reader, boards) ==
  reader.open => reader.port \in Ports /\ plugged[reader.port] \in boards

(* Nothing is open before every port is.                                   *)
OpenToBoards ==
  /\ \A d \in Supplies : OpenTo(readers[d], Supplies)
  /\ linkCommand # K!AtRest => OpenTo(linkCommand.reader, Supplies)
  /\ ~K!Up => \A d \in Supplies : ~readers[d].open

(* Unless its cable was moved in between, a supply is where it was found,  *)
(* and what is open for it is open to it.                                  *)
WhereFound ==
  /\ \A d \in Supplies \ crossed : OpenTo(readers[d], {d})
  /\ linkLoop.at = "open" /\ linkLoop.for \notin crossed => plugged[linkLoop.found] = linkLoop.for
  /\ linkLoop.at = "bind" => \A d \in Supplies \ crossed : plugged[readers[d].port] = d

(* And so is what a command took, and what it has written to.              *)
CommandsReach ==
  linkCommand # K!AtRest /\ ~linkCommand.raced =>
    /\ OpenTo(linkCommand.reader, {linkCommand.supply})
    /\ linkCommand.wrote \in {linkCommand.supply, K!Nobody}

LinkInv == LinkTypes /\ OpenToBoards /\ WhereFound /\ CommandsReach

(* What the main loop counts, and the time until it may relink.            *)
Counters ==
  /\ down \in [Supplies -> 0..K!ReadsToRelink]
  /\ failures \in 0..K!ReadsToRelink /\ wait \in 0..RelinkWait

LEMMA CountersKept ==
  ASSUME K!LinkAssumption, LinkTypes, Counters, [K!Next]_(K!vars) PROVE Counters'
<1>1. RelinkWait \in Nat /\ K!ReadsToRelink \in Nat /\ K!ReadsToRelink = 2
  BY DEF K!LinkAssumption, K!ReadsToRelink
<1>2. \A n \in 0..K!ReadsToRelink : K!More(n) \in 0..K!ReadsToRelink
  BY <1>1 DEF K!More
<1>3. CASE K!Read
  <2>1. \A alive : K!LinkDown(alive) \in [Supplies -> 0..K!ReadsToRelink]
    BY <1>1, <1>2 DEF K!LinkDown, Counters
  <2>2. K!More(failures) \in 0..K!ReadsToRelink /\ 0 \in 0..K!ReadsToRelink
    BY <1>1, <1>2 DEF Counters
  <2>3. /\ \E alive : down' = down \/ down' = K!LinkDown(alive)
        /\ failures' = K!More(failures) \/ failures' = 0
        /\ wait' = wait
    BY <1>3 DEF K!Read
  <2> QED BY <2>1, <2>2, <2>3 DEF Counters
<1>4. CASE K!CloseAll
  BY <1>1, <1>4 DEF K!CloseAll, Counters
<1>5. CASE K!Open
  <2>1. \/ UNCHANGED down \/ down' = [down EXCEPT ![linkLoop.for] = 0]
    BY <1>5 DEF K!Open
  <2>2. UNCHANGED <<failures, wait>>
    BY <1>5 DEF K!Open
  <2> QED BY <1>1, <2>1, <2>2 DEF Counters
<1>6. CASE K!Sleep
  <2>1. wait' = (IF wait > 0 THEN wait - 1 ELSE 0) /\ UNCHANGED <<down, failures>>
    BY <1>6 DEF K!Sleep
  <2> QED BY <1>1, <2>1 DEF Counters
<1>7. CASE K!Relinked
  <2>1. failures' \in {0, failures} /\ UNCHANGED <<down, wait>>
    BY <1>7 DEF K!Relinked
  <2> QED BY <1>1, <2>1 DEF Counters
<1>8. CASE \/ \E d \in Supplies : K!Find(d)
           \/ K!Identify \/ K!Bind \/ K!Network \/ K!Hands \/ UNCHANGED K!vars
  <2>1. UNCHANGED <<down, failures, wait>>
    BY <1>8 DEF K!Find, K!Identify, K!Bind, K!Network, K!Take, K!Write, K!ReadBack, K!Answer, K!Hands,
       K!StartAgain, K!Pull, K!Plug, K!vars
  <2> QED BY <2>1 DEF Counters
<1> QED BY <1>3, <1>4, <1>5, <1>6, <1>7, <1>8 DEF K!Next, K!Loop

(* What is at rest carries nothing out.                                    *)
LEMMA NotAtRest ==
  /\ K!AtRest \notin LinkCarried /\ K!AtRest.at = "idle"
  /\ \A step : /\ K!Resting(step).at = step /\ K!Resting(step).todo = {}
               /\ K!Resting(step).found = K!NoPort /\ K!Resting(step).for = K!Nobody
<1>1. K!AtRest.at = "idle" /\ \A x \in LinkCarried : x.at # "idle"
  BY DEF K!AtRest, LinkCarried
<1> QED BY <1>1 DEF K!Resting

(* Every supply is behind a port at the start, nothing is open.            *)
LEMMA LinkInitially == K!Init => LinkInv
<1> SUFFICES ASSUME K!Init PROVE LinkInv
  OBVIOUS
<1>1. \A d \in Supplies : readers[d] = K!Closed
  BY DEF K!Init
<1>2. K!Closed \in LinkHandles /\ ~K!Closed.open
  BY DEF K!Closed, LinkHandles
<1>3. linkLoop \in LinkLoops /\ linkLoop.at = "start" /\ linkCommand = K!AtRest
  BY DEF K!Init, K!Resting, LinkLoops
<1>4. LinkTypes
  BY <1>1, <1>2, <1>3 DEF K!Init, LinkTypes
<1>5. OpenToBoards
  BY <1>1, <1>2, <1>3 DEF OpenToBoards, OpenTo
<1>6. WhereFound
  BY <1>1, <1>2, <1>3 DEF WhereFound, OpenTo
<1> QED BY <1>3, <1>4, <1>5, <1>6 DEF LinkInv, CommandsReach

(* A handle on a port whose cable is pulled is closed for good; the others *)
(* are not concerned.                                                      *)
LEMMA PulledHandle ==
  ASSUME LinkTypes, NEW p \in Ports, plugged' = [plugged EXCEPT ![p] = K!Nobody],
         NEW r \in LinkHandles, NEW S
  PROVE  /\ K!Dead(r, p) \in LinkHandles /\ K!Dead(r, p).port = r.port
         /\ K!Dead(r, p).open => r.open
         /\ OpenTo(r, S) => OpenTo(K!Dead(r, p), S)'
<1>1. /\ K!Dead(r, p) \in LinkHandles /\ K!Dead(r, p).port = r.port
      /\ K!Dead(r, p).open => r.open /\ r.port # p
  BY DEF K!Dead, LinkHandles
<1>2. \A q \in Ports : q # p => plugged'[q] = plugged[q]
  BY DEF LinkTypes
<1> QED BY <1>1, <1>2 DEF OpenTo

(* A cable is pulled.                                                      *)
LEMMA PullKeeps ==
  ASSUME LinkInv, NEW p \in Ports, K!Pull(p)
  PROVE  LinkInv'
<1>1. /\ plugged[p] # K!Nobody /\ plugged' = [plugged EXCEPT ![p] = K!Nobody]
      /\ readers' = [d \in Supplies |-> K!Dead(readers[d], p)]
      /\ linkCommand' = IF linkCommand # K!AtRest /\ linkCommand.reader.port = p
                      THEN [linkCommand EXCEPT !.reader = K!Dead(@, p), !.undisturbed = FALSE]
                      ELSE linkCommand
      /\ crossed' = crossed \cup K!AskedAt(p)
      /\ UNCHANGED linkLoop
  BY DEF K!Pull
<1>2. LinkTypes
  BY DEF LinkInv
<1>3. \A d \in Supplies : readers[d] \in LinkHandles
  BY <1>2 DEF LinkTypes
<1>4. ASSUME NEW d \in Supplies
      PROVE  /\ readers'[d] \in LinkHandles /\ readers'[d].port = readers[d].port
             /\ readers'[d].open => readers[d].open
             /\ \A S : OpenTo(readers[d], S) => OpenTo(readers[d], S)'
  <2> PICK r \in LinkHandles : r = readers[d]
    BY <1>3
  <2>1. readers'[d] = K!Dead(r, p)
    BY <1>1
  <2>2. \A S : OpenTo(r, S) => OpenTo(K!Dead(r, p), S)'
    BY <1>1, <1>2, PulledHandle
  <2>3. K!Dead(r, p) \in LinkHandles /\ K!Dead(r, p).port = r.port /\ (K!Dead(r, p).open => r.open)
    BY <1>1, <1>2, PulledHandle
  <2> QED BY <2>1, <2>2, <2>3 DEF OpenTo
<1>5. ASSUME linkCommand # K!AtRest
      PROVE  /\ linkCommand' \in LinkCarried /\ linkCommand'.raced = linkCommand.raced
             /\ linkCommand'.supply = linkCommand.supply /\ linkCommand'.wrote = linkCommand.wrote
             /\ \A S : OpenTo(linkCommand.reader, S) => OpenTo(linkCommand.reader, S)'
  <2> PICK r \in LinkHandles : r = linkCommand.reader
    BY <1>2, <1>5 DEF LinkTypes, LinkCarried
  <2>1. linkCommand \in LinkCarried
    BY <1>2, <1>5 DEF LinkTypes
  <2>2. /\ linkCommand' \in LinkCarried /\ linkCommand'.raced = linkCommand.raced
        /\ linkCommand'.supply = linkCommand.supply /\ linkCommand'.wrote = linkCommand.wrote
        /\ linkCommand'.reader = K!Dead(r, p)
    <3>1. K!Dead(r, p) \in LinkHandles
      BY <1>1, <1>2, PulledHandle
    <3>2. CASE r.port = p
      BY <1>1, <1>5, <2>1, <3>1, <3>2 DEF LinkCarried
    <3>3. CASE r.port # p
      BY <1>1, <1>5, <2>1, <3>3 DEF LinkCarried, K!Dead
    <3> QED BY <3>2, <3>3
  <2>3. \A S : OpenTo(r, S) => OpenTo(K!Dead(r, p), S)'
    BY <1>1, <1>2, PulledHandle
  <2> QED BY <2>2, <2>3 DEF OpenTo
<1>6. linkCommand = K!AtRest => linkCommand' = K!AtRest
  BY <1>1
<1>7. crossed' = crossed \cup K!AskedAt(p) /\ K!AskedAt(p) \subseteq Supplies
  BY <1>1 DEF K!AskedAt
<1>8. LinkTypes'
  <2>1. plugged' \in [Ports -> Supplies \cup {K!Nobody}] /\ readers' \in [Supplies -> LinkHandles]
    BY <1>1, <1>2, <1>4 DEF LinkTypes
  <2>2. linkLoop'.at = "bind" => \A d \in Supplies : readers'[d].port \in Ports
    BY <1>1, <1>2, <1>4 DEF LinkTypes
  <2>3. linkCommand' \in {K!AtRest} \cup LinkCarried
    BY <1>5, <1>6
  <2> QED BY <1>1, <1>2, <1>7, <2>1, <2>2, <2>3 DEF LinkTypes
<1>9. OpenToBoards'
  <2>1. \A d \in Supplies : OpenTo(readers[d], Supplies)'
    BY <1>4 DEF LinkInv, OpenToBoards
  <2>2. linkCommand' # K!AtRest => OpenTo(linkCommand.reader, Supplies)'
    BY <1>5, <1>6 DEF LinkInv, OpenToBoards
  <2>3. ~K!Up' => \A d \in Supplies : ~readers'[d].open
    BY <1>1, <1>4 DEF LinkInv, OpenToBoards, K!Up
  <2> QED BY <2>1, <2>2, <2>3 DEF OpenToBoards
<1>10. WhereFound'
  <2>1. \A d \in Supplies \ crossed' : OpenTo(readers[d], {d})'
    BY <1>4, <1>7 DEF LinkInv, WhereFound
  <2>2. \A q \in Ports \ {p} : plugged'[q] = plugged[q]
    BY <1>1, <1>2 DEF LinkTypes
  <2>3. ASSUME linkLoop.at = "open", linkLoop.for \notin crossed' PROVE plugged'[linkLoop.found] = linkLoop.for
    <3>1. linkLoop.found # p
      BY <1>2, <1>7, <2>3 DEF K!AskedAt, LinkTypes
    <3>2. plugged[linkLoop.found] = linkLoop.for /\ linkLoop.found \in Ports
      BY <1>2, <1>7, <2>3 DEF LinkInv, WhereFound, LinkTypes
    <3> QED BY <2>2, <3>1, <3>2
  <2>4. ASSUME linkLoop.at = "bind", NEW d \in Supplies \ crossed'
        PROVE  plugged'[readers'[d].port] = d
    <3>1. readers[d].port # p
      BY <1>7, <2>4 DEF K!AskedAt
    <3>2. plugged[readers[d].port] = d /\ readers[d].port \in Ports
      BY <1>2, <1>7, <2>4 DEF LinkInv, WhereFound, LinkTypes
    <3> QED BY <1>4, <2>2, <3>1, <3>2
  <2> QED BY <1>1, <2>1, <2>3, <2>4 DEF WhereFound
<1>11. CommandsReach'
  BY <1>5, <1>6 DEF LinkInv, CommandsReach
<1> QED BY <1>8, <1>9, <1>10, <1>11 DEF LinkInv

(* A cable is put in where there was none, and so nothing is open.         *)
LEMMA PlugKeeps ==
  ASSUME K!LinkAssumption, LinkInv, NEW b \in Supplies, NEW p \in Ports, K!Plug(b, p)
  PROVE  LinkInv'
<1>1. /\ plugged[p] = K!Nobody /\ plugged' = [plugged EXCEPT ![p] = b]
      /\ UNCHANGED <<readers, linkLoop, linkCommand, crossed>>
  BY DEF K!Plug
<1>2. plugged' \in [Ports -> Supplies \cup {K!Nobody}]
      /\ \A q \in Ports : plugged[q] # K!Nobody => plugged'[q] = plugged[q]
  BY <1>1 DEF LinkInv, LinkTypes
<1>3. K!Nobody \notin Supplies
  BY DEF K!LinkAssumption
<1>4. \A r, S : S \subseteq Supplies /\ OpenTo(r, S) /\ r.open =>
                 r.port \in Ports /\ plugged'[r.port] \in S
  BY <1>2, <1>3 DEF OpenTo
<1>5. LinkTypes'
  BY <1>1, <1>2 DEF LinkInv, LinkTypes
<1>6. OpenToBoards'
  BY <1>1, <1>4 DEF LinkInv, OpenToBoards, OpenTo, K!Up
<1>7. WhereFound'
  <2>1. \A d \in Supplies \ crossed : OpenTo(readers[d], {d})'
    BY <1>1, <1>4 DEF LinkInv, WhereFound, OpenTo
  <2>2. linkLoop.at = "open" /\ linkLoop.for \notin crossed => plugged'[linkLoop.found] = linkLoop.for
    BY <1>2, <1>3 DEF LinkInv, WhereFound, LinkTypes
  <2>3. linkLoop.at = "bind" => \A d \in Supplies \ crossed : plugged'[readers[d].port] = d
    BY <1>2, <1>3 DEF LinkInv, WhereFound, LinkTypes
  <2> QED BY <1>1, <2>1, <2>2, <2>3 DEF WhereFound
<1>8. CommandsReach'
  <2>1. ASSUME linkCommand # K!AtRest, ~linkCommand.raced
        PROVE  OpenTo(linkCommand.reader, {linkCommand.supply})'
    <3>1. linkCommand.supply \in Supplies
      BY <2>1 DEF LinkInv, LinkTypes, LinkCarried
    <3> QED BY <1>1, <1>4, <2>1, <3>1 DEF LinkInv, CommandsReach, OpenTo
  <2> QED BY <1>1, <2>1 DEF LinkInv, CommandsReach
<1> QED BY <1>5, <1>6, <1>7, <1>8 DEF LinkInv

(* The main loop goes on to where nothing was found and nothing is bound.  *)
LEMMA LoopMoves ==
  ASSUME LinkInv, UNCHANGED <<plugged, readers, linkCommand, crossed>>,
         linkLoop' \in LinkLoops, linkLoop'.at \in {"read", "sleep", "close", "find"} , K!Up
  PROVE  LinkInv'
<1>1. LinkTypes'
  BY DEF LinkInv, LinkTypes
<1>2. OpenToBoards'
  BY DEF LinkInv, OpenToBoards, OpenTo, K!Up
<1>3. WhereFound'
  BY DEF LinkInv, WhereFound, OpenTo
<1> QED BY <1>1, <1>2, <1>3 DEF LinkInv, CommandsReach, OpenTo

(* The steps of the main loop: it reads, closes, finds, opens.             *)
LEMMA ReadKeeps == ASSUME LinkInv, K!Read \/ K!Sleep \/ K!Relinked PROVE LinkInv'
<1>1. UNCHANGED <<plugged, readers, linkCommand, crossed>> /\ K!Up
  BY DEF K!Read, K!Sleep, K!Relinked, K!Up
<1>2. linkLoop' \in LinkLoops /\ linkLoop'.at \in {"read", "sleep", "close", "find"}
  <2>1. \E step \in {"read", "sleep", "close"} : linkLoop' = K!Resting(step)
    BY DEF K!Read, K!Sleep, K!Relinked
  <2> QED BY <2>1 DEF K!Resting, LinkLoops
<1> QED BY <1>1, <1>2, LoopMoves

LEMMA CloseKeeps == ASSUME LinkInv, K!CloseAll PROVE LinkInv'
<1>1. /\ readers' = [d \in Supplies |-> K!Closed]
      /\ linkCommand' = IF linkCommand = K!AtRest THEN linkCommand ELSE [linkCommand EXCEPT !.reader.open = FALSE]
      /\ linkLoop' = [K!Resting("find") EXCEPT !.todo = Supplies]
      /\ crossed' = {} /\ UNCHANGED plugged
  BY DEF K!CloseAll
<1>2. \A d \in Supplies : readers'[d] \in LinkHandles /\ ~readers'[d].open
  BY <1>1 DEF K!Closed, LinkHandles
<1>3. linkLoop' \in LinkLoops /\ linkLoop'.at = "find"
  BY <1>1 DEF K!Resting, LinkLoops
<1>4. ASSUME linkCommand # K!AtRest
      PROVE  /\ linkCommand' \in LinkCarried /\ ~linkCommand'.reader.open
             /\ linkCommand'.raced = linkCommand.raced
             /\ linkCommand'.supply = linkCommand.supply /\ linkCommand'.wrote = linkCommand.wrote
  <2>1. linkCommand \in LinkCarried
    BY <1>4 DEF LinkInv, LinkTypes
  <2>2. linkCommand' = [linkCommand EXCEPT !.reader = [linkCommand.reader EXCEPT !.open = FALSE]]
    BY <1>1, <1>4
  <2>3. [linkCommand.reader EXCEPT !.open = FALSE] \in LinkHandles /\ linkCommand.reader \in LinkHandles
    BY <2>1 DEF LinkCarried, LinkHandles
  <2> QED BY <2>1, <2>2, <2>3 DEF LinkCarried, LinkHandles
<1>5. linkCommand = K!AtRest => linkCommand' = K!AtRest
  BY <1>1
<1>6. LinkTypes'
  BY <1>1, <1>2, <1>3, <1>4, <1>5 DEF LinkInv, LinkTypes
<1>7. OpenToBoards' /\ WhereFound'
  BY <1>2, <1>3, <1>4, <1>5 DEF OpenToBoards, WhereFound, OpenTo
<1>8. CommandsReach'
  BY <1>4, <1>5 DEF LinkInv, CommandsReach, OpenTo
<1> QED BY <1>6, <1>7, <1>8 DEF LinkInv

LEMMA FindKeeps == ASSUME LinkInv, NEW d \in Supplies, K!Find(d) PROVE LinkInv'
<1>1. UNCHANGED <<plugged, readers, linkCommand, crossed>> /\ linkLoop.at = "find" /\ K!Up
  BY DEF K!Find, K!Up
<1>2. linkLoop \in LinkLoops
  BY DEF LinkInv, LinkTypes
<1>3. CASE linkLoop' = [linkLoop EXCEPT !.todo = @ \ {d}]
  <2>1. linkLoop' \in LinkLoops /\ linkLoop'.at = "find"
    BY <1>1, <1>2, <1>3 DEF LinkLoops
  <2> QED BY <1>1, <2>1, LoopMoves
<1>4. ASSUME NEW q \in K!WhereIs(d),
             linkLoop' = [at |-> "open", todo |-> linkLoop.todo \ {d}, found |-> q, for |-> d]
      PROVE  LinkInv'
  <2>1. q \in Ports /\ plugged[q] = d
    BY DEF K!WhereIs
  <2>2. linkLoop' \in LinkLoops /\ linkLoop'.at = "open" /\ linkLoop'.found = q /\ linkLoop'.for = d
    BY <1>2, <1>4, <2>1 DEF LinkLoops
  <2>3. LinkTypes'
    BY <1>1, <2>1, <2>2 DEF LinkInv, LinkTypes
  <2>4. OpenToBoards'
    BY <1>1, <2>2 DEF LinkInv, OpenToBoards, OpenTo, K!Up
  <2>5. WhereFound'
    BY <1>1, <2>1, <2>2 DEF LinkInv, WhereFound, OpenTo
  <2> QED BY <1>1, <2>3, <2>4, <2>5 DEF LinkInv, CommandsReach, OpenTo
<1> QED BY <1>3, <1>4 DEF K!Find

LEMMA OpenKeeps == ASSUME K!LinkAssumption, LinkInv, K!Open PROVE LinkInv'
<1>1. /\ linkLoop.at = "open" /\ linkLoop' = [K!Resting("find") EXCEPT !.todo = linkLoop.todo]
      /\ UNCHANGED <<plugged, linkCommand, crossed>> /\ K!Up
  BY DEF K!Open, K!Up
<1>2. linkLoop \in LinkLoops /\ linkLoop.found \in Ports /\ linkLoop.for \in Supplies
  BY <1>1 DEF LinkInv, LinkTypes
<1>3. linkLoop' \in LinkLoops /\ linkLoop'.at = "find"
  BY <1>1, <1>2 DEF K!Resting, LinkLoops
<1>4. CASE UNCHANGED readers
  BY <1>1, <1>3, <1>4, LoopMoves
<1>5. CASE /\ plugged[linkLoop.found] # K!Nobody
           /\ readers' = [readers EXCEPT ![linkLoop.for] = [port |-> linkLoop.found, open |-> TRUE]]
  <2>1. readers' \in [Supplies -> LinkHandles]
    BY <1>2, <1>5 DEF LinkInv, LinkTypes, LinkHandles
  <2>2. \A d \in Supplies : \/ readers'[d] = readers[d]
                            \/ /\ d = linkLoop.for /\ readers'[d].port = linkLoop.found
                               /\ readers'[d].open
    BY <1>2, <1>5 DEF LinkInv, LinkTypes
  <2>3. LinkTypes'
    BY <1>1, <1>3, <2>1 DEF LinkInv, LinkTypes
  <2>4. \A d \in Supplies : OpenTo(readers[d], Supplies)'
    BY <1>1, <1>2, <1>5, <2>2 DEF LinkInv, LinkTypes, OpenToBoards, OpenTo
  <2>5. \A d \in Supplies \ crossed : OpenTo(readers[d], {d})'
    BY <1>1, <1>2, <2>2 DEF LinkInv, WhereFound, OpenTo
  <2>6. OpenToBoards'
    BY <1>1, <1>3, <2>4 DEF LinkInv, OpenToBoards, OpenTo, K!Up
  <2>7. WhereFound'
    BY <1>1, <1>3, <2>5 DEF WhereFound
  <2> QED BY <1>1, <2>3, <2>6, <2>7 DEF LinkInv, CommandsReach, OpenTo
<1> QED BY <1>4, <1>5 DEF K!Open

(* At the start: each supply is where it said its name.                    *)
LEMMA IdentifyKeeps == ASSUME LinkInv, K!Identify PROVE LinkInv'
<1>1. linkLoop.at = "start" /\ UNCHANGED <<plugged, linkCommand, crossed>> /\ ~K!Up
  BY DEF K!Identify, K!Up
<1>2. \A d \in Supplies : ~readers[d].open /\ readers[d] \in LinkHandles
  BY <1>1 DEF LinkInv, OpenToBoards, LinkTypes
<1>3. CASE /\ \A d \in Supplies : K!WhereIs(d) # {}
           /\ linkLoop' = K!Resting("bind")
           /\ readers' = [d \in Supplies |-> [port |-> CHOOSE q \in K!WhereIs(d) : TRUE,
                                              open |-> FALSE]]
  <2>1. ASSUME NEW d \in Supplies
        PROVE  /\ readers'[d] \in LinkHandles /\ ~readers'[d].open
               /\ readers'[d].port \in Ports /\ plugged[readers'[d].port] = d
    <3>1. readers'[d] = [port |-> CHOOSE q \in K!WhereIs(d) : TRUE, open |-> FALSE]
      BY <1>3
    <3>2. (CHOOSE q \in K!WhereIs(d) : TRUE) \in K!WhereIs(d)
      BY <1>3
    <3> QED BY <3>1, <3>2 DEF K!WhereIs, LinkHandles
  <2>2. linkLoop' \in LinkLoops /\ linkLoop'.at = "bind"
    BY <1>3 DEF K!Resting, LinkLoops
  <2>3. LinkTypes'
    BY <1>1, <1>3, <2>1, <2>2 DEF LinkInv, LinkTypes
  <2>4. OpenToBoards' /\ WhereFound'
    BY <1>1, <2>1, <2>2 DEF LinkInv, OpenToBoards, WhereFound, OpenTo
  <2> QED BY <1>1, <2>3, <2>4 DEF LinkInv, CommandsReach, OpenTo
<1>4. CASE linkLoop' = K!Resting("refused") /\ UNCHANGED readers
  <2>1. linkLoop' \in LinkLoops /\ linkLoop'.at = "refused"
    BY <1>4 DEF K!Resting, LinkLoops
  <2>2. LinkTypes'
    BY <1>1, <1>4, <2>1 DEF LinkInv, LinkTypes
  <2>3. OpenToBoards' /\ WhereFound'
    BY <1>1, <1>2, <1>4, <2>1 DEF LinkInv, OpenToBoards, WhereFound, OpenTo
  <2> QED BY <1>1, <2>2, <2>3 DEF LinkInv, CommandsReach, OpenTo
<1> QED BY <1>3, <1>4 DEF K!Identify

LEMMA BindKeeps == ASSUME LinkInv, K!Bind PROVE LinkInv'
<1>1. linkLoop.at = "bind" /\ UNCHANGED <<plugged, linkCommand, crossed>>
  BY DEF K!Bind
<1>2. \A d \in Supplies : readers[d] \in LinkHandles /\ readers[d].port \in Ports
  BY <1>1 DEF LinkInv, LinkTypes
<1>3. CASE /\ \A d \in Supplies : plugged[readers[d].port] # K!Nobody
           /\ linkLoop' = K!Resting("read")
           /\ readers' = [d \in Supplies |-> [readers[d] EXCEPT !.open = TRUE]]
  <2>1. \A d \in Supplies : readers'[d] \in LinkHandles /\ readers'[d].port = readers[d].port
    BY <1>2, <1>3 DEF LinkHandles
  <2>2. linkLoop' \in LinkLoops /\ linkLoop'.at = "read"
    BY <1>3 DEF K!Resting, LinkLoops
  <2>3. LinkTypes'
    BY <1>1, <1>3, <2>1, <2>2 DEF LinkInv, LinkTypes
  <2>4. \A d \in Supplies : plugged[readers[d].port] \in Supplies
    BY <1>2, <1>3 DEF LinkInv, LinkTypes
  <2>5. OpenToBoards'
    BY <1>1, <1>2, <2>1, <2>2, <2>4 DEF LinkInv, OpenToBoards, OpenTo, K!Up
  <2>6. WhereFound'
    BY <1>1, <1>2, <2>1, <2>2 DEF LinkInv, WhereFound, OpenTo
  <2> QED BY <1>1, <2>3, <2>5, <2>6 DEF LinkInv, CommandsReach, OpenTo
<1>4. CASE linkLoop' = K!Resting("refused") /\ readers' = [d \in Supplies |-> K!Closed]
  <2>1. \A d \in Supplies : readers'[d] \in LinkHandles /\ ~readers'[d].open
    BY <1>4 DEF K!Closed, LinkHandles
  <2>2. linkLoop' \in LinkLoops /\ linkLoop'.at = "refused"
    BY <1>4 DEF K!Resting, LinkLoops
  <2>3. LinkTypes'
    BY <1>1, <1>4, <2>1, <2>2 DEF LinkInv, LinkTypes
  <2>4. OpenToBoards' /\ WhereFound'
    BY <1>1, <2>1, <2>2 DEF LinkInv, OpenToBoards, WhereFound, OpenTo
  <2> QED BY <1>1, <2>3, <2>4 DEF LinkInv, CommandsReach, OpenTo
<1> QED BY <1>3, <1>4 DEF K!Bind

LEMMA StartKeeps == ASSUME LinkInv, K!StartAgain PROVE LinkInv'
<1>1. /\ linkLoop.at = "refused" /\ linkLoop' = K!Resting("start") /\ crossed' = {}
      /\ UNCHANGED <<plugged, readers, linkCommand>> /\ ~K!Up
  BY DEF K!StartAgain, K!Up
<1>2. linkLoop' \in LinkLoops /\ linkLoop'.at = "start"
  BY <1>1 DEF K!Resting, LinkLoops
<1>3. LinkTypes'
  BY <1>1, <1>2 DEF LinkInv, LinkTypes
<1>4. OpenToBoards' /\ WhereFound'
  BY <1>1, <1>2 DEF LinkInv, OpenToBoards, WhereFound, OpenTo
<1> QED BY <1>1, <1>3, <1>4 DEF LinkInv, CommandsReach, OpenTo

(* The network thread: what a command takes is open to its supply, and so  *)
(* is what it writes to.                                                   *)
LEMMA CommandKeeps == ASSUME LinkInv, K!Network PROVE LinkInv'
<1>1. UNCHANGED <<plugged, readers, linkLoop, crossed>>
  BY DEF K!Network, K!Take, K!Write, K!ReadBack, K!Answer
<1>2. LinkTypes
  BY DEF LinkInv
<1>3. WhereFound'
  BY <1>1 DEF LinkInv, WhereFound, OpenTo
<1>4. SUFFICES /\ linkCommand' \in {K!AtRest} \cup LinkCarried
               /\ linkCommand' # K!AtRest => OpenTo(linkCommand.reader, Supplies)'
               /\ CommandsReach'
  <2>1. LinkTypes'
    BY <1>1, <1>2, <1>4 DEF LinkTypes
  <2>2. OpenToBoards'
    BY <1>1, <1>4 DEF LinkInv, OpenToBoards, OpenTo, K!Up
  <2> QED BY <1>3, <1>4, <2>1, <2>2 DEF LinkInv
<1>5. CASE linkCommand' = K!AtRest
  BY <1>5 DEF CommandsReach
<1>6. ASSUME NEW d \in Supplies, K!Take(d), linkCommand' # K!AtRest PROVE <1>4!1
  <2>1. /\ K!Up
        /\ linkCommand' = [at |-> "write", supply |-> d, reader |-> readers[d],
                       wrote |-> K!Nobody, raced |-> d \in crossed,
                       undisturbed |-> readers[d].open]
    BY <1>6 DEF K!Take
  <2>2. readers[d] \in LinkHandles
    BY <1>2 DEF LinkTypes
  <2>3. linkCommand' \in LinkCarried
    BY <2>1, <2>2 DEF LinkCarried, LinkHandles
  <2>4. /\ linkCommand'.reader = readers[d] /\ linkCommand'.supply = d /\ linkCommand'.wrote = K!Nobody
        /\ linkCommand'.raced <=> d \in crossed
    BY <2>1
  <2>5. OpenTo(linkCommand.reader, Supplies)'
    BY <1>1, <2>4 DEF LinkInv, OpenToBoards, OpenTo
  <2>6. CommandsReach'
    BY <1>1, <2>4 DEF LinkInv, WhereFound, CommandsReach, OpenTo
  <2> QED BY <2>3, <2>5, <2>6
<1>7. ASSUME K!Write \/ K!ReadBack, linkCommand' # K!AtRest PROVE <1>4!1
  <2>1. linkCommand \in LinkCarried /\ linkCommand # K!AtRest
    BY <1>2, <1>7, NotAtRest DEF LinkTypes, K!Write, K!ReadBack
  <2>2. K!BoardAt(linkCommand.reader) \in Supplies \cup {K!Nobody}
    BY <1>2, <2>1 DEF K!BoardAt, LinkInv, LinkTypes, OpenToBoards, OpenTo
  <2>3. /\ linkCommand' \in LinkCarried /\ linkCommand'.reader = linkCommand.reader
        /\ linkCommand'.supply = linkCommand.supply /\ linkCommand'.raced = linkCommand.raced
        /\ linkCommand'.wrote \in {linkCommand.wrote, K!BoardAt(linkCommand.reader)}
    BY <1>7, <2>1, <2>2 DEF K!Write, K!ReadBack, LinkCarried
  <2>4. OpenTo(linkCommand.reader, Supplies)'
    BY <1>1, <2>1, <2>3 DEF LinkInv, OpenToBoards, OpenTo
  <2>5. CommandsReach'
    BY <1>1, <2>1, <2>3 DEF LinkInv, CommandsReach, OpenTo, K!BoardAt
  <2> QED BY <2>3, <2>4, <2>5
<1>8. CASE K!Answer
  BY <1>5, <1>8 DEF K!Answer
<1> QED BY <1>5, <1>6, <1>7, <1>8 DEF K!Network

(* Every step keeps the invariant. *)
LEMMA LinkInductive ==
  ASSUME K!LinkAssumption, LinkInv, [K!Next]_(K!vars) PROVE LinkInv'
<1>1. CASE UNCHANGED K!vars
  <2>1. UNCHANGED <<plugged, readers, linkLoop, linkCommand, crossed>>
    BY <1>1 DEF K!vars
  <2>2. LinkTypes' /\ OpenToBoards'
    BY <2>1 DEF LinkInv, LinkTypes, OpenToBoards, OpenTo, K!Up
  <2> QED BY <2>1, <2>2 DEF LinkInv, WhereFound, CommandsReach, OpenTo
<1>2. CASE K!Loop
  BY <1>2, ReadKeeps, CloseKeeps, FindKeeps, OpenKeeps, IdentifyKeeps, BindKeeps DEF K!Loop
<1>3. CASE K!Network
  BY <1>3, CommandKeeps
<1>4. CASE K!Hands
  BY <1>4, StartKeeps, PullKeeps, PlugKeeps DEF K!Hands
<1> QED BY <1>1, <1>2, <1>3, <1>4 DEF K!Next

(* TypeOK of CaenLink, for any number of supplies, ports, moves, commands  *)
(* and unanswered questions.                                               *)
THEOREM LinkTypesHold == K!Spec => []K!TypeOK
<1>1. K!LinkAssumption
  BY LinkAssumption
<1>2. K!Init => Counters
  BY <1>1 DEF K!Init, Counters, K!ReadsToRelink, K!LinkAssumption
<1>3. LinkInv /\ Counters /\ [K!Next]_(K!vars) => Counters'
  BY <1>1, CountersKept DEF LinkInv
<1>4. LinkInv /\ Counters => K!TypeOK
  BY DEF LinkInv, LinkTypes, Counters, K!TypeOK, LinkHandles
<1> QED BY <1>1, <1>2, <1>3, <1>4, LinkInitially, LinkInductive, PTL DEF K!Spec

(* WrongOnlyByARace: with any number of supplies and ports, however cables *)
(* are moved and whenever the link is rebuilt, a supply is read and a      *)
(* command written under its own name only, unless the cable was moved     *)
(* between the question who is there and the opening of its port (_relink, *)
(* verify_identity, _handle_vset).                                         *)
THEOREM RightSupply == K!Spec => []WrongOnlyByARace
<1>1. K!LinkAssumption
  BY LinkAssumption
<1>2. LinkInv => WrongOnlyByARace
  BY DEF LinkInv, WhereFound, CommandsReach, OpenTo, WrongOnlyByARace, K!WrongOnlyByARace,
     K!BoardAt
<1> QED BY <1>1, <1>2, LinkInitially, LinkInductive, PTL DEF K!Spec

-------------------------------------------------------------------------------
(* A step of the composition is a step of each part, or none.              *)
LEMMA ServiceStep ==
  ASSUME [ServiceNext]_<<part, vars, link>> PROVE [Next]_vars /\ [K!Next]_(K!vars)
<1>1. UNCHANGED link => UNCHANGED K!vars
  BY DEF link, K!vars, K!bounds
<1>2. CASE InSupply(Next)
  BY <1>1, <1>2 DEF InSupply
<1>3. CASE InLink(K!Next)
  BY <1>3 DEF InLink
<1>4. CASE UNCHANGED <<part, vars, link>>
  BY <1>1, <1>4
<1> QED BY <1>2, <1>3, <1>4 DEF ServiceNext

(* The composition keeps the specification of both parts: what is proved   *)
(* of one of them holds in what the run explores.                          *)
THEOREM ServiceKeepsBoth == ServiceSpec => Spec /\ K!Spec
<1>1. ServiceInit => Init /\ K!Init
  BY DEF ServiceInit
<1> QED BY <1>1, ServiceStep, PTL DEF ServiceSpec, Spec, K!Spec
===============================================================================
