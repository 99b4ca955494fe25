------------------------------ MODULE ServiceLoop ------------------------------
(***************************************************************************)
(* The loop every device service runs (service.py, BaseService), with the  *)
(* CAEN service's way of telling a commanded value at once (devices/       *)
(* caen.py, _accumulate and _publish_vset_now).                            *)
(*                                                                         *)
(* The loop reads every interval, collects the samples in a window and     *)
(* publishes the window's aggregates every log interval; a read that fails *)
(* is published as an error at once and retried after a growing pause.     *)
(* The network thread carries out commands: it takes the channel out of    *)
(* the window and publishes what the write left on the instrument, if the  *)
(* write was confirmed; a write that took but was not read back, or not as  *)
(* asked, is refused and leaves the window as it is.  The window is a       *)
(* dictionary without a lock.                                              *)
(*                                                                         *)
(* A value is the number of changes that led to it, so no two states of a   *)
(* channel look alike; the mean of a window is the set of values in it.    *)
(***************************************************************************)
EXTENDS Naturals, FiniteSets

CONSTANTS
  Channels,
  Flags,            \* channels whose unit is bits or code: told as last read
  Interval,         \* ticks between two reads
  LogInterval,      \* ticks between two windows
  MaxBackoff,       \* the longest pause after failed reads (30 s)
  MaxChanges,       \* bound: how often a value changes
  MaxTroubles       \* bound: times the link comes or goes, or a read fails

ASSUME LoopAssumption ==
  /\ IsFiniteSet(Channels) /\ Flags \subseteq Channels
  /\ {Interval, LogInterval, MaxBackoff} \subseteq Nat \ {0}
  /\ {MaxChanges, MaxTroubles} \subseteq Nat

VARIABLES
  value,       \* the instrument: what each channel holds
  gone,        \* the instrument cannot be reached
  \* the loop
  pc,          \* "wait", "filter", "emit", "dead", or "abandoned"
  nextRead, nextLog,   \* ticks to go
  backoff, failures,
  state,       \* the service's state as published
  batch,       \* what the last read found, per channel of the read
  todo,        \* channels of the batch, or of the window, still to be done
  size,        \* the window's size when the loop began to walk it
  inHand,      \* the aggregate about to be published
  \* shared with the network thread
  window,      \* _window: the samples of each channel it has
  commanded,   \* channels commanded since the last read began (_commanded_at)
  statLast,    \* _stat_last
  command,     \* what the network thread is doing
  \* the broker, bounds and history
  shown,       \* what is retained of each channel
  changes, troubles,
  raced,       \* history: an older sample was past the filter when its channel was
               \* commanded, or the window was read between a write and the drop
  unconfirmed  \* history: a refused command wrote to the channel nevertheless, and
               \* the window has not been dropped since

device == <<value, gone>>
cadence == <<nextRead, nextLog, backoff, failures, state>>
walk == <<batch, todo, size, inHand>>
bounds == <<changes, troubles>>
history == <<raced, unconfirmed>>
vars == <<device, pc, cadence, walk, window, commanded, statLast, command,
          shown, bounds, history>>

Idle == [step |-> "none"]
Nobody == [channel |-> "none"]

(* A sample is the set of one value, or of none when it could not be read. *)
Bad == {}
Error == [values |-> {}, quality |-> "error"]
Told(v) == [values |-> {v}, quality |-> "ok"]

Least(a, b) == IF a < b THEN a ELSE b

Missing == [good |-> {}, last |-> {}, bad |-> FALSE]
InWindow(c) == window[c] # Missing
Size == Cardinality({c \in Channels : InWindow(c)})

-------------------------------------------------------------------------------
(* read(): the samples of one sweep, all stamped with its start.           *)
Read ==
  /\ pc = "wait" /\ nextRead = 0 /\ ~gone
  /\ \E unread \in SUBSET Channels :
       /\ unread # {} => troubles < MaxTroubles
       /\ unread # Channels
       /\ batch' = [c \in Channels |-> IF c \in unread THEN Bad ELSE {value[c]}]
       /\ troubles' = IF unread = {} THEN troubles ELSE troubles + 1
  /\ pc' = "filter" /\ todo' = Channels
  /\ commanded' = {}
  /\ UNCHANGED <<device, cadence, size, inHand, window, statLast, command, shown,
                 changes, history>>

(* _accumulate of caen.py: a sample older than the last command of its     *)
(* channel is dropped; a status word that changed is told at once.         *)
Bug_TooOld(c) == FALSE
TooOld(c) == c \in commanded

Filter(c) ==
  /\ pc = "filter" /\ c \in todo
  /\ todo' = todo \ {c}
  /\ IF TooOld(c)
     THEN /\ batch' = [b \in DOMAIN batch \ {c} |-> batch[b]]
          /\ UNCHANGED <<statLast, shown>>
     ELSE /\ IF c \in Flags /\ batch[c] # Bad /\ batch[c] # statLast[c]
             THEN /\ statLast' = [statLast EXCEPT ![c] = batch[c]]
                  /\ \E v \in batch[c] : shown' = [shown EXCEPT ![c] = Told(v)]
             ELSE UNCHANGED <<statLast, shown>>
          /\ UNCHANGED batch
  /\ UNCHANGED <<device, pc, cadence, size, inHand, window, commanded, command, bounds,
                 history>>

(* _accumulate of service.py, and what the loop does after a good read.    *)
WithSample(w, sample) ==
  [good |-> w.good \cup sample,
   last |-> IF sample = Bad THEN w.last ELSE sample,
   bad |-> w.bad \/ sample = Bad]

Bug_Recovered == state
Recovered == "RUNNING"

Accumulate ==
  /\ pc = "filter" /\ todo = {}
  /\ window' = [c \in Channels |-> IF c \in DOMAIN batch THEN WithSample(window[c], batch[c])
                                                       ELSE window[c]]
  /\ state' = Recovered
  /\ backoff' = 1 /\ failures' = 0
  /\ nextRead' = Interval
  /\ pc' = "wait"
  /\ batch' = <<>>
  /\ UNCHANGED <<device, nextLog, todo, size, inHand, commanded, statLast, command,
                 shown, bounds, history>>

Longer(pause) == Least(2 * pause, MaxBackoff)

(* Nothing answered, or read() raised: every channel the service owns is   *)
(* published as an error; from the second failure in a row the link is     *)
(* rebuilt.                                                                *)
Bug_Owned == {c \in Channels : InWindow(c)}
Owned == Channels

ReadFails ==
  /\ pc = "wait" /\ nextRead = 0
  /\ IF gone THEN UNCHANGED troubles
             ELSE troubles < MaxTroubles /\ troubles' = troubles + 1
  /\ shown' = [c \in Channels |-> IF c \in Owned THEN Error ELSE shown[c]]
  /\ state' = "DEGRADED"
  /\ LET reconnected == failures >= 1 /\ ~gone
         pause == IF reconnected THEN 1 ELSE backoff
     IN /\ failures' = IF reconnected THEN 0 ELSE Least(failures + 1, 2)
        /\ nextRead' = pause
        /\ backoff' = Longer(pause)
  /\ commanded' = {}
  /\ UNCHANGED <<device, pc, nextLog, walk, window, statLast, command, changes, history>>

-------------------------------------------------------------------------------
(* _emit_window walks the dictionary ...                                   *)
EmitBegin ==
  /\ pc = "wait" /\ nextRead > 0 /\ nextLog = 0
  /\ pc' = "emit"
  /\ todo' = {c \in Channels : InWindow(c)}
  /\ size' = Size
  /\ UNCHANGED <<device, cadence, batch, inHand, window, commanded, statLast, command,
                 shown, bounds, history>>

Aggregate(c) ==
  IF window[c].good = {} THEN Error
  ELSE [values |-> IF c \in Flags THEN window[c].last ELSE window[c].good,
        quality |-> IF window[c].bad THEN "stale" ELSE "ok"]

(* The window may hold what the command made, and what was there before.   *)
Untold(c) == command.step = "drop" /\ command.channel = c

EmitNext(c) ==
  /\ pc = "emit" /\ inHand = Nobody /\ size = Size
  /\ c \in todo /\ InWindow(c)
  /\ inHand' = [channel |-> c, aggregate |-> Aggregate(c)]
  /\ todo' = todo \ {c}
  /\ raced' = IF Untold(c) THEN raced \cup {c} ELSE raced
  /\ UNCHANGED <<device, pc, cadence, batch, size, window, commanded, statLast, command,
                 shown, bounds, unconfirmed>>

EmitPublish ==
  /\ pc = "emit" /\ inHand # Nobody
  /\ shown' = [shown EXCEPT ![inHand.channel] = inHand.aggregate]
  /\ inHand' = Nobody
  /\ UNCHANGED <<device, pc, cadence, batch, todo, size, window, commanded, statLast,
                 command, bounds, history>>

(* ... empties it, and sends a heartbeat ...                               *)
Emptied == [c \in Channels |-> Missing]

EmitEnd ==
  /\ pc = "emit" /\ inHand = Nobody /\ size = Size /\ todo = {}
  /\ window' = Emptied
  /\ nextLog' = LogInterval
  /\ pc' = "wait"
  /\ raced' = {} /\ unconfirmed' = {}
  /\ UNCHANGED <<device, nextRead, backoff, failures, state, walk, commanded, statLast,
                 command, shown, bounds>>

(* ... unless the dictionary has changed its size: the RuntimeError leaves *)
(* _loop and run, and the service ends.                                    *)
EmitRaises ==
  /\ pc = "emit" /\ inHand = Nobody /\ size # Size
  /\ pc' = "dead"
  /\ state' = "STOPPED"
  /\ UNCHANGED <<device, nextRead, nextLog, backoff, failures, walk, window, commanded,
                 statLast, command, shown, bounds, history>>

(* Its wrapper starts it again; it runs once the instrument says who it is *)
(* and stops again while it does not.  One that keeps dying soon after its *)
(* start, or cannot start, is given up in the end.                         *)
Fresh ==
  /\ nextRead' = 0 /\ nextLog' = LogInterval
  /\ backoff' = 1 /\ failures' = 0
  /\ state' = "RUNNING"
  /\ window' = Emptied /\ commanded' = {}
  /\ statLast' = [c \in Channels |-> Bad]
  /\ todo' = {} /\ size' = 0

StartAgain ==
  /\ pc = "dead" /\ command = Idle /\ ~gone
  /\ pc' = "wait"
  /\ Fresh
  /\ raced' = {} /\ unconfirmed' = {}
  /\ UNCHANGED <<device, batch, inHand, command, shown, bounds>>

GiveUp ==
  /\ pc = "dead"
  /\ pc' = "abandoned"
  /\ UNCHANGED <<device, cadence, walk, window, commanded, statLast, command, shown,
                 bounds, history>>

Stopped == pc \in {"dead", "abandoned"}

-------------------------------------------------------------------------------
(* The network thread: a write, verified in its transaction.  Not read     *)
(* back, or not read back as asked, or not acknowledged by the board, it   *)
(* is refused, whatever the board now holds ...                            *)
CommandWrite(c) ==
  /\ ~Stopped /\ command = Idle /\ changes < MaxChanges /\ ~gone
  /\ changes' = changes + 1
  /\ value' = [value EXCEPT ![c] = changes + 1]
  /\ \/ /\ command' = [step |-> "drop", channel |-> c, value |-> changes + 1]
        /\ UNCHANGED unconfirmed
     \/ unconfirmed' = unconfirmed \cup {c} /\ UNCHANGED command
  /\ UNCHANGED <<gone, pc, cadence, walk, window, commanded, statLast, shown, troubles,
                 raced>>

(* ... _publish_vset_now and _publish_status_now: the window forgets the   *)
(* channel, and the value read back is published.                          *)
Dropped(c) == [window EXCEPT ![c] = Missing]
Carried(c) == inHand # Nobody /\ inHand.channel = c

CommandDrop ==
  /\ command.step = "drop"
  /\ LET c == command.channel
     IN /\ commanded' = commanded \cup {c}
        /\ window' = Dropped(c)
        /\ raced' = IF pc = "filter" /\ c \notin todo THEN raced \cup {c} ELSE raced
        /\ unconfirmed' = IF Carried(c) THEN unconfirmed ELSE unconfirmed \ {c}
  /\ command' = [command EXCEPT !.step = "show"]
  /\ UNCHANGED <<device, pc, cadence, walk, statLast, shown, bounds>>

CommandShow ==
  /\ command.step = "show"
  /\ LET c == command.channel
     IN /\ statLast' = IF c \in Flags THEN [statLast EXCEPT ![c] = {command.value}]
                                     ELSE statLast
        /\ shown' = [shown EXCEPT ![c] = Told(command.value)]
  /\ command' = Idle
  /\ UNCHANGED <<device, pc, cadence, walk, window, commanded, bounds, history>>

-------------------------------------------------------------------------------
(* A status word changes by itself: a ramp ends, a channel trips.          *)
StatusChanges(c) ==
  /\ c \in Flags /\ changes < MaxChanges
  /\ changes' = changes + 1
  /\ value' = [value EXCEPT ![c] = changes + 1]
  /\ UNCHANGED <<gone, pc, cadence, walk, window, commanded, statLast, command, shown,
                 troubles, history>>

LinkChanges ==
  /\ troubles < MaxTroubles
  /\ troubles' = troubles + 1
  /\ gone' = ~gone
  /\ UNCHANGED <<value, pc, cadence, walk, window, commanded, statLast, command, shown,
                 changes, history>>

(* The loop waits: nothing is due. *)
Tick ==
  /\ pc = "wait" /\ nextRead > 0 /\ nextLog > 0
  /\ nextRead' = nextRead - 1 /\ nextLog' = nextLog - 1
  /\ UNCHANGED <<device, pc, backoff, failures, state, walk, window, commanded, statLast,
                 command, shown, bounds, history>>

Init ==
  /\ value = [c \in Channels |-> 0] /\ gone = FALSE
  /\ pc = "wait"
  /\ nextRead = 0 /\ nextLog = LogInterval
  /\ backoff = 1 /\ failures = 0
  /\ state = "RUNNING"
  /\ batch = <<>> /\ todo = {} /\ size = 0 /\ inHand = Nobody
  /\ window = [c \in Channels |-> Missing]
  /\ commanded = {}
  /\ statLast = [c \in Channels |-> Bad]
  /\ command = Idle
  /\ shown = [c \in Channels |-> Error]
  /\ changes = 0 /\ troubles = 0
  /\ raced = {} /\ unconfirmed = {}

Loop ==
  \/ Read \/ Accumulate \/ ReadFails
  \/ EmitBegin \/ EmitPublish \/ EmitEnd \/ EmitRaises
  \/ \E c \in Channels : Filter(c) \/ EmitNext(c)

FinishCommand == CommandDrop \/ CommandShow

Next ==
  \/ Loop \/ Tick \/ StartAgain \/ GiveUp
  \/ FinishCommand \/ \E c \in Channels : CommandWrite(c)
  \/ LinkChanges \/ \E c \in Channels : StatusChanges(c)

Spec == Init /\ [][Next]_vars

(* Both threads run, time passes, and the wrapper starts a dead service    *)
(* again unless it gives it up.  Nobody has to command anything.           *)
Fairness ==
  /\ WF_vars(Loop) /\ WF_vars(Tick) /\ WF_vars(FinishCommand)
  /\ WF_vars(StartAgain)

FairSpec == Spec /\ Fairness

-------------------------------------------------------------------------------
Samples == {Bad} \cup {{v} : v \in 0..MaxChanges}
Aggregates == [values : SUBSET (0..MaxChanges), quality : {"ok", "stale", "error"}]

TypeOK ==
  /\ value \in [Channels -> 0..MaxChanges]
  /\ pc \in {"wait", "filter", "emit", "dead", "abandoned"}
  /\ nextRead \in 0..MaxBackoff + Interval /\ nextLog \in 0..LogInterval
  /\ backoff \in 1..MaxBackoff /\ failures \in 0..2
  /\ Stopped <=> state = "STOPPED"
  /\ DOMAIN batch \subseteq Channels /\ \A c \in DOMAIN batch : batch[c] \in Samples
  /\ statLast \in [Channels -> Samples]
  /\ shown \in [Channels -> Aggregates]
  /\ inHand # Nobody => inHand.channel \in Channels /\ inHand.aggregate \in Aggregates
  /\ \A c \in Channels : shown[c].quality = "error" <=> shown[c].values = {}

(* caen.py:991-996: the window is dropped at a command because the mean of *)
(* samples from both sides is a plausible voltage that was never set.  It  *)
(* is published only if the window had not been dropped since a write that *)
(* took was refused as unconfirmed, or the command came while an older     *)
(* sample was on its way from the filter to the window, or had not dropped *)
(* the window yet.                                                         *)
OnlyUnconfirmedOrRacingWritesMix ==
  [][\A c \in Channels :
       EmitPublish /\ inHand.channel = c /\ Cardinality(inHand.aggregate.values) > 1
         => c \in unconfirmed \cup raced]_vars

(* A service whose instrument answers again says so, and shows of every    *)
(* channel what the instrument holds, whatever was commanded, refused,     *)
(* lost or left in a window meanwhile; unless it has died and its wrapper  *)
(* has given it up.                                                        *)
RecoveryIsShown ==
  \/ []<>gone
  \/ <>[](pc = "abandoned")
  \/ <>[](state = "RUNNING" /\ \A c \in Channels : shown[c] = Told(value[c]))

(* A channel whose instrument is gone for good ends up unreadable, and the *)
(* service degraded: no window brings an old value back.  A service that   *)
(* has died and finds no instrument shows that it is stopped.              *)
SilenceIsShown ==
  \/ []<>~gone
  \/ <>[]Stopped
  \/ <>[](state = "DEGRADED" /\ \A c \in Channels : shown[c] = Error)

-------------------------------------------------------------------------------
(* service.py:17-18: "it exits only when it cannot be identified at        *)
(* startup".                                                               *)
OnlyExitsUnidentified == ~Stopped

(* service.py:19: "A stale value is never left standing as if fresh".  A   *)
(* window that was filled before the link went is published after the      *)
(* error.                                                                  *)
StaleNeverStands ==
  [][\A c \in Channels : state = "DEGRADED" /\ EmitPublish => shown'[c].quality # "ok"]_vars

(* caen.py:993-996: "the page would have shown an average of the old       *)
(* setpoint and the new one", which the drop is there to prevent.  A write *)
(* that took and was refused (889-903, 1666-1684) does not drop the window.*)
NoMeanAcrossAWrite ==
  [][EmitPublish => Cardinality(inHand.aggregate.values) <= 1]_vars

(* caen.py:1014: "A sample taken before a command published this channel's *)
(* state is dropped".                                                      *)
OldSamplesAreDropped ==
  [][Accumulate => \A c \in commanded : window'[c] = window[c]]_vars
===============================================================================
