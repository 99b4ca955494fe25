-------------------------------- MODULE RgaGuard --------------------------------
(***************************************************************************)
(* The residual gas analyser's service (devices/rga.py, RgaService):       *)
(* control of the analyser, its emission and its electron multiplier, and  *)
(* the guard that switches both off on the pressure p105.                  *)
(*                                                                         *)
(* Two threads talk to the analyser.  The main loop reads the status word  *)
(* and who is in control, then watches EM and emission and gives control   *)
(* back when idle.  A worker carries out the commands, one at a time.      *)
(* Each request to the analyser is atomic (the client's lock), nothing     *)
(* else is; both threads judge by the status word as it was last read,     *)
(* and the analyser takes seconds to follow a request.                     *)
(*                                                                         *)
(* `_wanted`, the notes and what the page shows of them decide nothing and *)
(* are left out; so are the save command and the scans themselves, of      *)
(* which only the detector and the end remain.                             *)
(***************************************************************************)
EXTENDS Integers, FiniteSets

CONSTANTS
  Readings,         \* what p105 may say, see ReadingType
  MaxAge,           \* guard_max_age_s, in ticks
  Grace,            \* guard_grace_s
  ReleaseIdle,      \* release_idle_s
  EmissionIdleOff,  \* emission_idle_off_s
  MaxDisturbances   \* bound: commands, failed requests, stops of the service, and
                    \* what the analyser and other clients do, taken together

Switches == {"emission", "em"}

(* Levels of p105: below both limits, at or above that of the EM, at or    *)
(* above that of the emission.  A reading with an error has no value.      *)
EmLimit == 1
EmissionLimit == 2
NoValue == -1
NoReading == [level |-> NoValue, ok |-> FALSE]
ReadingType == [level : {0, EmLimit, EmissionLimit}, ok : BOOLEAN] \cup {NoReading}

ASSUME GuardAssumption ==
  /\ Readings \subseteq ReadingType
  /\ {MaxAge, Grace, MaxDisturbances} \subseteq Nat
  /\ {ReleaseIdle, EmissionIdleOff} \subseteq Nat \ {0}

VARIABLES
  \* the analyser
  asked,       \* what was last requested to be on
  on,          \* what is on, as the status word says
  holder,      \* who is in control: "nobody", "us" or "other"
  \* the service
  word,        \* _status_word
  control,     \* _control says that we hold the analyser
  acq,         \* the detector of the running acquisition, or "none"
  snap, age,   \* the last p105 and the time since it came
  idle,        \* time since _last_activity
  step, got,   \* the main loop, and what it has read in this cycle
  command,     \* what the worker is about to do
  \* bound and history
  disturbances,
  late         \* history: requested on and not yet seen on by somebody who then
               \* switches off or gives back, or could not be switched off

analyser == <<asked, on, holder>>
guard == <<snap, age>>
loop == <<step, got>>
vars == <<analyser, word, control, acq, guard, idle, loop, command, disturbances, late>>

Unread == {"unread"}
Nothing == [word |-> Unread, us |-> "unread"]

Oldest == MaxAge + Grace + 1
Older(n, most) == IF n < most THEN n + 1 ELSE n

-------------------------------------------------------------------------------
(* _pressure_allows: refuse on what is old, bad or too high ...            *)
PressureAllows(limit) == age <= MaxAge /\ snap.ok /\ snap.level < limit

(* ... and _off_reason: off at once on a value at the limit, whatever its  *)
(* quality, and after the grace when nothing comes.                        *)
OffReason(limit) ==
  /\ ~PressureAllows(limit)
  /\ snap.level >= limit \/ age > MaxAge + Grace

(* A request is obeyed and answered, refused, or obeyed although the       *)
(* answer is lost.  The analyser refuses whoever is not in control.        *)
Replies == IF holder # "us" THEN {"refused"}
           ELSE IF disturbances < MaxDisturbances THEN {"ok", "refused", "unheard"}
           ELSE {"ok"}
CountFault(reply) ==
  disturbances' = IF holder = "us" /\ reply # "ok" THEN disturbances + 1 ELSE disturbances
Disturbance == disturbances < MaxDisturbances /\ disturbances' = disturbances + 1

SwitchedOff(k, reply) == IF reply = "refused" THEN asked ELSE asked \ {k}

(* _em_off: an acquisition with the EM ends with it; a failure is logged.  *)
EmOff(reply) ==
  /\ asked' = SwitchedOff("em", reply)
  /\ CountFault(reply)
  /\ IF reply = "ok"
     THEN /\ acq' = IF acq = "EM" THEN "none" ELSE acq
          /\ idle' = IF acq = "EM" THEN 0 ELSE idle
          /\ UNCHANGED late
     ELSE /\ late' = late \cup {"em"}
          /\ UNCHANGED <<acq, idle>>
NoEmOff == UNCHANGED <<asked, disturbances, acq, idle, late>>

-------------------------------------------------------------------------------
(* The main loop, read(): the status word and who is in control, in either *)
(* order ...                                                               *)
HasLooked == command \in {"release em", "release emission", "give back",
                          "emission off em", "emission off now"}

Fetched(g) ==
  IF Unread = g.word \/ g.us = "unread"
  THEN got' = g /\ UNCHANGED <<step, word, control, late>>
  ELSE /\ got' = [g EXCEPT !.word = Unread]
       /\ step' = "collect"
       /\ word' = g.word
       /\ control' = (g.us = "yes")
       /\ late' = IF HasLooked THEN late ELSE late \ (g.word \cap on)

Poll ==
  /\ step = "poll"
  /\ \/ got.word = Unread /\ Fetched([got EXCEPT !.word = on])
     \/ got.us = "unread" /\ Fetched([got EXCEPT !.us = IF holder = "us" THEN "yes" ELSE "no"])
  /\ UNCHANGED <<analyser, acq, guard, idle, command, disturbances>>

NextCycle == step' = "poll" /\ got' = Nothing

(* ... where any request may fail, which ends the cycle ...                *)
ReadFails ==
  /\ step \in {"poll", "collect"}
  /\ Disturbance
  /\ NextCycle
  /\ UNCHANGED <<analyser, word, control, acq, guard, idle, command, late>>

(* ... then _collect_scans ...                                             *)
CollectMore ==
  /\ step = "collect" /\ step' = "em"
  /\ UNCHANGED <<analyser, word, control, acq, guard, idle, got, command, disturbances, late>>

CollectEnds ==
  /\ step = "collect" /\ step' = "em"
  /\ acq # "none" /\ acq' = "none"
  /\ idle' = 0
  /\ UNCHANGED <<analyser, word, control, guard, got, command, disturbances, late>>

(* ... _watch_em ...                                                       *)
EmMustGo == OffReason(EmLimit) \/ "emission" \notin word

WatchEm ==
  /\ step = "em" /\ step' = "emission"
  /\ IF "em" \in word /\ got.us = "yes" /\ EmMustGo
     THEN \E reply \in Replies : EmOff(reply)
     ELSE NoEmOff
  /\ UNCHANGED <<on, holder, word, control, guard, got, command>>

(* ... _watch_emission, with the EM first ...                              *)
Bug_IdleTooLong == FALSE
IdleTooLong == acq = "none" /\ idle > EmissionIdleOff

EmissionMustGo ==
  "emission" \in word /\ got.us = "yes" /\ (OffReason(EmissionLimit) \/ IdleTooLong)

Bug_EmFirst == FALSE
EmFirst == "em" \in word

WatchEmission ==
  /\ step = "emission"
  /\ step' = IF EmissionMustGo THEN "emission off" ELSE "release"
  /\ IF EmissionMustGo /\ EmFirst THEN \E reply \in Replies : EmOff(reply)
                                  ELSE NoEmOff
  /\ UNCHANGED <<on, holder, word, control, guard, got, command>>

WatchEmissionOff ==
  /\ step = "emission off" /\ step' = "release"
  /\ \E reply \in Replies : asked' = SwitchedOff("emission", reply) /\ CountFault(reply)
  /\ UNCHANGED <<on, holder, word, control, acq, guard, idle, got, command, late>>

(* ... and _release_if_idle: looks first, and gives back after.            *)
MayGiveBack ==
  /\ got.us = "yes" /\ "emission" \notin word
  /\ acq = "none" /\ idle >= ReleaseIdle

ReleaseIfIdle ==
  /\ step = "release"
  /\ IF MayGiveBack THEN step' = "give back" /\ UNCHANGED got ELSE NextCycle
  /\ UNCHANGED <<analyser, word, control, acq, guard, idle, command, disturbances, late>>

GiveBack(reply) ==
  /\ holder' = IF reply # "refused" THEN "nobody" ELSE holder
  /\ CountFault(reply)

IdleGiveBack ==
  /\ step = "give back"
  /\ \E reply \in Replies : GiveBack(reply)
  /\ NextCycle
  /\ UNCHANGED <<asked, on, word, control, acq, guard, idle, command, late>>

-------------------------------------------------------------------------------
(* close(), when the service stops: any failure ends it where it is, and   *)
(* the process with it.                                                    *)
Running == step # "stopped"

Gone ==
  /\ step' = "stopped" /\ got' = Nothing
  /\ word' = {} /\ control' = FALSE /\ acq' = "none"
  /\ snap' = NoReading /\ age' = Oldest /\ idle' = 0
  /\ command' = "none"
  /\ late' = Switches     \* the next process has seen nothing on

Stop ==
  /\ step = "poll" /\ got = Nothing
  /\ Disturbance
  /\ step' = "close scan"
  /\ UNCHANGED <<analyser, word, control, acq, guard, idle, got, command, late>>

CloseScan ==
  /\ step = "close scan"
  /\ IF acq = "none"
     THEN step' = "close read" /\ UNCHANGED <<word, control, acq, guard, idle, got, command, late, disturbances>>
     ELSE \E reply \in Replies :
            /\ CountFault(reply)
            /\ IF reply = "ok"
               THEN step' = "close read" /\ UNCHANGED <<word, control, acq, guard, idle, got, command, late>>
               ELSE Gone
  /\ UNCHANGED analyser

CloseRead ==
  /\ step = "close read"
  /\ IF holder = "us"
     THEN /\ step' = "close em" /\ got' = [got EXCEPT !.word = on]
          /\ UNCHANGED <<word, control, acq, guard, idle, command, late>>
     ELSE Gone
  /\ UNCHANGED <<analyser, disturbances>>

CloseOff(k, here, next) ==
  /\ step = here
  /\ IF k \notin got.word
     THEN step' = next /\ UNCHANGED <<asked, disturbances, word, control, acq, guard, idle, got, command, late>>
     ELSE \E reply \in Replies :
            /\ asked' = SwitchedOff(k, reply)
            /\ CountFault(reply)
            /\ IF reply = "ok"
               THEN step' = next /\ UNCHANGED <<word, control, acq, guard, idle, got, command, late>>
               ELSE Gone
  /\ UNCHANGED <<on, holder>>

CloseGiveBack ==
  /\ step = "close give back"
  /\ \E reply \in Replies : GiveBack(reply)
  /\ Gone
  /\ UNCHANGED <<asked, on>>

Close == \/ CloseScan \/ CloseRead
         \/ CloseOff("em", "close em", "close emission")
         \/ CloseOff("emission", "close emission", "close give back")
         \/ CloseGiveBack

(* The process is killed. *)
Crash ==
  /\ Running
  /\ Disturbance
  /\ Gone
  /\ UNCHANGED analyser

Start ==
  /\ step = "stopped" /\ step' = "poll"
  /\ UNCHANGED <<analyser, word, control, acq, guard, idle, got, command, disturbances, late>>

-------------------------------------------------------------------------------
(* The worker: a command that is looked at counts as activity, those for   *)
(* the switches only if we are in control.  It passes its checks ...       *)
Scanning == acq # "none"

Accepted(c) ==
  CASE c \in {"take", "seize", "release"} -> TRUE
    [] c = "scan start" -> ~Scanning /\ control
    [] c = "scan stop" -> Scanning
    [] c = "emission on" -> PressureAllows(EmissionLimit)
    [] c = "em on" -> ~Scanning /\ "emission" \in word /\ PressureAllows(EmLimit)
    [] c \in {"emission off", "em off"} -> TRUE

(* ... or is refused also for an unknown recipe, a hardware error or an    *)
(* interlock.                                                              *)
MayBeRefused == {"scan start", "emission on", "em on"}
ForSwitches == {"emission on", "emission off", "em on", "em off"}
Commands == ForSwitches \cup {"take", "seize", "release", "scan start", "scan stop"}

FirstPart(c) ==
  CASE c = "release" -> IF Scanning THEN "release scan" ELSE "release em"
    [] c = "emission off" -> "emission off em"
    [] OTHER -> c

Receive(c) ==
  /\ Running /\ command = "none"
  /\ Disturbance
  /\ c \in ForSwitches => control
  /\ idle' = 0
  /\ \/ Accepted(c) /\ command' = FirstPart(c)
     \/ (Accepted(c) => c \in MayBeRefused) /\ UNCHANGED command
  /\ UNCHANGED <<analyser, word, control, acq, guard, loop, late>>

(* ... and is carried out.  take_control: by force only if asked to.       *)
TakeControl ==
  /\ command \in {"take", "seize"} /\ command' = "none"
  /\ IF holder = "other" /\ command = "take"
     THEN UNCHANGED <<holder, control, disturbances>>
     ELSE \E reply \in {"ok"} \cup IF disturbances < MaxDisturbances THEN {"refused", "unheard"} ELSE {} :
            /\ holder' = IF reply # "refused" THEN "us" ELSE holder
            /\ control' = (control \/ reply = "ok")
            /\ disturbances' = IF reply # "ok" THEN disturbances + 1 ELSE disturbances
  /\ UNCHANGED <<asked, on, word, acq, guard, idle, loop, late>>

(* stop_scan, for a stop and for a release. *)
EndScan(here, next) ==
  /\ command = here
  /\ \E reply \in Replies :
       /\ CountFault(reply)
       /\ command' = IF reply = "ok" THEN next ELSE "none"
       /\ IF reply = "ok" THEN acq' = "none" /\ idle' = 0 ELSE UNCHANGED <<acq, idle>>
  /\ UNCHANGED <<analyser, word, control, guard, loop, late>>

(* The EM first: before an emission off and before a release. *)
EmBefore(here, next) ==
  /\ command = here /\ command' = next
  /\ IF "em" \in word THEN \E reply \in Replies : EmOff(reply) ELSE NoEmOff
  /\ UNCHANGED <<on, holder, word, control, guard, loop>>

EmOffCommand ==
  /\ command = "em off" /\ command' = "none"
  /\ \E reply \in Replies : EmOff(reply)
  /\ UNCHANGED <<on, holder, word, control, guard, loop>>

Bug_OffBeforeRelease == FALSE
OffBeforeRelease == "emission" \in word

ReleaseEmission ==
  /\ command = "release emission"
  /\ IF OffBeforeRelease
     THEN \E reply \in Replies :
            /\ asked' = SwitchedOff("emission", reply)
            /\ CountFault(reply)
            /\ command' = IF reply = "ok" THEN "give back" ELSE "none"
     ELSE command' = "give back" /\ UNCHANGED <<asked, disturbances>>
  /\ UNCHANGED <<on, holder, word, control, acq, guard, idle, loop, late>>

ReleaseControl ==
  /\ command = "give back" /\ command' = "none"
  /\ \E reply \in Replies : GiveBack(reply) /\ control' = (control /\ reply # "ok")
  /\ UNCHANGED <<asked, on, word, acq, guard, idle, loop, late>>

StartScan ==
  /\ command = "scan start" /\ command' = "none"
  /\ \E reply \in Replies :
       /\ CountFault(reply)
       /\ acq' = IF reply # "ok" THEN acq ELSE IF "em" \in word THEN "EM" ELSE "Faraday"
  /\ UNCHANGED <<analyser, word, control, guard, idle, loop, late>>

SwitchOn(k, here) ==
  /\ command = here /\ command' = "none"
  /\ \E reply \in Replies :
       /\ CountFault(reply)
       /\ IF reply = "refused" THEN UNCHANGED <<asked, late>>
          ELSE asked' = asked \cup {k} /\ late' = late \cup {k}
  /\ UNCHANGED <<on, holder, word, control, acq, guard, idle, loop>>

EmissionOff ==
  /\ command = "emission off now" /\ command' = "none"
  /\ \E reply \in Replies : asked' = SwitchedOff("emission", reply) /\ CountFault(reply)
  /\ UNCHANGED <<on, holder, word, control, acq, guard, idle, loop, late>>

Worker ==
  \/ TakeControl \/ ReleaseEmission \/ ReleaseControl \/ StartScan \/ EmissionOff
  \/ EndScan("release scan", "release em") \/ EndScan("scan stop", "none")
  \/ EmBefore("release em", "release emission")
  \/ EmBefore("emission off em", "emission off now") \/ EmOffCommand
  \/ SwitchOn("emission", "emission on") \/ SwitchOn("em", "em on")

-------------------------------------------------------------------------------
(* p105 arrives; time passes. *)
OnSnapshot(reading) ==
  /\ Running
  /\ snap' = reading /\ age' = 0
  /\ UNCHANGED <<analyser, word, control, acq, idle, loop, command, disturbances, late>>

Tick ==
  /\ Running
  /\ age' = Older(age, Oldest)
  /\ idle' = Older(idle, EmissionIdleOff + 1)
  /\ UNCHANGED <<analyser, word, control, acq, snap, loop, command, disturbances, late>>

(* The analyser does what it was asked, some time later ...                *)
Follow(k) ==
  /\ (k \in asked) # (k \in on)
  /\ on' = IF k \in asked THEN on \cup {k} ELSE on \ {k}
  /\ UNCHANGED <<asked, holder, word, control, acq, guard, idle, loop, command, disturbances, late>>

(* ... or trips by itself ...                                              *)
Trip ==
  /\ Disturbance /\ on # {}
  /\ \E k \in on : asked' = asked \ {k} /\ on' = on \ {k}
  /\ UNCHANGED <<holder, word, control, acq, guard, idle, loop, command, late>>

(* ... and we may lose it to another client, which may switch and give it  *)
(* back, or to nobody, as a session that has ended does.                   *)
LoseControl ==
  /\ Disturbance
  /\ holder # "other" /\ holder' \in {"other", "nobody"}
  /\ UNCHANGED <<asked, on, word, control, acq, guard, idle, loop, command, late>>

OtherSwitches ==
  /\ Disturbance /\ holder = "other"
  /\ asked' \in SUBSET Switches
  /\ holder' \in {"other", "nobody"}
  /\ late' = late \cup asked'
  /\ UNCHANGED <<on, word, control, acq, guard, idle, loop, command>>

SessionEnds ==
  /\ step = "stopped" /\ holder = "us" /\ holder' = "nobody"
  /\ UNCHANGED <<asked, on, word, control, acq, guard, idle, loop, command, disturbances, late>>

Analyser == SessionEnds \/ \E k \in Switches : Follow(k)

-------------------------------------------------------------------------------
(* A service at the beginning of a cycle, which an operator has taken the  *)
(* analyser with, or not, and nothing under way.                           *)
Init ==
  /\ holder \in {"nobody", "us"}
  /\ asked \in IF holder = "us" THEN {{}, {"emission"}, Switches} ELSE {{}}
  /\ on = asked /\ word = asked
  /\ control = (holder = "us")
  /\ acq = "none"
  /\ snap = [level |-> 0, ok |-> TRUE] /\ age = 0
  /\ idle = 0
  /\ step = "poll" /\ got = Nothing
  /\ command = "none"
  /\ disturbances = 0
  /\ late = {}

MainLoop ==
  \/ Poll \/ CollectMore \/ CollectEnds \/ WatchEm \/ WatchEmission \/ WatchEmissionOff
  \/ ReleaseIfIdle \/ IdleGiveBack \/ Close

Next ==
  \/ MainLoop \/ ReadFails \/ Stop \/ Crash \/ Start
  \/ Worker \/ \E c \in Commands : Receive(c)
  \/ \E reading \in Readings : OnSnapshot(reading)
  \/ Tick
  \/ Analyser
  \/ Trip \/ LoseControl \/ OtherSwitches

Spec == Init /\ [][Next]_vars

(* Both threads run, time passes, the analyser follows, and its scans end. *)
(* Nobody has to send a command, and p105 need not come.                   *)
Fairness ==
  /\ WF_vars(MainLoop) /\ SF_vars(CollectEnds)
  /\ WF_vars(Worker)
  /\ WF_vars(Tick)
  /\ WF_vars(Analyser)

FairSpec == Spec /\ Fairness

-------------------------------------------------------------------------------
TypeOK ==
  /\ {asked, on, word, late} \subseteq SUBSET Switches
  /\ holder \in {"nobody", "us", "other"}
  /\ control \in BOOLEAN
  /\ acq \in {"none", "Faraday", "EM"}
  /\ snap \in ReadingType /\ age \in 0..Oldest
  /\ idle \in 0..(EmissionIdleOff + 1)
  /\ got.word \in (SUBSET Switches) \cup {Unread} /\ got.us \in {"unread", "yes", "no"}
  /\ step \in {"poll", "collect", "em", "emission", "emission off", "release", "give back"}
       => got.word = Unread \/ step = "poll"
  /\ step = "stopped" => command = "none"

OurGiveBack == IdleGiveBack \/ ReleaseControl \/ CloseGiveBack

(* docs/drivers/rga.md, step 3: control is not given back, by command,     *)
(* when idle or at the end, with emission or EM requested on -- unless it  *)
(* was requested so late that the status word did not show it to whoever   *)
(* gives back, or the request to switch it off failed.                     *)
GivenBackOff ==
  [][OurGiveBack /\ holder = "us" /\ holder' = "nobody" => asked \subseteq late]_vars

(* The EM goes off before the emission, whatever the reason (rga.md, EM    *)
(* limit), with the same two exceptions.                                   *)
EmGoesFirst ==
  [][holder = "us" /\ ~Trip /\ "emission" \in asked \ asked' => "em" \notin asked \ late]_vars

(* PV MassSpec is never locked out by a page somebody forgot (rga.py:28):  *)
(* once the commands stop, control is given back, emission or not.         *)
ForgottenIsReleased == holder = "us" ~> holder # "us"

-------------------------------------------------------------------------------
(* rga.md, step 3: "Never left on behind the service". *)
NeverLeftOn ==
  [][OurGiveBack /\ holder = "us" /\ holder' = "nobody" => "emission" \notin asked]_vars

(* rga.md, step 4: "One detector per acquisition: an acquisition records   *)
(* `detector` at its start".                                               *)
DetectorIsTrue == [][StartScan /\ acq' # "none" => (acq' = "EM" <=> "em" \in asked)]_vars
===============================================================================
