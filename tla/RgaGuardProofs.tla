---------------------------- MODULE RgaGuardProofs ----------------------------
(***************************************************************************)
(* What is proved of RgaGuard: whoever gives the analyser back, or takes   *)
(* the emission off, has seen to what was on before.                       *)
(*                                                                         *)
(* Everything is said of what is requested on and has been seen on.        *)
(***************************************************************************)
EXTENDS RgaGuard, TLAPS

Seen == asked \ late

GotType == [word : (SUBSET Switches) \cup {Unread}, us : {"unread", "yes", "no"}]

Shape ==
  /\ asked \subseteq Switches /\ on \subseteq Switches
  /\ got \in GotType

(* The status word, as read and as fetched, shows it: what is requested    *)
(* and has been seen on stays on.                                          *)
WordShows ==
  /\ Seen \subseteq word /\ Seen \subseteq on
  /\ step = "poll" /\ got.word # Unread => Seen \subseteq got.word
  /\ step \in {"close em", "close emission"} => Seen \subseteq got.word

(* The worker, half way through a command (RgaService._handle_control,     *)
(* _handle_emission).                                                      *)
WorkerPart ==
  /\ command \in {"release emission", "give back", "emission off now"} => "em" \notin Seen
  /\ command = "give back" => "emission" \notin Seen

(* The main loop, between its watches (RgaService.read).                   *)
LoopPart ==
  /\ step = "emission off" => "em" \notin Seen
  /\ step \in {"emission", "emission off", "release"} /\ got.us = "yes" /\ "emission" \notin word
       => "em" \notin Seen
  /\ step = "give back" => Seen = {}

(* The end of the service (RgaService.close).                              *)
ClosePart ==
  /\ step \in {"close emission", "close give back"} => "em" \notin Seen
  /\ step = "close give back" => "emission" \notin Seen
  /\ step = "stopped" => got = Nothing

IInv == Shape /\ WordShows /\ WorkerPart /\ LoopPart /\ ClosePart

(* Before the first request of a cycle. *)
LEMMA NothingRead == Nothing \in GotType /\ Nothing.word = Unread
<1>1. Unread \in (SUBSET Switches) \cup {Unread}
  OBVIOUS
<1> QED BY <1>1 DEF Nothing, GotType

(* A service that starts in control has seen what is on. *)
LEMMA Initially == Init => IInv
<1> SUFFICES ASSUME Init PROVE IInv
  OBVIOUS
<1>1. asked \subseteq Switches /\ on = asked /\ word = asked /\ Seen \subseteq asked
  BY DEF Init, Switches, Seen
<1>2. Shape
  BY <1>1, NothingRead DEF Init, Shape
<1>3. WordShows
  BY <1>1, NothingRead DEF Init, WordShows
<1> QED BY <1>2, <1>3 DEF Init, IInv, WorkerPart, LoopPart, ClosePart

(* A poll that comes to its end is the only step after which more is seen. *)
LEMMA PollStep ==
  ASSUME IInv, Poll
  PROVE  IInv'
<1>1. ASSUME NEW g \in GotType,
             Fetched(g), Seen \subseteq g.word \/ g.word = Unread
      PROVE  IInv'
  <2>1. UNCHANGED <<asked, on, command>> /\ step = "poll"
    BY DEF Poll, analyser
  <2>2. CASE g.word = Unread \/ g.us = "unread"
    <3>1. got' = g /\ UNCHANGED <<step, word, late>> /\ Seen' = Seen
      BY <1>1, <2>1, <2>2 DEF Fetched, Seen
    <3> QED BY <1>1, <2>1, <3>1 DEF IInv, Shape, WordShows, WorkerPart, LoopPart, ClosePart
  <2>3. CASE g.word # Unread /\ g.us # "unread"
    <3>1. /\ got' = [g EXCEPT !.word = Unread] /\ step' = "collect" /\ word' = g.word
          /\ late' = IF HasLooked THEN late ELSE late \ (g.word \cap on)
      BY <1>1, <2>3 DEF Fetched
    <3>2. Seen' \subseteq word' /\ Seen' \subseteq on'
      BY <1>1, <2>1, <2>3, <3>1 DEF IInv, WordShows, Seen
    <3>3. WorkerPart'
      BY <2>1, <3>1 DEF IInv, WorkerPart, Seen, HasLooked
    <3>4. Shape'
      <4>1. Unread \in (SUBSET Switches) \cup {Unread}
        OBVIOUS
      <4>2. [g EXCEPT !.word = Unread] \in GotType
        BY <1>1, <4>1 DEF GotType
      <4> QED BY <2>1, <3>1, <4>2 DEF IInv, Shape
    <3> QED BY <3>1, <3>2, <3>3, <3>4 DEF IInv, WordShows, LoopPart, ClosePart
  <2> QED BY <2>2, <2>3
<1>2. CASE got.word = Unread /\ Fetched([got EXCEPT !.word = on])
  <2>1. [got EXCEPT !.word = on] \in GotType
    BY DEF IInv, Shape, GotType
  <2>2. Seen \subseteq [got EXCEPT !.word = on].word
    BY DEF IInv, Shape, GotType, WordShows
  <2> QED BY <1>1, <1>2, <2>1, <2>2
<1>3. ASSUME NEW us \in {"yes", "no"}, Fetched([got EXCEPT !.us = us]) PROVE IInv'
  <2>1. [got EXCEPT !.us = us] \in GotType
    BY DEF IInv, Shape, GotType
  <2>2. Seen \subseteq [got EXCEPT !.us = us].word \/ [got EXCEPT !.us = us].word = Unread
    BY DEF IInv, Shape, GotType, WordShows, Poll
  <2> QED BY <1>1, <1>3, <2>1, <2>2
<1> QED BY <1>2, <1>3 DEF Poll

(* A service that has gone has seen nothing. *)
LEMMA GoneStep ==
  ASSUME IInv, Gone, asked' \subseteq Switches, on' \subseteq Switches
  PROVE  IInv'
<1>1. Seen' = {}
  BY DEF Gone, Seen
<1>2. got' = Nothing /\ step' = "stopped" /\ command' = "none"
  BY DEF Gone
<1>3. Shape'
  BY <1>2, NothingRead DEF Shape
<1> QED BY <1>1, <1>2, <1>3 DEF IInv, WordShows, WorkerPart, LoopPart, ClosePart

(* What an EM off leaves: it is off, or noted as not done. *)
LEMMA EmOffGoes ==
  ASSUME Shape, NEW reply \in {"ok", "refused", "unheard"}, EmOff(reply)
  PROVE  Seen' = Seen \ {"em"} /\ asked' \subseteq asked
BY DEF EmOff, SwitchedOff, Seen

(* What the analyser may answer. *)
LEMMA RepliesAre == Replies \subseteq {"ok", "refused", "unheard"}
BY DEF Replies

(* The main loop's other steps. *)
LEMMA LoopStep ==
  ASSUME IInv, CollectMore \/ CollectEnds \/ WatchEm \/ WatchEmission \/ WatchEmissionOff
               \/ ReleaseIfIdle \/ IdleGiveBack \/ ReadFails \/ Stop \/ Start
  PROVE  IInv'
<1> USE DEF IInv, Shape, WordShows, WorkerPart, LoopPart, ClosePart
<1>1. CASE CollectMore \/ CollectEnds
  BY <1>1 DEF CollectMore, CollectEnds, Seen, analyser
<1>2. CASE WatchEm
  <2>1. CASE "em" \in word /\ got.us = "yes" /\ EmMustGo
    <3>1. Seen' = Seen \ {"em"} /\ asked' \subseteq asked
      BY <1>2, <2>1, EmOffGoes, RepliesAre DEF WatchEm
    <3> QED BY <1>2, <3>1 DEF WatchEm
  <2>2. CASE ~("em" \in word /\ got.us = "yes" /\ EmMustGo)
    <3>1. Seen' = Seen /\ asked' = asked
      BY <1>2, <2>2 DEF WatchEm, NoEmOff, Seen
    <3>2. got.us = "yes" /\ "emission" \notin word => "em" \notin Seen
      BY <2>2 DEF EmMustGo
    <3> QED BY <1>2, <3>1, <3>2 DEF WatchEm
  <2> QED BY <2>1, <2>2
<1>3. CASE WatchEmission
  <2>1. CASE EmissionMustGo /\ EmFirst
    <3>1. Seen' = Seen \ {"em"} /\ asked' \subseteq asked
      BY <1>3, <2>1, EmOffGoes, RepliesAre DEF WatchEmission
    <3> QED BY <1>3, <3>1 DEF WatchEmission
  <2>2. CASE ~(EmissionMustGo /\ EmFirst)
    <3>1. Seen' = Seen /\ asked' = asked
      BY <1>3, <2>2 DEF WatchEmission, NoEmOff, Seen
    <3>2. step' = "emission off" => "em" \notin Seen
      BY <1>3, <2>2 DEF WatchEmission, EmFirst
    <3> QED BY <1>3, <3>1, <3>2 DEF WatchEmission
  <2> QED BY <2>1, <2>2
<1>4. CASE WatchEmissionOff
  <2>1. Seen' \subseteq Seen /\ asked' \subseteq asked
    BY <1>4 DEF WatchEmissionOff, SwitchedOff, Seen
  <2> QED BY <1>4, <2>1 DEF WatchEmissionOff
<1>5. CASE ReleaseIfIdle \/ IdleGiveBack \/ ReadFails \/ Stop \/ Start
  <2>1. Seen' = Seen /\ UNCHANGED <<asked, on, word, command>>
    BY <1>5 DEF ReleaseIfIdle, IdleGiveBack, ReadFails, Stop, Start, Seen, analyser
  <2>2. CASE ReleaseIfIdle
    <3>1. Seen \subseteq Switches
      BY DEF Seen
    <3>2. MayGiveBack => Seen = {}
      BY <2>2, <3>1 DEF MayGiveBack, Switches, ReleaseIfIdle
    <3>3. \/ step' = "give back" /\ got' = got /\ MayGiveBack
          \/ step' = "poll" /\ got' = Nothing
      BY <2>2 DEF ReleaseIfIdle, NextCycle
    <3> QED BY <2>1, <3>2, <3>3, NothingRead
  <2>3. CASE IdleGiveBack \/ ReadFails
    <3>1. step' = "poll" /\ got' = Nothing
      BY <2>3 DEF IdleGiveBack, ReadFails, NextCycle
    <3> QED BY <2>1, <3>1, NothingRead
  <2>4. CASE Stop
    BY <2>1, <2>4 DEF Stop
  <2>5. CASE Start
    <3>1. got' = got /\ step' = "poll" /\ step = "stopped"
      BY <2>5 DEF Start, loop
    <3> QED BY <2>1, <3>1, NothingRead
  <2> QED BY <1>5, <2>2, <2>3, <2>4, <2>5
<1> QED BY <1>1, <1>2, <1>3, <1>4, <1>5

(* The end of the service. *)
LEMMA CloseStep ==
  ASSUME IInv, Close
  PROVE  IInv'
<1> USE DEF IInv, Shape, WordShows, WorkerPart, LoopPart, ClosePart
<1>1. CASE CloseScan
  <2>1. UNCHANGED <<asked, on>>
    BY <1>1 DEF CloseScan, analyser
  <2>2. CASE ~Gone
    BY <1>1, <2>1, <2>2 DEF CloseScan, Seen
  <2> QED BY <2>1, <2>2, GoneStep
<1>2. CASE CloseRead
  <2>1. UNCHANGED <<asked, on>>
    BY <1>2 DEF CloseRead, analyser
  <2>2. CASE ~Gone
    <3>1. /\ step' = "close em" /\ got' = [got EXCEPT !.word = on]
          /\ UNCHANGED <<word, command, late>>
      BY <1>2, <2>2 DEF CloseRead
    <3>2. got' \in GotType /\ got'.word = on
      BY <3>1 DEF GotType
    <3> QED BY <2>1, <3>1, <3>2 DEF Seen
  <2> QED BY <2>1, <2>2, GoneStep
<1>3. ASSUME NEW k \in Switches, NEW here, NEW next, CloseOff(k, here, next),
             \/ k = "em" /\ here = "close em" /\ next = "close emission"
             \/ k = "emission" /\ here = "close emission" /\ next = "close give back"
      PROVE  IInv'
  <2>1. asked' \subseteq asked /\ UNCHANGED on /\ step = here
    BY <1>3 DEF CloseOff, SwitchedOff
  <2>2. CASE ~Gone
    <3>1. /\ step' = next /\ UNCHANGED <<word, got, command, late>>
          /\ k \notin got.word \/ asked' = asked \ {k}
      BY <1>3, <2>2, RepliesAre DEF CloseOff, SwitchedOff
    <3>2. Seen' \subseteq Seen
      BY <2>1, <3>1 DEF Seen
    <3>3. k \notin Seen'
      BY <1>3, <2>1, <3>1, <3>2 DEF Seen
    <3>4. WordShows'
      BY <1>3, <2>1, <3>1, <3>2
    <3>5. WorkerPart' /\ LoopPart'
      BY <1>3, <3>1, <3>2
    <3>6. ClosePart'
      BY <1>3, <2>1, <3>1, <3>2, <3>3
    <3>7. Shape'
      BY <2>1, <3>1
    <3> QED BY <3>4, <3>5, <3>6, <3>7
  <2> QED BY <2>1, <2>2, GoneStep
<1>4. CASE CloseGiveBack
  BY <1>4, GoneStep DEF CloseGiveBack
<1> QED BY <1>1, <1>2, <1>3, <1>4 DEF Close, Switches

(* The worker. *)
LEMMA WorkerStep ==
  ASSUME IInv, Worker
  PROVE  IInv'
<1> USE DEF IInv, Shape, WordShows, WorkerPart, LoopPart, ClosePart
<1>1. ASSUME UNCHANGED <<on, word, loop>>, asked' \subseteq Switches, Seen' \subseteq Seen, WorkerPart'
      PROVE  IInv'
  BY <1>1 DEF loop
<1>2. CASE TakeControl \/ StartScan
  BY <1>1, <1>2 DEF TakeControl, StartScan, Seen, analyser
<1>3. CASE ReleaseEmission
  <2>1. UNCHANGED <<on, word, loop, late>> /\ asked' \subseteq asked /\ command = "release emission"
    BY <1>3 DEF ReleaseEmission, SwitchedOff
  <2>2. /\ Seen' \subseteq Seen /\ command' \in {"give back", "none"}
    BY <1>3, <2>1 DEF ReleaseEmission, Seen
  <2>3. command' = "give back" => "emission" \notin Seen'
    BY <1>3, RepliesAre DEF ReleaseEmission, OffBeforeRelease, SwitchedOff, Seen
  <2> QED BY <1>1, <2>1, <2>2, <2>3
<1>4. CASE ReleaseControl
  BY <1>1, <1>4 DEF ReleaseControl, Seen
<1>5. CASE EmissionOff
  <2>1. UNCHANGED <<on, word, loop, late>> /\ asked' \subseteq asked /\ command' = "none"
    BY <1>5 DEF EmissionOff, SwitchedOff
  <2> QED BY <1>1, <2>1 DEF Seen
<1>6. ASSUME NEW here, NEW next \in {"release em", "none"}, EndScan(here, next) PROVE IInv'
  BY <1>1, <1>6 DEF EndScan, Seen, analyser
<1>7. ASSUME NEW here, NEW next \in {"release emission", "emission off now"}, EmBefore(here, next)
      PROVE  IInv'
  <2>1. UNCHANGED <<on, word, loop>> /\ command' = next
    BY <1>7 DEF EmBefore
  <2>2. Seen' = Seen \ {"em"} /\ asked' \subseteq asked
    <3>1. CASE "em" \in word
      BY <1>7, <3>1, EmOffGoes, RepliesAre DEF EmBefore
    <3>2. CASE "em" \notin word
      BY <1>7, <3>2 DEF EmBefore, NoEmOff, Seen
    <3> QED BY <3>1, <3>2
  <2> QED BY <1>1, <2>1, <2>2
<1>8. CASE EmOffCommand
  <2>1. Seen' = Seen \ {"em"} /\ asked' \subseteq asked
    BY <1>8, EmOffGoes, RepliesAre DEF EmOffCommand
  <2> QED BY <1>1, <1>8, <2>1 DEF EmOffCommand
<1>9. ASSUME NEW k \in Switches, NEW here, SwitchOn(k, here) PROVE IInv'
  <2>1. asked' \subseteq Switches /\ Seen' \subseteq Seen
    BY <1>9 DEF SwitchOn, Seen
  <2> QED BY <1>1, <1>9, <2>1 DEF SwitchOn
<1> QED BY <1>2, <1>3, <1>4, <1>5, <1>6, <1>7, <1>8, <1>9 DEF Worker, Switches

(* Commands that come, p105, time, the analyser and its other clients. *)
LEMMA OutsideStep ==
  ASSUME IInv, \/ Crash \/ \E c \in Commands : Receive(c)
               \/ \E reading \in Readings : OnSnapshot(reading)
               \/ Tick \/ Analyser \/ Trip \/ LoseControl \/ OtherSwitches \/ UNCHANGED vars
  PROVE  IInv'
<1> USE DEF IInv, Shape, WordShows, WorkerPart, LoopPart, ClosePart
<1>1. ASSUME UNCHANGED <<word, loop, command>>, asked' \subseteq Switches, on' \subseteq Switches,
             Seen' \subseteq Seen, Seen' \subseteq on'
      PROVE  IInv'
  BY <1>1 DEF loop
<1>2. CASE Crash
  BY <1>2, GoneStep DEF Crash, analyser
<1>3. ASSUME NEW c \in Commands, Receive(c) PROVE IInv'
  <2>1. UNCHANGED <<asked, on, word, loop, late>>
    BY <1>3 DEF Receive, analyser
  <2>2. command' \notin {"release emission", "give back", "emission off now"}
    BY <1>3 DEF Receive, FirstPart, Commands, ForSwitches
  <2> QED BY <2>1, <2>2 DEF Seen, loop
<1>4. CASE Tick \/ LoseControl \/ UNCHANGED vars \/ \E reading \in Readings : OnSnapshot(reading)
  <2>1. UNCHANGED <<asked, on, word, loop, command, late>>
    BY <1>4 DEF Tick, LoseControl, vars, OnSnapshot, analyser
  <2> QED BY <1>1, <2>1 DEF Seen
<1>5. CASE Analyser
  <2>1. UNCHANGED <<asked, word, loop, command, late>>
    BY <1>5 DEF Analyser, SessionEnds, Follow
  <2>2. on' \subseteq Switches /\ Seen \subseteq on'
    BY <1>5 DEF Analyser, SessionEnds, Follow, Seen
  <2> QED BY <1>1, <2>1, <2>2 DEF Seen
<1>6. CASE Trip
  <2> PICK k \in on : asked' = asked \ {k} /\ on' = on \ {k}
    BY <1>6 DEF Trip
  <2>1. UNCHANGED <<word, loop, command, late>>
    BY <1>6 DEF Trip
  <2> QED BY <1>1, <2>1 DEF Seen
<1>7. CASE OtherSwitches
  <2>1. asked' \subseteq Switches /\ Seen' = {} /\ UNCHANGED <<on, word, loop, command>>
    BY <1>7 DEF OtherSwitches, Seen
  <2> QED BY <1>1, <2>1
<1> QED BY <1>2, <1>3, <1>4, <1>5, <1>6, <1>7

(* Every step keeps the invariant. *)
LEMMA Inductive ==
  ASSUME IInv, [Next]_vars
  PROVE  IInv'
BY PollStep, LoopStep, CloseStep, WorkerStep, OutsideStep DEF Next, MainLoop

(* So it holds throughout. *)
LEMMA Invariant == Spec => []IInv
BY Initially, Inductive, PTL DEF Spec

-------------------------------------------------------------------------------
(* GivenBackOff: whatever the commands, failures and other clients, and    *)
(* however many: control is given back only with everything off that has   *)
(* been seen on (RgaService._handle_control, _release_if_idle, close).     *)
THEOREM ReleaseIsSafe == Spec => GivenBackOff
<1>1. IInv /\ OurGiveBack => asked \subseteq late
  BY DEF IInv, Shape, WorkerPart, LoopPart, ClosePart, OurGiveBack, IdleGiveBack, ReleaseControl,
         CloseGiveBack, Seen, Switches
<1>2. IInv => [OurGiveBack /\ holder = "us" /\ holder' = "nobody" => asked \subseteq late]_vars
  BY <1>1
<1> QED BY <1>2, Invariant, PTL DEF GivenBackOff

(* EmGoesFirst: no step of ours takes the emission from under the EM       *)
(* (RgaService._watch_emission, _handle_emission, close).                  *)
THEOREM EmIsFirst == Spec => EmGoesFirst
<1> DEFINE A == holder = "us" /\ ~Trip /\ "emission" \in asked \ asked' => "em" \notin asked \ late
<1>1. ASSUME IInv, Next PROVE A
  <2> SUFFICES ASSUME holder = "us", ~Trip, "emission" \in asked \ asked' PROVE "em" \notin Seen
    BY DEF Seen
  <2>1. CASE MainLoop
    <3>1. CASE WatchEmissionOff \/ CloseOff("emission", "close emission", "close give back")
      BY <1>1, <3>1 DEF IInv, LoopPart, ClosePart, WatchEmissionOff, CloseOff
    <3>2. CASE WatchEm \/ WatchEmission \/ CloseOff("em", "close em", "close emission")
      BY <3>2 DEF WatchEm, WatchEmission, CloseOff, EmOff, NoEmOff, SwitchedOff
    <3>3. CASE \/ Poll \/ CollectMore \/ CollectEnds \/ ReleaseIfIdle \/ IdleGiveBack
               \/ CloseScan \/ CloseRead \/ CloseGiveBack
      BY <3>3 DEF Poll, CollectMore, CollectEnds, ReleaseIfIdle, IdleGiveBack, CloseScan, CloseRead,
                  CloseGiveBack, analyser
    <3> QED BY <2>1, <3>1, <3>2, <3>3 DEF MainLoop, Close
  <2>2. CASE Worker
    <3>1. CASE ReleaseEmission \/ EmissionOff
      BY <1>1, <3>1 DEF IInv, WorkerPart, ReleaseEmission, EmissionOff
    <3>2. ASSUME NEW here, NEW next, EmBefore(here, next) PROVE FALSE
      BY <3>2 DEF EmBefore, EmOff, NoEmOff, SwitchedOff
    <3>3. ASSUME NEW here, NEW next, EndScan(here, next) PROVE FALSE
      BY <3>3 DEF EndScan, analyser
    <3>4. ASSUME NEW here, NEW k, SwitchOn(k, here) PROVE FALSE
      BY <3>4 DEF SwitchOn
    <3>5. CASE TakeControl \/ ReleaseControl \/ StartScan \/ EmOffCommand
      BY <3>5 DEF TakeControl, ReleaseControl, StartScan, EmOffCommand, EmOff, SwitchedOff, analyser
    <3> QED BY <2>2, <3>1, <3>2, <3>3, <3>4, <3>5 DEF Worker
  <2>3. CASE \/ ReadFails \/ Stop \/ Crash \/ Start \/ \E c \in Commands : Receive(c)
             \/ \E reading \in Readings : OnSnapshot(reading)
             \/ Tick \/ Analyser \/ LoseControl
    BY <2>3 DEF ReadFails, Stop, Crash, Start, Receive, OnSnapshot, Tick, Analyser, SessionEnds,
                Follow, LoseControl, analyser
  <2>4. CASE OtherSwitches
    BY <2>4 DEF OtherSwitches
  <2> QED BY <1>1, <2>1, <2>2, <2>3, <2>4 DEF Next
<1>2. IInv /\ [Next]_vars => [A]_vars
  BY <1>1
<1> QED BY <1>2, Invariant, PTL DEF Spec, EmGoesFirst

-------------------------------------------------------------------------------
(* The types of all variables.                                             *)

(* Ages stop at the oldest that is told apart.                             *)
LEMMA Ages ==
  /\ Oldest \in Nat /\ EmissionIdleOff + 1 \in Nat
  /\ \A most \in Nat : \A n \in 0..most : Older(n, most) \in 0..most
BY GuardAssumption DEF Oldest, Older

(* Who holds the analyser, and what is acquired, seen and timed.           *)
HeldType ==
  /\ holder \in {"nobody", "us", "other"} /\ control \in BOOLEAN
  /\ acq \in {"none", "Faraday", "EM"}
  /\ word \subseteq Switches /\ late \subseteq Switches
  /\ snap \in ReadingType /\ age \in 0..Oldest /\ idle \in 0..(EmissionIdleOff + 1)

(* Where the loop has read what, and who works.                            *)
PhaseType ==
  /\ step \in {"poll", "collect", "em", "emission", "emission off", "release", "give back"}
       => got.word = Unread \/ step = "poll"
  /\ step = "stopped" => command = "none"

(* These and the shape of the invariant are the types.                     *)
LEMMA TypeParts == TypeOK <=> HeldType /\ PhaseType /\ asked \subseteq Switches
                              /\ on \subseteq Switches
                              /\ got.word \in (SUBSET Switches) \cup {Unread}
                              /\ got.us \in {"unread", "yes", "no"}
BY DEF TypeOK, HeldType, PhaseType

(* A service that has gone has nothing.                                    *)
LEMMA GoneTypes ==
  ASSUME HeldType, Gone, holder' \in {"nobody", "us", "other"}
  PROVE  HeldType' /\ PhaseType'
<1>1. NoReading \in ReadingType /\ Oldest \in 0..Oldest /\ 0 \in 0..(EmissionIdleOff + 1)
  BY Ages DEF ReadingType
<1>2. HeldType'
  BY <1>1 DEF Gone, HeldType
<1> QED BY <1>2 DEF Gone, PhaseType

(* An EM off, or none.                                                     *)
LEMMA EmOffTypes ==
  ASSUME HeldType, NoEmOff \/ \E reply \in Replies : EmOff(reply)
  PROVE  /\ acq' \in {"none", "Faraday", "EM"} /\ late' \subseteq Switches
         /\ idle' \in 0..(EmissionIdleOff + 1)
<1>1. 0 \in 0..(EmissionIdleOff + 1)
  BY Ages
<1> QED BY <1>1 DEF EmOff, NoEmOff, HeldType, Switches

(* Giving back leaves a holder.                                            *)
LEMMA GiveBackTypes ==
  ASSUME HeldType, NEW reply, GiveBack(reply)
  PROVE  holder' \in {"nobody", "us", "other"}
BY DEF GiveBack, HeldType

(* A poll.                                                                 *)
LEMMA PollTypes ==
  ASSUME IInv, HeldType, PhaseType, Poll
  PROVE  HeldType' /\ PhaseType'
<1>1. ASSUME NEW g \in GotType, Fetched(g) PROVE HeldType' /\ PhaseType'
  <2>1. UNCHANGED <<holder, acq, snap, age, idle, command>> /\ step = "poll"
    BY DEF Poll, analyser, guard
  <2>2. CASE g.word = Unread \/ g.us = "unread"
    BY <1>1, <2>1, <2>2 DEF Fetched, HeldType, PhaseType
  <2>3. CASE g.word # Unread /\ g.us # "unread"
    <3>1. /\ got' = [g EXCEPT !.word = Unread] /\ step' = "collect" /\ word' = g.word
          /\ control' = (g.us = "yes") /\ late' \subseteq late
      BY <1>1, <2>3 DEF Fetched
    <3>2. got'.word = Unread /\ word' \subseteq Switches
      BY <2>3, <3>1 DEF GotType
    <3> QED BY <2>1, <3>1, <3>2 DEF HeldType, PhaseType
  <2> QED BY <2>2, <2>3
<1>2. [got EXCEPT !.word = on] \in GotType
  BY DEF IInv, Shape, GotType
<1>3. \A us \in {"yes", "no"} : [got EXCEPT !.us = us] \in GotType
  BY DEF IInv, Shape, GotType
<1> QED BY <1>1, <1>2, <1>3 DEF Poll

(* The other steps of the loop.                                            *)
LEMMA LoopTypes ==
  ASSUME HeldType, PhaseType,
         \/ CollectMore \/ CollectEnds \/ WatchEm \/ WatchEmission \/ WatchEmissionOff
         \/ ReleaseIfIdle \/ IdleGiveBack \/ ReadFails \/ Stop \/ Start
  PROVE  HeldType' /\ PhaseType'
<1>1. Nothing.word = Unread /\ 0 \in 0..(EmissionIdleOff + 1)
  BY NothingRead, Ages
<1>2. CASE CollectMore \/ CollectEnds
  <2>1. /\ UNCHANGED <<holder, control, word, late, snap, age, got, command>>
        /\ step = "collect" /\ step' = "em" /\ acq' \in {acq, "none"} /\ idle' \in {idle, 0}
    BY <1>2 DEF CollectMore, CollectEnds, analyser, guard
  <2> QED BY <1>1, <2>1 DEF HeldType, PhaseType
<1>3. CASE WatchEm \/ WatchEmission
  <2>1. NoEmOff \/ \E reply \in Replies : EmOff(reply)
    BY <1>3 DEF WatchEm, WatchEmission
  <2>2. /\ UNCHANGED <<holder, word, control, snap, age, got, command>>
        /\ \/ step = "em" /\ step' = "emission"
           \/ step = "emission" /\ step' \in {"emission off", "release"}
    BY <1>3 DEF WatchEm, WatchEmission, guard
  <2> QED BY <2>1, <2>2, EmOffTypes DEF HeldType, PhaseType
<1>4. CASE WatchEmissionOff
  <2>1. /\ UNCHANGED <<holder, control, word, late, acq, snap, age, idle, got, command>>
        /\ step = "emission off" /\ step' = "release"
    BY <1>4 DEF WatchEmissionOff, guard
  <2> QED BY <2>1 DEF HeldType, PhaseType
<1>5. CASE ReleaseIfIdle \/ ReadFails
  <2>1. /\ UNCHANGED <<holder, control, word, late, acq, snap, age, idle, command>>
        /\ \/ step' = "poll" /\ got' = Nothing
           \/ step = "release" /\ step' = "give back" /\ got' = got
    BY <1>5 DEF ReleaseIfIdle, ReadFails, NextCycle, analyser, guard
  <2> QED BY <1>1, <2>1 DEF HeldType, PhaseType
<1>6. CASE IdleGiveBack
  <2>1. /\ UNCHANGED <<control, word, late, acq, snap, age, idle, command>>
        /\ step' = "poll" /\ got' = Nothing /\ holder' \in {"nobody", "us", "other"}
    BY <1>6, GiveBackTypes DEF IdleGiveBack, NextCycle, guard
  <2> QED BY <1>1, <2>1 DEF HeldType, PhaseType
<1>7. CASE Stop \/ Start
  <2>1. /\ UNCHANGED <<holder, control, word, late, acq, snap, age, idle, command>>
        /\ \/ step' = "close scan"
           \/ step' = "poll" /\ step = "stopped"
    BY <1>7 DEF Stop, Start, analyser, guard
  <2> QED BY <2>1 DEF HeldType, PhaseType
<1> QED BY <1>2, <1>3, <1>4, <1>5, <1>6, <1>7

(* The end of the service.                                                 *)
LEMMA CloseTypes ==
  ASSUME HeldType, PhaseType, Close
  PROVE  HeldType' /\ PhaseType'
<1>1. ASSUME UNCHANGED <<holder, word, control, acq, guard, idle, command, late>>,
             step' \in {"close read", "close em", "close emission", "close give back"}
      PROVE  HeldType' /\ PhaseType'
  BY <1>1 DEF HeldType, PhaseType, guard
<1>2. CASE CloseScan
  <2>1. holder' = holder
    BY <1>2 DEF CloseScan, analyser
  <2>2. CASE ~Gone
    BY <1>1, <1>2, <2>1, <2>2 DEF CloseScan
  <2> QED BY <2>1, <2>2, GoneTypes DEF HeldType
<1>3. CASE CloseRead
  <2>1. holder' = holder
    BY <1>3 DEF CloseRead, analyser
  <2>2. CASE ~Gone
    BY <1>1, <1>3, <2>1, <2>2 DEF CloseRead
  <2> QED BY <2>1, <2>2, GoneTypes DEF HeldType
<1>4. ASSUME NEW k, NEW here, NEW next \in {"close emission", "close give back"},
             CloseOff(k, here, next)
      PROVE  HeldType' /\ PhaseType'
  <2>1. holder' = holder
    BY <1>4 DEF CloseOff
  <2>2. CASE ~Gone
    BY <1>1, <1>4, <2>1, <2>2 DEF CloseOff
  <2> QED BY <2>1, <2>2, GoneTypes DEF HeldType
<1>5. CASE CloseGiveBack
  BY <1>5, GiveBackTypes, GoneTypes DEF CloseGiveBack
<1> QED BY <1>2, <1>3, <1>4, <1>5 DEF Close

(* The worker, who works for a service that runs.                          *)
LEMMA WorkerTypes ==
  ASSUME HeldType, PhaseType, Worker
  PROVE  HeldType' /\ PhaseType'
<1>1. 0 \in 0..(EmissionIdleOff + 1)
  BY Ages
<1>2. ASSUME UNCHANGED <<word, guard, loop>>, command # "none",
             holder' \in {"nobody", "us", "other"}, control' \in BOOLEAN,
             acq' \in {"none", "Faraday", "EM"}, late' \subseteq Switches,
             idle' \in 0..(EmissionIdleOff + 1)
      PROVE  HeldType' /\ PhaseType'
  BY <1>2 DEF HeldType, PhaseType, guard, loop
<1>3. CASE TakeControl
  <2>1. holder' \in {holder, "us"} /\ control' \in {control, TRUE, FALSE}
    BY <1>3 DEF TakeControl
  <2> QED BY <1>2, <1>3, <2>1 DEF TakeControl, HeldType
<1>4. CASE ReleaseEmission \/ EmissionOff
  BY <1>2, <1>4 DEF ReleaseEmission, EmissionOff, HeldType
<1>5. CASE ReleaseControl
  <2>1. control' \in BOOLEAN
    BY <1>5 DEF ReleaseControl, HeldType
  <2>2. holder' \in {"nobody", "us", "other"}
    BY <1>5, GiveBackTypes DEF ReleaseControl
  <2> QED BY <1>2, <1>5, <2>1, <2>2 DEF ReleaseControl, HeldType
<1>6. CASE StartScan
  <2>1. acq' \in {acq, "EM", "Faraday"}
    BY <1>6 DEF StartScan
  <2> QED BY <1>2, <1>6, <2>1 DEF StartScan, HeldType, analyser
<1>7. ASSUME NEW here \in {"release scan", "scan stop"}, NEW next, EndScan(here, next)
      PROVE  HeldType' /\ PhaseType'
  <2>1. acq' \in {acq, "none"} /\ idle' \in {idle, 0}
    BY <1>7 DEF EndScan
  <2> QED BY <1>1, <1>2, <1>7, <2>1 DEF EndScan, HeldType, analyser
<1>8. ASSUME NEW here \in {"release em", "emission off em"}, NEW next, EmBefore(here, next)
      PROVE  HeldType' /\ PhaseType'
  <2>1. NoEmOff \/ \E reply \in Replies : EmOff(reply)
    BY <1>8 DEF EmBefore
  <2> QED BY <1>2, <1>8, <2>1, EmOffTypes DEF EmBefore, HeldType
<1>9. CASE EmOffCommand
  BY <1>2, <1>9, EmOffTypes DEF EmOffCommand, HeldType
<1>10. ASSUME NEW k \in Switches, NEW here \in {"emission on", "em on"}, SwitchOn(k, here)
       PROVE  HeldType' /\ PhaseType'
  <2>1. late' \subseteq late \cup {k}
    BY <1>10 DEF SwitchOn
  <2> QED BY <1>2, <1>10, <2>1 DEF SwitchOn, HeldType
<1> QED BY <1>3, <1>4, <1>5, <1>6, <1>7, <1>8, <1>9, <1>10 DEF Worker, Switches

(* Commands that come, p105, time, the analyser and its other clients.     *)
LEMMA OutsideTypes ==
  ASSUME HeldType, PhaseType, asked' \subseteq Switches,
         \/ Crash \/ \E c \in Commands : Receive(c)
         \/ \E reading \in Readings : OnSnapshot(reading)
         \/ Tick \/ Analyser \/ Trip \/ LoseControl \/ OtherSwitches \/ UNCHANGED vars
  PROVE  HeldType' /\ PhaseType'
<1>1. 0 \in 0..(EmissionIdleOff + 1) /\ 0 \in 0..Oldest
  BY Ages
<1>2. CASE Crash
  BY <1>2, GoneTypes DEF Crash, analyser, HeldType
<1>3. ASSUME NEW c \in Commands, Receive(c) PROVE HeldType' /\ PhaseType'
  <2>1. UNCHANGED <<holder, word, control, acq, snap, age, step, got, late>> /\ idle' = 0
        /\ step # "stopped"
    BY <1>3 DEF Receive, Running, analyser, guard, loop
  <2> QED BY <1>1, <2>1 DEF HeldType, PhaseType
<1>4. ASSUME NEW reading \in Readings, OnSnapshot(reading) PROVE HeldType' /\ PhaseType'
  <2>1. /\ UNCHANGED <<holder, word, control, acq, idle, step, got, command, late>>
        /\ snap' = reading /\ age' = 0
    BY <1>4 DEF OnSnapshot, analyser, loop
  <2> QED BY <1>1, <2>1, GuardAssumption DEF HeldType, PhaseType
<1>5. CASE Tick
  <2>1. /\ UNCHANGED <<holder, word, control, acq, snap, step, got, command, late>>
        /\ age' = Older(age, Oldest) /\ idle' = Older(idle, EmissionIdleOff + 1)
    BY <1>5 DEF Tick, analyser, loop
  <2>2. age' \in 0..Oldest /\ idle' \in 0..(EmissionIdleOff + 1)
    BY <2>1, Ages DEF HeldType
  <2> QED BY <2>1, <2>2 DEF HeldType, PhaseType
<1>6. CASE Analyser \/ Trip \/ LoseControl \/ OtherSwitches \/ UNCHANGED vars
  <2>1. /\ UNCHANGED <<word, control, acq, snap, age, idle, step, got, command>>
        /\ holder' \in {holder, "nobody", "other"} /\ late' \in {late, late \cup asked'}
    BY <1>6 DEF Analyser, SessionEnds, Follow, Trip, LoseControl, OtherSwitches, vars, analyser,
                guard, loop
  <2> QED BY <2>1 DEF HeldType, PhaseType
<1> QED BY <1>2, <1>3, <1>4, <1>5, <1>6

(* TypeOK of RgaGuard, for any limits and whatever comes: an idle worker   *)
(* while the service is stopped, and no half-read cycle but in the poll.   *)
THEOREM TypesHold == Spec => []TypeOK
<1>1. Init => HeldType /\ PhaseType
  BY Ages, NothingRead DEF Init, HeldType, PhaseType, ReadingType, Switches
<1>2. IInv /\ HeldType /\ PhaseType /\ [Next]_vars => (HeldType /\ PhaseType)'
  <2> SUFFICES ASSUME IInv, HeldType, PhaseType, [Next]_vars PROVE (HeldType /\ PhaseType)'
    OBVIOUS
  <2>1. asked' \subseteq Switches
    BY Inductive DEF IInv, Shape
  <2> QED BY <2>1, PollTypes, LoopTypes, CloseTypes, WorkerTypes, OutsideTypes DEF Next, MainLoop
<1>3. IInv /\ HeldType /\ PhaseType => TypeOK
  BY TypeParts DEF IInv, Shape, GotType
<1> QED BY <1>1, <1>2, <1>3, Invariant, PTL DEF Spec
===============================================================================
