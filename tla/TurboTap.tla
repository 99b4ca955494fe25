-------------------------------- MODULE TurboTap --------------------------------
(***************************************************************************)
(* The turbo pump, by listening (devices/turbo.py, PfeifferTap and         *)
(* TurboService under the loop of service.py).                             *)
(*                                                                         *)
(* The pump's own controller, the DCU, asks it for one parameter after     *)
(* another; the service may not ask and only hears the replies, which wait *)
(* in the port's buffer until the loop polls it.  They are stamped when    *)
(* they are read, not when they were sent.  One reply is on the bus each   *)
(* tick; ages stop at Horizon.                                             *)
(***************************************************************************)
EXTENDS Naturals, Sequences, FiniteSets, FiniteSetsExt, SequencesExt

CONSTANTS
  Params,        \* the parameters the channels name
  MaxAge,        \* max_age_s
  Identify,      \* identify_s
  MaxPause,      \* bound: ticks between two reads, or two attempts to reconnect
  MaxSwitches,   \* bound: how often somebody sets the DCU, or moves the cable
  MaxLost        \* bound: replies that arrive garbled

TapAssumption ==
  /\ Params # {} /\ IsFiniteSet(Params)
  /\ {MaxSwitches, MaxLost} \subseteq Nat /\ MaxPause \in Nat \ {0}
  /\ MaxAge \in Nat /\ MaxAge >= Cardinality(Params) + MaxPause
  /\ Identify \in Nat /\ Identify >= Cardinality(Params)

Horizon == MaxAge + 2 * MaxPause + 1
Older(a) == IF a < Horizon THEN a + 1 ELSE a

VARIABLES
  asking,     \* the parameters the DCU asks for, in turn
  heard,      \* history: age of the last reply on the bus, per parameter
  plugged,    \* the adapter is there
  port,       \* the open port works: its adapter was not pulled since
  buffer,     \* parameters with a reply in the buffer of the port
  latest,     \* latest: age of each entry, counted from when it was read
  at,         \* the service: "listen" for identity, "read", "lost" the port, or "stopped"
  first,      \* it has not started yet
  left,       \* ticks until it stops listening
  due,        \* ticks until the loop goes on
  failures,   \* _failures, at most 2
  shown,      \* per parameter what this run handed on: "none", "ok" or "error"
  switches, lost,
  calm        \* history: all of Params asked for, and nothing lost, since the port was opened

vars == <<asking, heard, plugged, port, buffer, latest, at, first, left, due, failures, shown,
          switches, lost, calm>>

Asked == ToSet(asking)
HasPort == at \in {"listen", "read"}

-------------------------------------------------------------------------------
(* Somebody sets the display or the service line of the DCU, or turns it   *)
(* off.                                                                    *)
SetDcu ==
  /\ switches < MaxSwitches
  /\ \/ \E p \in Params \ Asked : asking' = Append(asking, p)
     \/ \E i \in DOMAIN asking : asking' = RemoveAt(asking, i)
  /\ switches' = switches + 1
  /\ calm' = FALSE
  /\ UNCHANGED <<heard, plugged, port, buffer, latest, at, first, left, due, failures, shown, lost>>

(* The adapter is pulled out or put in; what waits in its buffer is gone.  *)
MoveCable ==
  /\ switches < MaxSwitches
  /\ plugged' = ~plugged
  /\ port' = FALSE /\ buffer' = {}
  /\ switches' = switches + 1
  /\ calm' = FALSE
  /\ UNCHANGED <<asking, heard, latest, at, first, left, due, failures, shown, lost>>

(* The DCU asks for the next parameter; a garbled reply is rejected.       *)
Turn == IF asking = <<>> THEN <<>> ELSE Append(Tail(asking), Head(asking))
Replies == IF asking = <<>> THEN {{}}
           ELSE {{Head(asking)}} \cup IF lost < MaxLost THEN {{}} ELSE {}

Tick ==
  /\ due > 0
  /\ due' = due - 1
  /\ left' = IF left > 0 THEN left - 1 ELSE 0
  /\ asking' = Turn
  /\ \E reply \in Replies :
       /\ heard' = [p \in Params |-> IF p \in reply THEN 0 ELSE Older(heard[p])]
       /\ buffer' = IF port /\ HasPort THEN buffer \cup reply ELSE buffer
       /\ lost' = lost + IF reply = {} /\ asking # <<>> THEN 1 ELSE 0
       /\ calm' = (calm /\ reply # {})
  /\ latest' = [p \in Params |-> Older(latest[p])]
  /\ UNCHANGED <<plugged, port, at, first, failures, shown, switches>>

-------------------------------------------------------------------------------
(* PfeifferTap.poll: what waits in the buffer is as old as this poll.      *)
Never == Horizon
Polled == [p \in Params |-> IF p \in buffer THEN 0 ELSE latest[p]]
NotFound(whenFirst) == IF whenFirst THEN "stopped" ELSE "lost"
Known(ages) == {p \in Params : ages[p] # Never}

(* The port is found by the serial number of its adapter, or not at all.   *)
Opened(whenFirst) ==
  /\ first' = whenFirst
  /\ at' = IF plugged THEN "listen" ELSE NotFound(whenFirst)
  /\ port' = plugged
  /\ left' = Identify
  /\ due' \in IF plugged THEN {0} ELSE 1..MaxPause
  /\ buffer' = {}
  /\ latest' = [p \in Params |-> Never]
  /\ calm' = (plugged /\ Asked = Params)

(* verify_identity listens until every parameter was heard once, or the    *)
(* time is up; one reply is enough to know the pump is there.              *)
Bug_HeardEnough(ages) == Known(ages) # {}
HeardEnough(ages) == Known(ages) = Params

Listen ==
  /\ at = "listen" /\ due = 0
  /\ latest' = Polled /\ buffer' = {}
  /\ \/ /\ port
        /\ HeardEnough(Polled) \/ (left = 0 /\ Known(Polled) # {})
        /\ at' = "read" /\ first' = FALSE
        /\ failures' = 0
        /\ due' = 0
     \/ /\ port
        /\ ~HeardEnough(Polled) /\ left > 0
        /\ due' = 1
        /\ UNCHANGED <<at, first, failures>>
     \/ /\ ~port \/ (left = 0 /\ Known(Polled) = {})
        /\ at' = NotFound(first)
        /\ due' \in 1..MaxPause
        /\ UNCHANGED <<first, failures>>
  /\ UNCHANGED <<asking, heard, plugged, port, left, shown, switches, lost, calm>>

(* read: silence of the whole pump raises, as does a port that is gone;    *)
(* silence of one parameter is an error of its channel.                    *)
Silent(ages) == \A p \in Params : ages[p] > MaxAge
Quality(ages, p) == IF ages[p] <= MaxAge THEN "ok" ELSE "error"

Readable == port /\ ~Silent(Polled)

Read ==
  /\ at = "read" /\ due = 0
  /\ Readable
  /\ latest' = Polled /\ buffer' = {}
  /\ shown' = [p \in Params |-> Quality(Polled, p)]
  /\ failures' = 0
  /\ due' \in 1..MaxPause
  /\ UNCHANGED <<asking, heard, plugged, port, at, first, left, switches, lost, calm>>

(* Every channel is marked; the second time the port is given up and       *)
(* looked for again (_loop, reconnect).                                    *)
Fail ==
  /\ due = 0
  /\ at = "lost" \/ (at = "read" /\ ~Readable)
  /\ shown' = [p \in Params |-> "error"]
  /\ failures' = IF failures < 2 THEN failures + 1 ELSE failures
  /\ IF failures' = 2
     THEN Opened(FALSE)
     ELSE /\ latest' = Polled /\ buffer' = {} /\ due' = 1
          /\ UNCHANGED <<port, at, first, left, calm>>
  /\ UNCHANGED <<asking, heard, plugged, switches, lost>>

(* A service that heard nothing at its start has ended; somebody starts it *)
(* again.                                                                  *)
Start ==
  /\ at = "stopped"
  /\ Opened(TRUE)
  /\ failures' = 0
  /\ UNCHANGED <<asking, heard, plugged, shown, switches, lost>>

(* It dies, or is stopped, at any time. *)
Stop ==
  /\ at # "stopped"
  /\ at' = "stopped" /\ due' = 1
  /\ shown' = [p \in Params |-> "none"]
  /\ UNCHANGED <<asking, heard, plugged, port, buffer, latest, first, left, failures, switches, lost, calm>>

-------------------------------------------------------------------------------
Init ==
  /\ asking \in {SetToSeq(Params), <<>>}
  /\ heard = [p \in Params |-> Never]
  /\ plugged = TRUE /\ port = FALSE /\ buffer = {}
  /\ latest = [p \in Params |-> Never]
  /\ at = "stopped" /\ first = TRUE
  /\ left = 0 /\ due = 1 /\ failures = 0
  /\ shown = [p \in Params |-> "none"]
  /\ switches = 0 /\ lost = 0
  /\ calm = FALSE

Next == SetDcu \/ MoveCable \/ Tick \/ Listen \/ Read \/ Fail \/ Start \/ Stop

Spec == Init /\ [][Next]_vars

TypeOK ==
  /\ Asked \subseteq Params /\ IsInjective(asking)
  /\ heard \in [Params -> 0..Horizon] /\ latest \in [Params -> 0..Horizon]
  /\ buffer \subseteq Params /\ {plugged, port} \subseteq BOOLEAN
  /\ at \in {"listen", "read", "lost", "stopped"}
  /\ shown \in [Params -> {"none", "ok", "error"}]

(* A value shown as ok was on the bus at most MaxAge before the last poll. *)
OkMeansHeard == \A p \in Params : shown[p] = "ok" => heard[p] <= MaxAge + 2 * MaxPause

(* What the service says of each parameter follows the bus, through        *)
(* garbled replies, restarts and changed settings of the DCU.  A parameter *)
(* the DCU stopped asking for, or a pump that went silent, is not "left at *)
(* its last value" (turbo.py:27-28); and while the DCU asks for all of     *)
(* them, none is handed on as an error, from the first read on: that       *)
(* raised an alarm at every restart (turbo.py, verify_identity).           *)
ShownAsHeard ==
  [][OkMeansHeard' /\ (Read /\ calm => \A p \in Params : shown'[p] = "ok")]_vars
===============================================================================
