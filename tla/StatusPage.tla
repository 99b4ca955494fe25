------------------------------- MODULE StatusPage -------------------------------
(***************************************************************************)
(* What the web UI shows of the services (api/state.py, SystemState):      *)
(* their heartbeats, and the value of a channel of each.  Heartbeats and   *)
(* measurements are retained, so the broker delivers the last ones again   *)
(* whenever the page subscribes.                                           *)
(*                                                                         *)
(* Times are ages in ticks, which stop at Horizon.  A service publishes    *)
(* its heartbeat and its channel together.                                 *)
(***************************************************************************)
EXTENDS Integers

CONSTANTS
  Services,
  WithChannel,  \* services that publish a channel; `alarms` and `sinks` do not
  Limit,        \* 60 s: a heartbeat or a value older than this is not current
  BeatEvery,    \* ticks between the heartbeats of a running service
  Horizon       \* bound: the oldest age that is told apart

StatusAssumption ==
  /\ WithChannel \subseteq Services
  /\ Limit \in Nat /\ BeatEvery \in 1..(Limit - 1)
  /\ Horizon \in Nat /\ Horizon > Limit

Never == Horizon + 1
Older(a) == IF a < Horizon THEN a + 1 ELSE a

VARIABLES
  running,    \* the services that run
  silence,    \* age of the last heartbeat of each service, Never if it had none
  online,     \* the page is connected to the broker
  heartbeats, \* _heartbeats: per service, or Never
  receivedAt  \* _received_at of each service's channel, as an age, or Never

vars == <<running, silence, online, heartbeats, receivedAt>>

-------------------------------------------------------------------------------
(* _on_status and _on_measurement: the page keeps the age the heartbeat    *)
(* had when it arrived, and the moment the value arrived.                  *)
Hears(S, ages) ==
  /\ heartbeats' = [s \in Services |-> IF s \in S THEN ages[s] ELSE heartbeats[s]]
  /\ receivedAt' = [s \in Services |-> IF s \in S \cap WithChannel THEN 0 ELSE receivedAt[s]]

Beat(s) ==
  /\ s \in running
  /\ silence' = [silence EXCEPT ![s] = 0]
  /\ Hears(IF online THEN {s} ELSE {}, silence')
  /\ UNCHANGED <<running, online>>

Retained == {s \in Services : silence[s] # Never}

Subscribe ==
  /\ ~online
  /\ online' = TRUE
  /\ Hears(Retained, silence)
  /\ UNCHANGED <<running, silence>>

LoseBroker ==
  /\ online
  /\ online' = FALSE
  /\ UNCHANGED <<running, silence, heartbeats, receivedAt>>

(* The web UI starts again and remembers nothing. *)
RestartPage ==
  /\ online' = FALSE
  /\ heartbeats' = [s \in Services |-> Never]
  /\ receivedAt' = [s \in Services |-> Never]
  /\ UNCHANGED <<running, silence>>

Stop(s) ==
  /\ s \in running
  /\ running' = running \ {s}
  /\ UNCHANGED <<silence, online, heartbeats, receivedAt>>

Start(s) ==
  /\ s \notin running
  /\ running' = running \cup {s}
  /\ silence' = [silence EXCEPT ![s] = 0]
  /\ Hears(IF online THEN {s} ELSE {}, silence')
  /\ UNCHANGED online

(* A running service keeps its pace. *)
AgeOfValue(s) == Older(receivedAt[s])

Tick ==
  /\ \A s \in running : silence[s] < BeatEvery
  /\ silence' = [s \in Services |-> Older(silence[s])]
  /\ receivedAt' = [s \in Services |-> AgeOfValue(s)]
  /\ UNCHANGED <<running, online, heartbeats>>

-------------------------------------------------------------------------------
Init ==
  /\ running = {}
  /\ silence = [s \in Services |-> Never]
  /\ online = FALSE
  /\ heartbeats = [s \in Services |-> Never]
  /\ receivedAt = [s \in Services |-> Never]

Next ==
  \/ \E s \in Services : Beat(s) \/ Stop(s) \/ Start(s)
  \/ Subscribe \/ LoseBroker \/ RestartPage
  \/ Tick

Spec == Init /\ [][Next]_vars

(* What the page shows. *)
Healthy(s) == heartbeats[s] < Limit
ShowsValue(s) == receivedAt[s] <= Limit

TypeOK ==
  /\ running \subseteq Services
  /\ \A s \in Services :
       /\ {silence[s], heartbeats[s], receivedAt[s]} \subseteq 0..Never
       /\ s \in running => silence[s] \in 0..BeatEvery
  /\ online \in BOOLEAN

Silent(s) == silence[s] \in (Limit + 1)..Horizon

-------------------------------------------------------------------------------
(* state.py:540-541: "EVERY service publishes a heartbeat now, so silence  *)
(* is evidence for all of them alike".                                     *)
SilenceIsEvidence == \A s \in Services : Silent(s) => ~Healthy(s)

(* state.py:86-87: "A stale channel never shows its last number." *)
StaleNeverShows == \A s \in WithChannel : Silent(s) => ~ShowsValue(s)
===============================================================================
