------------------------------ MODULE CaenService ------------------------------
(***************************************************************************)
(* The CAEN service: what it does to the channels of one supply that stays *)
(* connected (CaenHv), and which port it takes each of its supplies to be  *)
(* on (CaenLink).  Each is explored with the other at rest.                *)
(***************************************************************************)
EXTENDS CaenHv

CONSTANTS Supplies, Ports, RelinkWait, Moves, Glitches, LinkCommands    \* of the link

VARIABLES part,
          plugged, readers, down, failures, wait, linkLoop, linkCommand, moves, glitches,
          linkCommands, crossed

link == <<plugged, readers, down, failures, wait, linkLoop, linkCommand, moves, glitches,
          linkCommands, crossed>>

K == INSTANCE CaenLink WITH
       MaxMoves <- Moves, MaxGlitches <- Glitches, MaxCommands <- LinkCommands,
       loop <- linkLoop, command <- linkCommand, commands <- linkCommands

ASSUME LinkAssumption == K!LinkAssumption

(* The one at rest is at rest in one way. *)
ServiceInit ==
  /\ Init /\ K!Init /\ part \in {"supply", "link"}
  /\ part = "link" => disabled = {} /\ on = {} /\ loaded = {}
  /\ part = "supply" =>
       plugged = CHOOSE f \in [Ports -> Supplies \cup {K!Nobody}] :
                   \A d \in Supplies : Cardinality({p \in Ports : f[p] = d}) = 1

InSupply(Step) == part = "supply" /\ Step /\ UNCHANGED <<part, link>>
InLink(Step) == part = "link" /\ Step /\ UNCHANGED <<part, vars>>

ServiceNext == InSupply(Next) \/ InLink(K!Next)

(* The fairness of the two, of steps in this module.                       *)
ServiceSpec ==
  /\ ServiceInit /\ [][ServiceNext]_<<part, vars, link>>
  /\ WF_vars(InSupply(MainLoop)) /\ WF_vars(InSupply(FinishCommand))
  /\ WF_vars(InSupply(OnTripRecord))
  /\ WF_link(InLink(K!Loop))

\* The properties of the link, in the names of this module.
WrongOnlyByARace == K!WrongOnlyByARace
PluggedIsRead == K!PluggedIsRead
===============================================================================
