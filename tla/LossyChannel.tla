------------------------------ MODULE LossyChannel ------------------------------
(***************************************************************************)
(* What a publisher on the bus (bus.py, Bus) may rely on: a message handed *)
(* to publish() arrives at the broker at most once, or is lost, and what   *)
(* was never published never arrives.  Nothing is promised about order.    *)
(***************************************************************************)
EXTENDS Sequences

CONSTANTS Topics, Messages
TopicOf(m) == m[1]

VARIABLES
  offered,   \* messages handed to publish()
  arrived,   \* per topic, the messages the broker received, in order
  lost       \* messages that will never arrive

vars == <<offered, arrived, lost>>

Arrived == {m \in Messages : \E i \in DOMAIN arrived[TopicOf(m)] : arrived[TopicOf(m)][i] = m}
Underway == offered \ (Arrived \cup lost)

Init == offered = {} /\ arrived = [t \in Topics |-> <<>>] /\ lost = {}

Offer(m) ==
  /\ m \notin offered
  /\ offered' = offered \cup {m}
  /\ UNCHANGED <<arrived, lost>>

Arrive(m) ==
  /\ m \in Underway
  /\ arrived' = [arrived EXCEPT ![TopicOf(m)] = Append(@, m)]
  /\ UNCHANGED <<offered, lost>>

Lose(S) ==
  /\ S \subseteq Underway
  /\ lost' = lost \cup S
  /\ UNCHANGED <<offered, arrived>>

Next ==
  \/ \E m \in Messages : Offer(m) \/ Arrive(m)
  \/ \E S \in SUBSET Messages : Lose(S)

Spec == Init /\ [][Next]_vars
===============================================================================
