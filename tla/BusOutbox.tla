------------------------------- MODULE BusOutbox -------------------------------
(***************************************************************************)
(* Publishing through an outage (bus.py, Bus): _publish, called by any     *)
(* thread of a service, and the callbacks that paho's network thread runs  *)
(* when the broker comes and goes.                                         *)
(*                                                                         *)
(* _publish reads the connected flag first and acts on it afterwards, so   *)
(* it is two actions; on_connect sets the flag, then _flush swaps the      *)
(* buffer under the lock, then publishes the old one outside it.  Each     *)
(* publisher owns a topic and numbers its messages.                        *)
(***************************************************************************)
EXTENDS Naturals, Sequences, FiniteSets

CONSTANTS
  Publishers,     \* threads that publish, each on a topic of its own
  BufferDepth,    \* _buffer_depth
  MaxMessages,    \* bound: messages per publisher
  MaxOutages      \* bound: how often the connection is lost

ASSUME BusAssumption ==
  /\ BufferDepth \in Nat \ {0}
  /\ MaxMessages \in Nat
  /\ MaxOutages \in Nat

Messages == Publishers \X (1..MaxMessages)
Older(a, b) == a[1] = b[1] /\ a[2] < b[2]

VARIABLES
  published,   \* how many messages each publisher has begun to publish
  inPublish,   \* where it is in _publish: "out", "send" or "store"
  connected,   \* the _connected event
  network,     \* what the network thread is doing
  buffer,      \* _buffer
  pending,     \* what _flush took out of the buffer and has yet to send
  wire,        \* in paho's outgoing queue or on the socket
  received,    \* per publisher, what the broker received
  dropped,     \* _dropped
  outages,
  overflowed,  \* history: messages the full buffer let go
  severed      \* history: messages lost with the connection

vars == <<published, inPublish, connected, network, buffer, pending, wire,
          received, dropped, outages, overflowed, severed>>

Current(p) == <<p, published[p]>>
InHand == {Current(p) : p \in {q \in Publishers : inPublish[q] # "out"}}
Elements(s) == {s[i] : i \in DOMAIN s}

-------------------------------------------------------------------------------
(* _publish reads the flag ... *)
Publish(p) ==
  /\ inPublish[p] = "out"
  /\ published[p] < MaxMessages
  /\ published' = [published EXCEPT ![p] = @ + 1]
  /\ inPublish' = [inPublish EXCEPT ![p] = IF connected THEN "send" ELSE "store"]
  /\ UNCHANGED <<connected, network, buffer, pending, wire, received, dropped,
                 outages, overflowed, severed>>

(* ... hands the message to paho, which refuses it without a socket ... *)
HasSocket == network \notin {"offline", "closing"}

Send(p) ==
  /\ inPublish[p] = "send"
  /\ IF HasSocket
     THEN /\ wire' = Append(wire, Current(p))
          /\ inPublish' = [inPublish EXCEPT ![p] = "out"]
     ELSE /\ inPublish' = [inPublish EXCEPT ![p] = "store"]
          /\ UNCHANGED wire
  /\ UNCHANGED <<published, connected, network, buffer, pending, received,
                 dropped, outages, overflowed, severed>>

(* ... or appends it to the buffer, a deque that lets go of its oldest *)
(* message when it is full.                                            *)
Full == Len(buffer) = BufferDepth

AppendBounded(m) == Append(IF Full THEN Tail(buffer) ELSE buffer, m)

Store(p) ==
  /\ inPublish[p] = "store"
  /\ dropped' = IF Full THEN dropped + 1 ELSE dropped
  /\ buffer' = AppendBounded(Current(p))
  /\ overflowed' = overflowed \cup ((Elements(buffer) \cup {Current(p)}) \ Elements(buffer'))
  /\ inPublish' = [inPublish EXCEPT ![p] = "out"]
  /\ UNCHANGED <<published, connected, network, pending, wire, received,
                 outages, severed>>

-------------------------------------------------------------------------------
(* The network thread.  A connection that is refused changes nothing. *)

(* _on_connect sets the event and renews the subscriptions. *)
OnConnect ==
  /\ network = "offline"
  /\ connected' = TRUE
  /\ network' = "connecting"
  /\ UNCHANGED <<published, inPublish, buffer, pending, wire, received, dropped,
                 outages, overflowed, severed>>

Bug_AfterSwap == buffer
AfterSwap == <<>>

(* _flush swaps the buffer for an empty one ... *)
FlushSwap ==
  /\ network = "connecting"
  /\ pending' = buffer
  /\ buffer' = AfterSwap
  /\ network' = "flushing"
  /\ UNCHANGED <<published, inPublish, connected, wire, received, dropped,
                 outages, overflowed, severed>>

(* ... and publishes what was in it, one message after another. *)
Bug_Flushed == Len(pending) <= 1
Flushed == pending = <<>>

FlushOne ==
  /\ network = "flushing"
  /\ IF Flushed
     THEN network' = "online" /\ UNCHANGED <<pending, wire>>
     ELSE /\ wire' = Append(wire, Head(pending))
          /\ pending' = Tail(pending)
          /\ UNCHANGED network
  /\ UNCHANGED <<published, inPublish, connected, buffer, received, dropped,
                 outages, overflowed, severed>>

(* The socket is closed; QoS 0 messages not yet on their way are gone. *)
Disconnect ==
  /\ network = "online"
  /\ outages < MaxOutages
  /\ outages' = outages + 1
  /\ network' = "closing"
  /\ \E kept \in 0..Len(wire) :
       /\ wire' = SubSeq(wire, 1, kept)
       /\ severed' = severed \cup Elements(SubSeq(wire, kept + 1, Len(wire)))
  /\ UNCHANGED <<published, inPublish, connected, buffer, pending, received,
                 dropped, overflowed>>

OnDisconnect ==
  /\ network = "closing"
  /\ network' = "offline"
  /\ connected' = FALSE
  /\ UNCHANGED <<published, inPublish, buffer, pending, wire, received, dropped,
                 outages, overflowed, severed>>

(* The broker receives the messages of a connection in order. *)
Deliver ==
  /\ wire # <<>>
  /\ LET m == Head(wire)
     IN received' = [received EXCEPT ![m[1]] = Append(@, m)]
  /\ wire' = Tail(wire)
  /\ UNCHANGED <<published, inPublish, connected, network, buffer, pending,
                 dropped, outages, overflowed, severed>>

-------------------------------------------------------------------------------
Init ==
  /\ published = [p \in Publishers |-> 0]
  /\ inPublish = [p \in Publishers |-> "out"]
  /\ connected = FALSE
  /\ network = "offline"
  /\ buffer = <<>> /\ pending = <<>> /\ wire = <<>>
  /\ received = [p \in Publishers |-> <<>>]
  /\ dropped = 0
  /\ outages = 0
  /\ overflowed = {} /\ severed = {}

Next ==
  \/ \E p \in Publishers : Publish(p) \/ Send(p) \/ Store(p)
  \/ OnConnect
  \/ FlushSwap
  \/ FlushOne
  \/ Disconnect
  \/ OnDisconnect
  \/ Deliver

Spec == Init /\ [][Next]_vars

(* Threads run, paho reconnects for ever, and a broker that is reachable   *)
(* takes what is on the wire.  Nobody has to publish, and the connection   *)
(* need not be lost.                                                       *)
Fairness ==
  /\ \A p \in Publishers : WF_vars(Send(p)) /\ WF_vars(Store(p))
  /\ WF_vars(OnConnect)
  /\ WF_vars(FlushSwap)
  /\ WF_vars(FlushOne)
  /\ WF_vars(OnDisconnect)
  /\ WF_vars(Deliver)

FairSpec == Spec /\ Fairness

-------------------------------------------------------------------------------
TypeOK ==
  /\ published \in [Publishers -> 0..MaxMessages]
  /\ inPublish \in [Publishers -> {"out", "send", "store"}]
  /\ \A p \in Publishers : inPublish[p] # "out" => published[p] > 0
  /\ connected \in BOOLEAN
  /\ network \in {"offline", "connecting", "flushing", "online", "closing"}
  /\ buffer \in Seq(Messages) /\ Len(buffer) <= BufferDepth
  /\ pending \in Seq(Messages)
  /\ wire \in Seq(Messages)
  /\ received \in [Publishers -> Seq(Messages)]
  /\ dropped \in Nat
  /\ outages \in 0..MaxOutages
  /\ overflowed \subseteq Messages
  /\ severed \subseteq Messages

Offered == {m \in Messages : m[2] <= published[m[1]]}
Received == UNION {Elements(received[p]) : p \in Publishers}
OnTheWay == InHand \cup Elements(buffer) \cup Elements(pending) \cup Elements(wire)

(* A loss is never silent (bus.py:17-20): a message that was published is  *)
(* on its way, has arrived, was lost with the connection, or is one of the *)
(* messages the dropped counter counts.                                    *)
NothingVanishes ==
  /\ Offered = OnTheWay \cup Received \cup overflowed \cup severed
  /\ dropped = Cardinality(overflowed)

(* At most once: the outbox implements the lossy channel. *)
Channel == INSTANCE LossyChannel
  WITH Topics <- Publishers, offered <- Offered, arrived <- received,
       lost <- overflowed \cup severed
ImplementsChannel == Channel!Spec

-------------------------------------------------------------------------------
(* bus.py:17-20: "This client buffers while disconnected and republishes   *)
(* in order when the broker returns".  In the order of publication: no     *)
(* topic goes back to an older message.                                    *)
RepublishedInOrder ==
  \A p \in Publishers : \A i, j \in DOMAIN received[p] :
    i < j => ~Older(received[p][j], received[p][i])

(* The same sentence: once the broker has returned, and stays, nothing is  *)
(* left in the buffer.                                                     *)
BufferIsRepublished == (connected /\ buffer # <<>>) ~> (~connected \/ buffer = <<>>)
===============================================================================
