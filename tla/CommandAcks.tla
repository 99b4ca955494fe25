------------------------------ MODULE CommandAcks ------------------------------
(***************************************************************************)
(* Commands and their acknowledgements (bus.py AckInbox and                *)
(* CommandSession.send; api/state.py SystemState.command).  Every answer   *)
(* of a kind comes on one shared topic, which every process subscribes to; *)
(* the web UI keeps one inbox for all its request threads, a CLI one of    *)
(* its own.  An inbox is used under its lock, so open, deliver and claim   *)
(* are atomic, but a command is open before it is published.               *)
(*                                                                         *)
(* A command is <<client, number, target>>; its acknowledgement is the     *)
(* same tuple, of which only the target is on the wire.  Messages overtake *)
(* each other (BusOutbox) and are lost, so they travel in sets.            *)
(***************************************************************************)
EXTENDS Naturals, Sequences, FiniteSets

CONSTANTS
  Clients,      \* threads that send commands
  Inboxes,
  HomeOf,       \* the inbox of each client
  Targets,      \* what `match` tells apart: HV channels, loop outputs
  Depth,        \* depth of an inbox
  MaxCommands   \* bound: commands of each client

CommandAssumption ==
  /\ HomeOf \in [Clients -> Inboxes]
  /\ Depth \in Nat \ {0}
  /\ MaxCommands \in [Clients -> Nat]

Commands == UNION {{c} \X (1..MaxCommands[c]) \X Targets : c \in Clients}
TargetOf(m) == m[3]
NoCommand == <<>>

VARIABLES
  begun,      \* how many commands each client has begun
  current,    \* the command each client is busy with, or NoCommand
  published,  \* the clients whose current command has been published
  requests,   \* commands on the way to the service
  answers,    \* per inbox, acknowledgements on the way to it
  queue,      \* per inbox, _acks
  handled,    \* history: commands the service carried out
  told,       \* history: <<command, acknowledgement it returned>>
  givenUp     \* history: commands that were reported as not answered

vars == <<begun, current, published, requests, answers, queue, handled, told, givenUp>>
history == <<handled, told, givenUp>>

Elements(s) == {s[i] : i \in DOMAIN s}
Idle(c) == current[c] = NoCommand

Bug_Matches(ack, cmd) == TRUE
Matches(ack, cmd) == TargetOf(ack) = TargetOf(cmd)

-------------------------------------------------------------------------------
(* open discards what is stale for this command, and only that ... *)
Without(q, discarded) ==
  LET kept[n \in 0..Len(q)] ==
        IF n = 0 THEN <<>>
        ELSE IF q[n] \in discarded THEN kept[n - 1] ELSE Append(kept[n - 1], q[n])
  IN kept[Len(q)]

Opened(q, cmd) == Without(q, {a \in Elements(q) : Matches(a, cmd)})

Open(c, t) ==
  LET cmd == <<c, begun[c] + 1, t>>
      i == HomeOf[c]
  IN /\ Idle(c)
     /\ begun[c] < MaxCommands[c]
     /\ begun' = [begun EXCEPT ![c] = @ + 1]
     /\ current' = [current EXCEPT ![c] = cmd]
     /\ queue' = [queue EXCEPT ![i] = Opened(@, cmd)]
     /\ UNCHANGED <<published, requests, answers, handled, told, givenUp>>

(* ... and then the command is published. *)
Publish(c) ==
  /\ ~Idle(c) /\ c \notin published
  /\ published' = published \cup {c}
  /\ requests' = requests \cup {current[c]}
  /\ UNCHANGED <<begun, current, answers, queue, history>>

Waits(c) == ~Idle(c) /\ c \in published

Done(c) ==
  /\ current' = [current EXCEPT ![c] = NoCommand]
  /\ published' = published \ {c}

(* The poll takes the first acknowledgement that matches ... *)
Fitting(c) == {n \in DOMAIN queue[HomeOf[c]] : Matches(queue[HomeOf[c]][n], current[c])}
First(c) == CHOOSE n \in Fitting(c) : \A k \in Fitting(c) : n <= k
Removed(q, n) == SubSeq(q, 1, n - 1) \o SubSeq(q, n + 1, Len(q))

Claim(c) ==
  /\ Waits(c)
  /\ Fitting(c) # {}
  /\ queue' = [queue EXCEPT ![HomeOf[c]] = Removed(@, First(c))]
  /\ told' = told \cup {<<current[c], queue[HomeOf[c]][First(c)]>>}
  /\ Done(c)
  /\ UNCHANGED <<begun, requests, answers, handled, givenUp>>

(* ... and gives up when there is none and the deadline has passed. *)
TimeOut(c) ==
  /\ Waits(c)
  /\ Fitting(c) = {}
  /\ givenUp' = givenUp \cup {current[c]}
  /\ Done(c)
  /\ UNCHANGED <<begun, requests, answers, queue, handled, told>>

-------------------------------------------------------------------------------
(* The service carries out one command at a time and answers it. *)
Handle(cmd) ==
  /\ cmd \in requests
  /\ requests' = requests \ {cmd}
  /\ handled' = handled \cup {cmd}
  /\ answers' = [i \in Inboxes |-> answers[i] \cup {cmd}]
  /\ UNCHANGED <<begun, current, published, queue, told, givenUp>>

Pushed(q, ack) == Append(IF Len(q) = Depth THEN Tail(q) ELSE q, ack)

Deliver(i, ack) ==
  /\ ack \in answers[i]
  /\ answers' = [answers EXCEPT ![i] = @ \ {ack}]
  /\ queue' = [queue EXCEPT ![i] = Pushed(@, ack)]
  /\ UNCHANGED <<begun, current, published, requests, handled, told, givenUp>>

(* QoS 0: a subscriber that is not there misses the message. *)
LoseRequest(cmd) ==
  /\ cmd \in requests
  /\ requests' = requests \ {cmd}
  /\ UNCHANGED <<begun, current, published, answers, queue, history>>

LoseAnswer(i, ack) ==
  /\ ack \in answers[i]
  /\ answers' = [answers EXCEPT ![i] = @ \ {ack}]
  /\ UNCHANGED <<begun, current, published, requests, queue, history>>

-------------------------------------------------------------------------------
Init ==
  /\ begun = [c \in Clients |-> 0]
  /\ current = [c \in Clients |-> NoCommand]
  /\ published = {}
  /\ requests = {}
  /\ answers = [i \in Inboxes |-> {}]
  /\ queue = [i \in Inboxes |-> <<>>]
  /\ handled = {}
  /\ told = {}
  /\ givenUp = {}

Next ==
  \/ \E c \in Clients :
       \/ \E t \in Targets : Open(c, t)
       \/ Publish(c) \/ Claim(c) \/ TimeOut(c)
  \/ \E cmd \in requests : Handle(cmd) \/ LoseRequest(cmd)
  \/ \E i \in Inboxes : \E ack \in answers[i] : Deliver(i, ack) \/ LoseAnswer(i, ack)

Spec == Init /\ [][Next]_vars

-------------------------------------------------------------------------------
TypeOK ==
  /\ \A c \in Clients : begun[c] \in 0..MaxCommands[c]
  /\ \A c \in Clients : current[c] \in Commands \cup {NoCommand}
  /\ published \subseteq {c \in Clients : ~Idle(c)}
  /\ requests \subseteq Commands
  /\ handled \subseteq Commands
  /\ answers \in [Inboxes -> SUBSET handled]
  /\ \A i \in Inboxes : queue[i] \in Seq(handled) /\ Len(queue[i]) <= Depth
  /\ told \subseteq Commands \X handled

(* Commands begun by somebody else for the same target, and earlier ones   *)
(* that were given up by the same client.                                  *)
Begun == {current[c] : c \in {d \in Clients : ~Idle(d)}} \cup givenUp \cup {p[1] : p \in told}
Rivals(cmd) == {m \in Begun : m[1] # cmd[1] /\ TargetOf(m) = TargetOf(cmd)}
Abandoned(cmd) ==
  {m \in givenUp : m[1] = cmd[1] /\ TargetOf(m) = TargetOf(cmd) /\ m[2] < cmd[2]}

(* The boundary of "hands each to the command that asked" (bus.py:337): a  *)
(* command that gets the answer of another one has a rival for its target, *)
(* or its client gave up waiting for an earlier command for that target.   *)
(* It need not be the one whose answer it gets: once one answer is late,   *)
(* each command that follows may get the answer of the one before.         *)
MixUpsHaveACause ==
  \A p \in told : p[1] # p[2] =>
    /\ TargetOf(p[1]) = TargetOf(p[2])
    /\ Rivals(p[1]) # {} \/ Abandoned(p[1]) # {}

(* An inbox hands an acknowledgement to one command only.                  *)
HandedToOne ==
  \A p, q \in told : p[2] = q[2] /\ HomeOf[p[1][1]] = HomeOf[q[1][1]] => p = q

-------------------------------------------------------------------------------
(* bus.py:337: "Collects acknowledgements and hands each to the command    *)
(* that asked": also to one client that sends one command at a time.       *)
HandedToWhoAsked == \A p \in told : p[1][1] = p[2][1] => p[1] = p[2]

(* state.py:315-316: a command that is not answered in time is reported as *)
(* "nothing was changed".                                                  *)
NotAnsweredMeansNotDone == givenUp \cap handled = {}
===============================================================================
