-------------------------------- MODULE CaenLink --------------------------------
(***************************************************************************)
(* Which supply is behind which port (devices/caen.py, CaenService, with   *)
(* devices/serial_id.py).                                                  *)
(*                                                                         *)
(* The supplies look alike on the bus; a port is found by asking who is on *)
(* it (resolve), and then opened again to be read (_readers).  The main    *)
(* loop counts the cycles in which a supply answered nothing, and relinks: *)
(* it closes every port, and looks for each supply again.  Meanwhile hands *)
(* move cables, and the network thread carries out a command on a reader   *)
(* it took before.  A supply is named after the board that belongs to it.  *)
(***************************************************************************)
EXTENDS Naturals, FiniteSets

CONSTANTS
  Supplies,      \* the ids in devices.yaml, and the boards with these serials
  Ports,
  RelinkWait,    \* ticks between two relinks that nobody forces (10 s)
  MaxMoves,      \* bound: cables pulled out or put in
  MaxGlitches,   \* bound: cycles or questions a supply leaves unanswered
  MaxCommands    \* bound: commands from operators

Nobody == "nobody"
NoPort == "none"

LinkAssumption == /\ {RelinkWait, MaxMoves, MaxGlitches, MaxCommands} \subseteq Nat
                  /\ IsFiniteSet(Supplies)
                  /\ Nobody \notin Supplies /\ NoPort \notin Ports

Closed == [port |-> NoPort, open |-> FALSE]
ReadsToRelink == 2     \* caen.py 718, and service.py for the whole service

VARIABLES
  plugged,   \* the board at each port, or Nobody
  readers,   \* _readers: per supply the port it holds, or Closed
  down,      \* _link_down: cycles without an answer, at most ReadsToRelink
  failures,  \* _failures: cycles in which no supply answered, likewise
  wait,      \* ticks until _next_relink
  loop,      \* the main loop: where it is, for which supply, and what it found
  command,   \* the network thread: where it is, with which reader, for whom
  moves, glitches, commands,
  crossed    \* history: supplies whose cable was pulled between being asked and opened

bounds == <<moves, glitches, commands>>
vars == <<plugged, readers, down, failures, wait, loop, command, bounds, crossed>>

AtRest == [at |-> "idle"]
Resting(step) == [at |-> step, todo |-> {}, found |-> NoPort, for |-> Nobody]

(* What is answered through an open port: a handle dies with its cable.    *)
BoardAt(reader) == IF reader.open THEN plugged[reader.port] ELSE Nobody

-------------------------------------------------------------------------------
(* Hands: the handles on a port whose cable is pulled are dead for good,   *)
(* and who was asked there may not be there when it is opened.             *)
AskedAt(p) ==
  {d \in Supplies : \/ loop.at = "open" /\ loop.for = d /\ loop.found = p
                    \/ loop.at = "bind" /\ readers[d].port = p}
Dead(reader, p) == IF reader.port = p THEN [reader EXCEPT !.open = FALSE] ELSE reader

Pull(p) ==
  /\ moves < MaxMoves /\ plugged[p] # Nobody
  /\ plugged' = [plugged EXCEPT ![p] = Nobody]
  /\ readers' = [d \in Supplies |-> Dead(readers[d], p)]
  /\ command' = IF command # AtRest /\ command.reader.port = p
                  THEN [command EXCEPT !.reader = Dead(@, p), !.undisturbed = FALSE]
                  ELSE command
  /\ crossed' = crossed \cup AskedAt(p)
  /\ moves' = moves + 1
  /\ UNCHANGED <<down, failures, wait, loop, glitches, commands>>

Plug(b, p) ==
  /\ moves < MaxMoves /\ plugged[p] = Nobody /\ \A q \in Ports : plugged[q] # b
  /\ plugged' = [plugged EXCEPT ![p] = b]
  /\ moves' = moves + 1
  /\ UNCHANGED <<readers, down, failures, wait, loop, command, glitches, commands, crossed>>

-------------------------------------------------------------------------------
(* The main loop: read.  No answer at all is an exception, after the       *)
(* second of which the service reconnects, whatever the time; a supply     *)
(* that left two cycles unanswered is looked for when the time has come.   *)
Answering(silent) == {d \in Supplies : BoardAt(readers[d]) # Nobody} \ silent
Silenced == {{}} \cup IF glitches < MaxGlitches THEN {{d} : d \in Supplies} ELSE {}

More(n) == IF n < ReadsToRelink THEN n + 1 ELSE n
LinkDown(alive) == [d \in Supplies |-> IF d \in alive THEN 0 ELSE More(down[d])]

Bug_Wanted(alive) ==
  \/ alive = {} /\ More(failures) = ReadsToRelink
Wanted(alive) ==
  \/ alive = {} /\ More(failures) = ReadsToRelink
  \/ alive # {} /\ wait = 0 /\ \E d \in Supplies : LinkDown(alive)[d] = ReadsToRelink

Read ==
  /\ loop.at = "read"
  /\ \E silent \in Silenced :
       LET alive == Answering(silent) IN
       /\ glitches' = glitches + Cardinality(silent)
       /\ down' = IF alive = {} THEN down ELSE LinkDown(alive)
       /\ failures' = IF alive = {} THEN More(failures) ELSE 0
       /\ loop' = Resting(IF Wanted(alive) THEN "close" ELSE "sleep")
  /\ UNCHANGED <<plugged, readers, wait, command, moves, commands, crossed>>

(* _relink: every port is closed first, under whoever uses it ...          *)
CloseAll ==
  /\ loop.at = "close"
  /\ readers' = [d \in Supplies |-> Closed]
  /\ command' = IF command = AtRest THEN command ELSE [command EXCEPT !.reader.open = FALSE]
  /\ wait' = RelinkWait
  /\ loop' = [Resting("find") EXCEPT !.todo = Supplies]
  /\ crossed' = {}
  /\ UNCHANGED <<plugged, down, failures, bounds>>

(* ... and each supply asked for on every port that can be opened: the     *)
(* port where it said its name, or none.                                   *)
Taken == {readers[d].port : d \in Supplies}
Bug_WhereIs(d) == {q \in Ports \ Taken : plugged[q] # Nobody}
WhereIs(d) == {q \in Ports \ Taken : plugged[q] = d}

Find(d) ==
  /\ loop.at = "find" /\ d \in loop.todo
  /\ \/ \E q \in WhereIs(d) :
          /\ loop' = [at |-> "open", todo |-> loop.todo \ {d}, found |-> q, for |-> d]
          /\ UNCHANGED glitches
     \/ /\ WhereIs(d) = {} \/ glitches < MaxGlitches
        /\ loop' = [loop EXCEPT !.todo = @ \ {d}]
        /\ glitches' = glitches + IF WhereIs(d) = {} THEN 0 ELSE 1
  /\ UNCHANGED <<plugged, readers, down, failures, wait, command, moves, commands, crossed>>

(* The port is opened again to be kept; nobody is asked again.             *)
Open ==
  /\ loop.at = "open"
  /\ IF plugged[loop.found] = Nobody
     THEN UNCHANGED <<readers, down>>
     ELSE /\ readers' = [readers EXCEPT ![loop.for] = [port |-> loop.found, open |-> TRUE]]
          /\ down' = [down EXCEPT ![loop.for] = 0]
  /\ loop' = [Resting("find") EXCEPT !.todo = loop.todo]
  /\ UNCHANGED <<plugged, failures, wait, command, bounds, crossed>>

Relinked ==
  /\ loop.at = "find" /\ loop.todo = {}
  /\ failures' = IF \E d \in Supplies : readers[d] # Closed THEN 0 ELSE failures
  /\ loop' = Resting("sleep")
  /\ UNCHANGED <<plugged, readers, down, wait, command, bounds, crossed>>

Sleep ==
  /\ loop.at = "sleep"
  /\ wait' = IF wait > 0 THEN wait - 1 ELSE 0
  /\ loop' = Resting("read")
  /\ UNCHANGED <<plugged, readers, down, failures, command, bounds, crossed>>

-------------------------------------------------------------------------------
(* At the start every supply must be found before any is opened, and every *)
(* port opened; otherwise the service ends (verify_identity).              *)
Identify ==
  /\ loop.at = "start"
  /\ \E silent \in Silenced :
       LET found == \A d \in Supplies : WhereIs(d) # {} /\ d \notin silent IN
       /\ glitches' = glitches + Cardinality(silent)
       /\ loop' = Resting(IF found THEN "bind" ELSE "refused")
       /\ readers' = IF found THEN [d \in Supplies |-> [port |-> CHOOSE q \in WhereIs(d) : TRUE,
                                                       open |-> FALSE]]
                     ELSE readers
  /\ UNCHANGED <<plugged, down, failures, wait, command, moves, commands, crossed>>

Bind ==
  /\ loop.at = "bind"
  /\ LET there == \A d \in Supplies : plugged[readers[d].port] # Nobody IN
     /\ loop' = Resting(IF there THEN "read" ELSE "refused")
     /\ readers' = IF there THEN [d \in Supplies |-> [readers[d] EXCEPT !.open = TRUE]]
                            ELSE [d \in Supplies |-> Closed]
  /\ UNCHANGED <<plugged, down, failures, wait, command, bounds, crossed>>

(* Somebody starts it again. *)
StartAgain ==
  /\ loop.at = "refused"
  /\ loop' = Resting("start")
  /\ crossed' = {}
  /\ UNCHANGED <<plugged, readers, down, failures, wait, command, bounds>>

-------------------------------------------------------------------------------
Up == loop.at \notin {"start", "bind", "refused"}

(* The network thread: a command takes the reader of its supply and holds  *)
(* it through the write and the read back (_handle_vset), whatever the     *)
(* main loop does to it meanwhile.  Without a reader it is refused.        *)
Take(d) ==
  /\ Up
  /\ command = AtRest /\ commands < MaxCommands
  /\ commands' = commands + 1
  /\ command' = IF readers[d] = Closed THEN AtRest
                ELSE [at |-> "write", supply |-> d, reader |-> readers[d],
                      wrote |-> Nobody, raced |-> d \in crossed,
                      undisturbed |-> readers[d].open]
  /\ UNCHANGED <<plugged, readers, down, failures, wait, loop, moves, glitches, crossed>>

Write ==
  /\ command.at = "write"
  /\ command' = IF BoardAt(command.reader) = Nobody
                  THEN [command EXCEPT !.at = "failed"]
                  ELSE [command EXCEPT !.at = "read back", !.wrote = BoardAt(command.reader)]
  /\ UNCHANGED <<plugged, readers, down, failures, wait, loop, bounds, crossed>>

ReadBack ==
  /\ command.at = "read back"
  /\ command' = [command EXCEPT !.at = IF BoardAt(command.reader) = Nobody
                                         THEN "failed" ELSE "ok"]
  /\ UNCHANGED <<plugged, readers, down, failures, wait, loop, bounds, crossed>>

Answer ==
  /\ command.at \in {"ok", "failed"}
  /\ command' = AtRest
  /\ UNCHANGED <<plugged, readers, down, failures, wait, loop, bounds, crossed>>

-------------------------------------------------------------------------------
Init ==
  /\ plugged \in [Ports -> Supplies \cup {Nobody}]
  /\ \A d \in Supplies : Cardinality({p \in Ports : plugged[p] = d}) = 1
  /\ readers = [d \in Supplies |-> Closed]
  /\ down = [d \in Supplies |-> 0]
  /\ failures = 0 /\ wait = 0
  /\ loop = Resting("start")
  /\ command = AtRest
  /\ moves = 0 /\ glitches = 0 /\ commands = 0
  /\ crossed = {}

Loop ==
  \/ Read \/ CloseAll \/ (\E d \in Supplies : Find(d)) \/ Open \/ Relinked \/ Sleep
  \/ Identify \/ Bind
Network == (\E d \in Supplies : Take(d)) \/ Write \/ ReadBack \/ Answer
Hands == StartAgain \/ \E p \in Ports : Pull(p) \/ \E b \in Supplies : Plug(b, p)

Next == Loop \/ Network \/ Hands

Spec == Init /\ [][Next]_vars

(* The loop runs; nobody has to move a cable or send a command. *)
FairSpec == Spec /\ WF_vars(Loop)

-------------------------------------------------------------------------------
\* Properties

TypeOK ==
  /\ plugged \in [Ports -> Supplies \cup {Nobody}]
  /\ readers \in [Supplies -> [port : Ports \cup {NoPort}, open : BOOLEAN]]
  /\ down \in [Supplies -> 0..ReadsToRelink]
  /\ failures \in 0..ReadsToRelink /\ wait \in 0..RelinkWait
  /\ crossed \subseteq Supplies

(* A supply is read and written under its own name, however cables are     *)
(* pulled and swapped and whenever the link is rebuilt (serial_id.py:4-7), *)
(* unless the cable was moved after the board there was asked who it is    *)
(* and before its port was opened to stay (_relink, verify_identity).      *)
WrongOnlyByARace ==
  /\ \A d \in Supplies \ crossed : BoardAt(readers[d]) \in {d, Nobody}
  /\ command # AtRest /\ ~command.raced =>
       command.wrote \in {command.supply, Nobody}

(* A supply that is connected is read again, also while the other one is   *)
(* missing (the failure of 17 September 2026, tests/test_caen_link.py).    *)
Connected(d) == \E p \in Ports : plugged[p] = d
PluggedIsRead ==
  \A d \in Supplies :
    <>[](Connected(d) /\ Up /\ crossed = {})
      => []<>(BoardAt(readers[d]) = d)

(* Not kept by the code (README, Divergences): swapped cables are          *)
(* harmless, and a supply that is missing costs the other one nothing.     *)
SwapIsHarmless == \A d \in Supplies : BoardAt(readers[d]) \in {d, Nobody}
TheOtherPaysNothing == command # AtRest /\ command.at = "failed" => ~command.undisturbed
===============================================================================
