------------------------------ MODULE CdaqReader ------------------------------
(***************************************************************************)
(* How the cDAQ service reads its modules (devices/cdaq.py): the fast ones *)
(* in the service's loop, each slow one in a thread of its own, whose      *)
(* readings wait under a lock for the loop's next read; and how the tasks  *)
(* are opened and closed around the threads.                               *)
(*                                                                         *)
(* A reading is its number and whether it is one: a module that fails      *)
(* hands over errors for its own channels.                                 *)
(***************************************************************************)
EXTENDS Naturals, Sequences, FiniteSets

CONSTANTS
  Slow,          \* the modules read in the background
  Fast,          \* those read in the loop
  Patience,      \* ticks the service waits for a thread when it stops (30 s)
  MaxReadings    \* bound: background reads, and ticks a read may last

ReaderAssumption == /\ IsFiniteSet(Slow \cup Fast) /\ Slow \cap Fast = {}
                    /\ {Patience, MaxReadings} \subseteq Nat

Modules == Slow \cup Fast

VARIABLES
  service,     \* "opening", "running", "stopping", "closing", "stopped", "refused"
  tasks,       \* the modules whose DAQmx task is open
  toDo,        \* modules left to open, to read, to join or to close
  thread,      \* each background thread: where it is, the reading in hand, ticks reading
  stop,        \* _bg_stop
  lock,        \* _bg_lock: "free", or who holds it
  pending,     \* _bg_pending
  reader,      \* the loop: "rest", "read", "take", "swap", "hand"
  inHand,      \* what the loop took
  failing,     \* modules that fail to read
  waited,      \* ticks waited for the thread that is joined
  made, handed, torn    \* history: readings made, readings in what read() returned,
                        \* modules whose task was closed while their thread read

loop == <<reader, inHand, toDo>>
vars == <<service, tasks, thread, stop, lock, pending, loop, failing, waited, made, handed, torn>>

Reading(m, n, ok) == [module |-> m, number |-> n, ok |-> ok]
Readings == [module : Slow, number : 1..MaxReadings, ok : BOOLEAN]
NoReading == Reading("none", 0, FALSE)

TypeOK ==
  /\ service \in {"opening", "running", "stopping", "closing", "stopped", "refused"}
  /\ tasks \subseteq Modules /\ toDo \subseteq Modules
  /\ thread \in [Slow -> [at : {"none", "rest", "read", "got", "end"},
                          reading : Readings \cup {NoReading}, ticks : 0..Patience]]
  /\ stop \in BOOLEAN /\ lock \in Slow \cup {"free", "loop"}
  /\ pending \in Seq(Readings) /\ inHand \in Seq(Readings)
  /\ reader \in {"rest", "read", "swap", "hand"}
  /\ failing \subseteq Modules /\ waited \in 0..Patience /\ torn \subseteq Slow
  /\ made \in Seq(Readings) /\ handed \in Seq(Readings)

---------------------------------------------------------------------------
\* Opening: one module after another, the threads when all are open

OpenTask(m) ==
  /\ service = "opening" /\ m \in toDo
  /\ tasks' = tasks \cup {m} /\ toDo' = toDo \ {m}
  /\ UNCHANGED <<service, thread, stop, lock, pending, reader, inHand, failing, waited, made,
                 handed, torn>>

(* Another chassis or module than devices.yaml names, one in use by        *)
(* another process, or not to be configured: what is open is closed and    *)
(* the service refuses to start.                                           *)
OpenFails ==
  /\ service = "opening" /\ toDo # {}
  /\ service' = "refused" /\ tasks' = {} /\ toDo' = {} /\ stop' = TRUE
  /\ UNCHANGED <<thread, lock, pending, reader, inHand, failing, waited, made, handed, torn>>

StartBackground ==
  /\ service = "opening" /\ toDo = {}
  /\ service' = "running" /\ stop' = FALSE
  /\ thread' = [m \in Slow |-> [thread[m] EXCEPT !.at = "rest"]]
  /\ UNCHANGED <<tasks, lock, pending, loop, failing, waited, made, handed, torn>>

---------------------------------------------------------------------------
\* A background thread

ThreadStep == UNCHANGED <<service, tasks, stop, loop, failing, waited, handed, torn>>

BackgroundRead(m) ==
  /\ thread[m].at = "rest" /\ ~stop /\ Len(made) < MaxReadings
  /\ thread' = [thread EXCEPT ![m].at = "read"]
  /\ UNCHANGED <<lock, pending, made>> /\ ThreadStep

(* The read returns, or raises - as it does when the task is gone.         *)
GotReading(m) ==
  /\ thread[m].at = "read" /\ Len(made) < MaxReadings
  /\ LET r == Reading(m, Len(made) + 1, m \notin failing /\ m \in tasks)
     IN /\ thread' = [thread EXCEPT ![m] = [at |-> "got", reading |-> r, ticks |-> 0]]
        /\ made' = Append(made, r)
  /\ UNCHANGED <<lock, pending>> /\ ThreadStep

Bug_LockFree == TRUE
LockFree == lock = "free"

HandIn(m) ==
  /\ thread[m].at = "got" /\ LockFree
  /\ pending' = Append(pending, thread[m].reading)
  /\ thread' = [thread EXCEPT ![m].at = "rest", ![m].reading = NoReading]
  /\ UNCHANGED <<lock, made>> /\ ThreadStep

ThreadEnds(m) ==
  /\ thread[m].at = "rest" /\ stop /\ thread' = [thread EXCEPT ![m].at = "end"]
  /\ UNCHANGED <<lock, pending, made>> /\ ThreadStep

---------------------------------------------------------------------------
\* The loop's read()

LoopStep == UNCHANGED <<service, tasks, thread, stop, failing, waited, made, torn>>

StartRead ==
  /\ service = "running" /\ reader = "rest" /\ reader' = "read" /\ toDo' = Fast
  /\ UNCHANGED <<inHand, lock, pending, handed>> /\ LoopStep

(* A module of the loop that fails ends the read: what the threads handed  *)
(* in waits for the next one.                                              *)
ReadFast(m) ==
  /\ reader = "read" /\ m \in toDo
  /\ IF m \in failing THEN reader' = "rest" /\ toDo' = {}
                      ELSE reader' = reader /\ toDo' = toDo \ {m}
  /\ UNCHANGED <<inHand, lock, pending, handed>> /\ LoopStep

(* _take_background: out, then a new list, under the lock.                 *)
TakeBackground ==
  /\ reader = "read" /\ toDo = {} /\ lock = "free" /\ lock' = "loop"
  /\ inHand' = pending /\ reader' = "swap"
  /\ UNCHANGED <<toDo, pending, handed>> /\ LoopStep

SwapBackground ==
  /\ reader = "swap" /\ pending' = <<>> /\ lock' = "free" /\ reader' = "hand"
  /\ UNCHANGED <<inHand, toDo, handed>> /\ LoopStep

EndRead ==
  /\ reader = "hand" /\ handed' = handed \o inHand /\ inHand' = <<>> /\ reader' = "rest"
  /\ UNCHANGED <<toDo, lock, pending>> /\ LoopStep

---------------------------------------------------------------------------
\* Closing: the threads first, each waited for, then the tasks

Bug_ToJoin == {}
ToJoin == {m \in Slow : thread[m].at # "none"}

StopService ==
  /\ service = "running" /\ reader = "rest"
  /\ service' = "stopping" /\ stop' = TRUE /\ toDo' = ToJoin /\ waited' = 0
  /\ UNCHANGED <<tasks, thread, lock, pending, reader, inHand, failing, made, handed, torn>>

Join(m) ==
  /\ service = "stopping" /\ m \in toDo
  /\ thread[m].at = "end" \/ waited = Patience
  /\ toDo' = toDo \ {m} /\ waited' = 0
  /\ UNCHANGED <<service, tasks, thread, stop, lock, pending, reader, inHand, failing, made,
                 handed, torn>>

CloseTasks ==
  /\ service = "stopping" /\ toDo = {}
  /\ service' = "stopped" /\ tasks' = {}
  /\ torn' = {m \in Slow : thread[m].at = "read" /\ thread[m].ticks < Patience}
  /\ UNCHANGED <<thread, stop, lock, pending, loop, failing, waited, made, handed>>

---------------------------------------------------------------------------
\* Time, and the hardware

(* What does not wait for the hardware takes no time.                      *)
Tick ==
  /\ service # "opening" /\ \E m \in Slow : thread[m].at = "read"
  /\ thread' = [m \in Slow |-> IF thread[m].at = "read" /\ thread[m].ticks < Patience
                                 THEN [thread[m] EXCEPT !.ticks = @ + 1] ELSE thread[m]]
  /\ service = "stopping" => toDo # {} /\ waited < Patience
                             /\ \A m \in toDo : thread[m].at = "read"
  /\ waited' = IF service = "stopping" THEN waited + 1 ELSE waited
  /\ UNCHANGED <<service, tasks, stop, lock, pending, loop, failing, made, handed, torn>>

Fail(m) ==
  /\ failing' = IF m \in failing THEN failing \ {m} ELSE failing \cup {m}
  /\ UNCHANGED <<service, tasks, thread, stop, lock, pending, loop, waited, made, handed, torn>>

---------------------------------------------------------------------------
Init ==
  /\ service = "opening" /\ tasks = {} /\ toDo = Modules /\ stop = FALSE /\ lock = "free"
  /\ thread = [m \in Slow |-> [at |-> "none", reading |-> NoReading, ticks |-> 0]]
  /\ pending = <<>> /\ reader = "rest" /\ inHand = <<>> /\ failing = {} /\ waited = 0
  /\ made = <<>> /\ handed = <<>> /\ torn = {}

Background(m) == BackgroundRead(m) \/ GotReading(m) \/ HandIn(m) \/ ThreadEnds(m)
Read == StartRead \/ TakeBackground \/ SwapBackground \/ EndRead \/ \E m \in Fast : ReadFast(m)
Open == OpenFails \/ StartBackground \/ \E m \in Modules : OpenTask(m)
Close == StopService \/ CloseTasks \/ \E m \in Slow : Join(m)
Next == \/ Open \/ Read \/ Close \/ Tick \/ \E m \in Slow : Background(m)
        \/ \E m \in Modules : Fail(m)
Spec == Init /\ [][Next]_vars

---------------------------------------------------------------------------
\* Properties

Waiting(m) == IF thread[m].at = "got" THEN {thread[m].reading} ELSE {}
Elements(s) == {s[i] : i \in DOMAIN s}

(* Every reading of a background module is handed to one read() and to     *)
(* none twice: it is with its thread, in the list, in the loop's hand or   *)
(* handed over (_background_loop, _take_background).                       *)
HandedOnce ==
  LET before == IF reader = "swap" THEN handed ELSE handed \o inHand
  IN /\ Cardinality(Elements(before \o pending)) = Len(before \o pending)
     /\ Elements(made) = Elements(before \o pending) \cup UNION {Waiting(m) : m \in Slow}

(* "Stop the threads BEFORE their tasks are closed under them" (389): no   *)
(* task is closed in the middle of a read shorter than the time the         *)
(* service waits for it (_stop_background, _close_tasks).                  *)
ClosedUnderNobody == torn = {}
===============================================================================
