-------------------------------- MODULE RgaScan --------------------------------
(***************************************************************************)
(* Acquisitions of the residual gas analyser (devices/rga.py): started and *)
(* stopped by commands, collected by the service's loop, kept in           *)
(* pending.json, saved to a file and announced on xams/rga/saved.          *)
(*                                                                         *)
(* Two threads share the acquisition: the loop that reads (main) and the   *)
(* one that carries out commands (worker).  A scan is the acquisition the  *)
(* analyser took it for; its values play no part.                          *)
(***************************************************************************)
EXTENDS Naturals, Sequences

CONSTANTS
  MaxAcquisitions,   \* bound: acquisitions begun
  Count,             \* scans of an acquisition (the recipe's)
  MaxCommands,       \* bound: commands accepted
  MaxRestarts,       \* bound: crashes and stops of the service
  MaxTroubles        \* bound: failed requests, failed writes, odd scans

ScanAssumption ==
  /\ {MaxAcquisitions, Count} \subseteq Nat \ {0}
  /\ {MaxCommands, MaxRestarts, MaxTroubles} \subseteq Nat

Acquisitions == 1..MaxAcquisitions
None == 0

VARIABLES
  up,          \* the service runs
  acq,         \* _acq: the acquisition in memory, or None
  memory,      \* what memory holds of each acquisition begun
  young,       \* the one in memory was started less than 5 s ago
  main,        \* the loop: where it is, on which acquisition, how that ends
  worker,      \* the command thread: the same, and the scans it copied
  analyser,    \* the instrument: does it scan, what is left, what is unread
  pending,     \* pending.json
  unkept,      \* the last attempt to write pending.json failed
  files,       \* the measurement file of each acquisition
  announced,   \* the summaries published for each acquisition
  begun, commands, restarts, troubles     \* bounds

disk == <<pending, unkept, files>>
bounds == <<begun, commands, restarts, troubles>>
vars == <<up, acq, memory, young, main, worker, analyser, disk, announced, bounds>>

NoFile == [is |-> "none", scans |-> <<>>]
Whole(scans) == [is |-> "whole", scans |-> scans]
Partial == [is |-> "partial", scans |-> <<>>]
NoPending == [of |-> None, state |-> "none", scans |-> <<>>, saved |-> FALSE]
NotBegun == [state |-> "none", scans |-> <<>>, saved |-> FALSE]
Resting == [at |-> "rest", of |-> None, end |-> "none"]
Idle == [at |-> "idle", of |-> None, scans |-> <<>>]

TypeOK ==
  LET Scans == UNION {[1..n -> Acquisitions] : n \in 0..Count}
      State == {"none", "scanning", "done", "stopped", "failed"}
  IN /\ up \in BOOLEAN /\ acq \in Acquisitions \cup {None} /\ young \in BOOLEAN
     /\ memory \in [Acquisitions -> [state : State, scans : Scans, saved : BOOLEAN]]
     /\ main \in [at : {"rest", "ask", "publish", "finish", "persist"},
                  of : Acquisitions \cup {None}, end : State]
     /\ worker \in [at : {"idle", "stop", "finish", "persist", "start", "begin", "copy",
                          "write", "mark", "unlink", "announce"},
                    of : Acquisitions \cup {None}, scans : Scans]
     /\ pending \in [of : Acquisitions \cup {None}, state : State, scans : Scans,
                     saved : BOOLEAN]
     /\ unkept \in BOOLEAN
     /\ files \in [Acquisitions -> [is : {"none", "whole", "partial"}, scans : Scans]]

---------------------------------------------------------------------------
\* Shared helpers

InState(a, s) == a # None /\ memory[a].state = s
Scanning == InState(acq, "scanning")

Trouble == troubles < MaxTroubles /\ troubles' = troubles + 1
NoTrouble == UNCHANGED troubles

(* _persist: written beside and moved, so whole or not at all; a failure   *)
(* is only logged.                                                         *)
Persist(a) ==
  \/ /\ pending' = [of |-> a, state |-> memory[a].state, scans |-> memory[a].scans,
                    saved |-> memory[a].saved]
     /\ unkept' = FALSE /\ NoTrouble
  \/ unkept' = TRUE /\ Trouble /\ UNCHANGED pending

SetState(a, s) == memory' = [memory EXCEPT ![a].state = s]

---------------------------------------------------------------------------
\* The analyser

(* It ends a scan; the last one ends the measurement.                      *)
TakeScan ==
  /\ analyser.left > 0
  /\ analyser' = [analyser EXCEPT !.left = @ - 1, !.unread = Append(@, analyser.of)]
  /\ UNCHANGED <<up, acq, memory, young, main, worker, disk, announced, bounds>>

Stopped == [analyser EXCEPT !.left = 0]
SystemScanning == analyser.left > 0

(* Another client, or a trip, ends the measurement.                        *)
StoppedByOthers ==
  /\ SystemScanning /\ Trouble /\ analyser' = Stopped
  /\ UNCHANGED <<up, acq, memory, young, main, worker, disk, announced, begun, commands,
                 restarts>>

Grow == /\ young /\ young' = FALSE
        /\ UNCHANGED <<up, acq, memory, main, worker, analyser, disk, announced, bounds>>

---------------------------------------------------------------------------
\* The loop: _collect_scans, in the middle of read()

MainStep == up /\ UNCHANGED <<up, acq, young, worker, files, announced, begun, commands, restarts>>

CollectStart ==
  /\ main.at = "rest" /\ Scanning
  /\ main' = [at |-> "ask", of |-> acq, end |-> "none"]
  /\ UNCHANGED <<memory, analyser, pending, unkept>> /\ NoTrouble /\ MainStep

(* The analyser stopped before it took all scans.                          *)
Bug_CutShort(a) == ~SystemScanning /\ Len(memory[a].scans) = 0 /\ ~young
CutShort(a) == ~SystemScanning /\ Len(memory[a].scans) < Count /\ ~young

NothingUnread ==
  /\ main.at = "ask" /\ analyser.unread = <<>>
  /\ main' = IF CutShort(main.of) THEN [main EXCEPT !.at = "finish", !.end = "stopped"]
                                  ELSE Resting
  /\ UNCHANGED <<memory, analyser, pending, unkept>> /\ NoTrouble /\ MainStep

NextUnread == main.at = "ask" /\ analyser.unread # <<>>
              /\ analyser' = [analyser EXCEPT !.unread = Tail(@)]

Record ==
  /\ NextUnread
  /\ memory' = [memory EXCEPT ![main.of].scans = Append(@, Head(analyser.unread))]
  /\ main' = [main EXCEPT !.at = "publish",
                          !.end = IF Len(memory[main.of].scans) + 1 >= Count THEN "done"
                                                                            ELSE "none"]
  /\ UNCHANGED <<pending, unkept>> /\ NoTrouble /\ MainStep

(* A scan with another number of points, or a value that is not finite.    *)
RefuseOdd ==
  /\ NextUnread /\ Trouble
  /\ main' = [main EXCEPT !.at = "finish", !.end = "failed"]
  /\ UNCHANGED <<memory, pending, unkept>> /\ MainStep

(* The reply is lost after the analyser counted the scan as read; the read *)
(* raises.                                                                 *)
ReplyLost == /\ NextUnread /\ Trouble /\ main' = Resting
             /\ UNCHANGED <<memory, pending, unkept>> /\ MainStep

(* _publish_scan keeps the scan on disk while the acquisition still runs.  *)
Bug_PublishKeeps == FALSE
PublishKeeps == InState(main.of, "scanning")

PublishScan ==
  /\ main.at = "publish"
  /\ IF PublishKeeps THEN Persist(main.of) ELSE UNCHANGED <<pending, unkept>> /\ NoTrouble
  /\ main' = [main EXCEPT !.at = IF main.end = "done" THEN "finish" ELSE "ask"]
  /\ UNCHANGED <<memory, analyser>> /\ MainStep

Finish ==
  /\ main.at = "finish" /\ SetState(main.of, main.end)
  /\ main' = [main EXCEPT !.at = "persist"]
  /\ UNCHANGED <<analyser, pending, unkept>> /\ NoTrouble /\ MainStep

FinishPersist ==
  /\ main.at = "persist" /\ Persist(main.of) /\ main' = Resting
  /\ UNCHANGED <<memory, analyser>> /\ MainStep

MainLoop == \/ CollectStart \/ NothingUnread \/ Record \/ RefuseOdd \/ ReplyLost
            \/ PublishScan \/ Finish \/ FinishPersist

---------------------------------------------------------------------------
\* The command thread

WorkerStep == up /\ UNCHANGED <<up, main, restarts>>
Goes(where) == worker' = [worker EXCEPT !.at = where]
Refused == worker' = Idle

Accept(what, a) ==
  /\ worker.at = "idle" /\ commands < MaxCommands /\ commands' = commands + 1
  /\ worker' = [at |-> what, of |-> a, scans |-> <<>>]
  /\ UNCHANGED <<acq, memory, young, analyser, disk, announced, begun, troubles>> /\ WorkerStep

(* "stop", and a release of control while a scan runs.                     *)
AcceptStop == Scanning /\ Accept("stop", acq)

StopAnalyser ==
  /\ worker.at = "stop"
  /\ \/ analyser' = Stopped /\ Goes("finish") /\ NoTrouble
     \/ UNCHANGED analyser /\ Refused /\ Trouble
  /\ UNCHANGED <<acq, memory, young, disk, announced, begun, commands>> /\ WorkerStep

WorkerFinish ==
  /\ worker.at = "finish" /\ SetState(worker.of, "stopped") /\ Goes("persist")
  /\ UNCHANGED <<acq, young, analyser, disk, announced, begun, commands, troubles>> /\ WorkerStep

WorkerPersist ==
  /\ worker.at = "persist" /\ Persist(worker.of) /\ Refused
  /\ UNCHANGED <<acq, memory, young, analyser, files, announced, begun, commands>> /\ WorkerStep

AcceptStart == ~Scanning /\ begun < MaxAcquisitions /\ Accept("start", begun + 1)

(* setup_scan stops what runs; a start empties the unread scans.           *)
SetUpScan ==
  /\ worker.at = "start"
  /\ \/ /\ analyser' = [left |-> Count, of |-> worker.of, unread |-> <<>>]
        /\ Goes("begin") /\ NoTrouble
     \/ analyser' = Stopped /\ Refused /\ Trouble
  /\ UNCHANGED <<acq, memory, young, disk, announced, begun, commands>> /\ WorkerStep

(* What was there and not saved is no longer in memory.                    *)
Begin ==
  /\ worker.at = "begin" /\ Refused
  /\ acq' = worker.of /\ begun' = worker.of /\ young' = TRUE
  /\ memory' = [memory EXCEPT ![worker.of] = [NotBegun EXCEPT !.state = "scanning"]]
  /\ UNCHANGED <<analyser, disk, announced, commands, troubles>> /\ WorkerStep

Savable(a) == /\ a # None /\ memory[a].scans # <<>> /\ memory[a].state # "scanning"
              /\ ~memory[a].saved

AcceptSave == Savable(acq) /\ Accept("copy", acq)

(* The settings are read; the scans are copied under the lock.             *)
CopyScans ==
  /\ worker.at = "copy"
  /\ \/ worker' = [worker EXCEPT !.at = "write", !.scans = memory[worker.of].scans] /\ NoTrouble
     \/ Refused /\ Trouble
  /\ UNCHANGED <<acq, memory, young, analyser, disk, announced, begun, commands>> /\ WorkerStep

(* rga_file.write opens with "x": a file that is there is left alone.  A   *)
(* write that fails half way leaves what it wrote.                         *)
MayWrite(a) == files[a].is = "none"

WriteFile ==
  /\ worker.at = "write"
  /\ \/ /\ MayWrite(worker.of) /\ Goes("mark") /\ NoTrouble
        /\ files' = [files EXCEPT ![worker.of] = Whole(worker.scans)]
     \/ /\ MayWrite(worker.of) /\ Refused /\ Trouble
        /\ files' \in {files, [files EXCEPT ![worker.of] = Partial]}
     \/ ~MayWrite(worker.of) /\ Refused /\ NoTrouble /\ UNCHANGED files
  /\ UNCHANGED <<acq, memory, young, analyser, pending, unkept, announced, begun, commands>>
  /\ WorkerStep

MarkSaved ==
  /\ worker.at = "mark" /\ Goes("unlink")
  /\ memory' = [memory EXCEPT ![worker.of].saved = TRUE]
  /\ UNCHANGED <<acq, young, analyser, disk, announced, begun, commands, troubles>> /\ WorkerStep

Unlink ==
  /\ worker.at = "unlink" /\ Goes("announce")
  /\ \/ pending' = NoPending /\ NoTrouble
     \/ UNCHANGED pending /\ Trouble
  /\ UNCHANGED <<acq, memory, young, analyser, unkept, files, announced, begun, commands>>
  /\ WorkerStep

(* The summary is made of the record that was written.                     *)
Bug_Summarised(a) == memory[a].scans
Summarised(a) == worker.scans

Announce ==
  /\ worker.at = "announce" /\ Refused
  /\ announced' = [announced EXCEPT ![worker.of] = Append(@, Summarised(worker.of))]
  /\ UNCHANGED <<acq, memory, young, analyser, disk, begun, commands, troubles>> /\ WorkerStep

Worker == \/ AcceptStop \/ StopAnalyser \/ WorkerFinish \/ WorkerPersist
          \/ AcceptStart \/ SetUpScan \/ Begin
          \/ AcceptSave \/ CopyScans \/ WriteFile \/ MarkSaved \/ Unlink \/ Announce

---------------------------------------------------------------------------
\* The service goes and comes back

Gone ==
  /\ up /\ up' = FALSE /\ restarts < MaxRestarts /\ restarts' = restarts + 1
  /\ acq' = None /\ young' = FALSE /\ main' = Resting /\ worker' = Idle
  /\ memory' = [a \in Acquisitions |-> NotBegun]
  /\ UNCHANGED <<disk, announced, begun, commands, troubles>>

Crash == Gone /\ UNCHANGED analyser

(* close, after the loop: a running scan is stopped, the acquisition left  *)
(* as it is; the command thread ends with the process.                     *)
Close == Gone /\ main.at = "rest" /\ analyser' = IF Scanning THEN Stopped ELSE analyser

(* _restore_pending: not when saved, or when no scan was taken.            *)
Restore ==
  IF pending.saved \/ pending.scans = <<>> THEN UNCHANGED <<acq, memory>>
  ELSE /\ acq' = pending.of
       /\ memory' = [memory EXCEPT ![pending.of] =
            [state |-> IF pending.state = "scanning" THEN "stopped" ELSE pending.state,
             scans |-> pending.scans, saved |-> FALSE]]

Start ==
  /\ ~up /\ up' = TRUE /\ Restore
  /\ UNCHANGED <<young, main, worker, analyser, disk, announced, bounds>>

---------------------------------------------------------------------------
Init ==
  /\ up = TRUE /\ acq = None /\ young = FALSE /\ main = Resting /\ worker = Idle
  /\ memory = [a \in Acquisitions |-> NotBegun]
  /\ analyser = [left |-> 0, of |-> 1, unread |-> <<>>]
  /\ pending = NoPending /\ unkept = FALSE
  /\ files = [a \in Acquisitions |-> NoFile] /\ announced = [a \in Acquisitions |-> <<>>]
  /\ begun = 0 /\ commands = 0 /\ restarts = 0 /\ troubles = 0

Analyser == TakeScan \/ StoppedByOthers \/ Grow
Next == Analyser \/ MainLoop \/ Worker \/ Crash \/ Close \/ Start
Spec == Init /\ [][Next]_vars

(* The loop goes on reading, scans end and time passes; nobody need send a *)
(* command, and the service need not come back.                            *)
Fairness == WF_vars(TakeScan) /\ WF_vars(Grow) /\ WF_vars(MainLoop)
FairSpec == Spec /\ Fairness

---------------------------------------------------------------------------
\* Properties

(* A summary on xams/rga/saved is of a file that stands, and there is one  *)
(* at most: what Grafana lists is what the file holds, also when a scan is *)
(* still recorded while it is saved (_handle_save).                        *)
AnnouncedAsSaved ==
  \A a \in Acquisitions : announced[a] # <<>> => /\ Len(announced[a]) = 1
                                                 /\ files[a] = Whole(announced[a][1])

(* Unsaved data survives a restart: what pending.json holds of the         *)
(* acquisition in memory is its first scans, and all of them whenever      *)
(* nobody is about to write them - but for one stopped by a command while  *)
(* the loop read, which may be behind by what the loop read after that     *)
(* (_publish_scan, _finish, _persist).                                     *)
PendingKeepsUp ==
  up /\ acq # None /\ memory[acq].scans # <<>> /\ ~memory[acq].saved /\ ~unkept =>
    LET scans == memory[acq].scans
        Writing == main.at \in {"publish", "persist"} \/ worker.at = "persist"
    IN IF Writing \/ InState(acq, "stopped")
         THEN pending.of = acq => pending.scans = SubSeq(scans, 1, Len(pending.scans))
         ELSE pending.of = acq /\ pending.scans = scans

(* A scan ends: with all its scans, or stopped, or failed, or its service  *)
(* gone - also when a reply is lost or somebody else stops the analyser    *)
(* (_collect_scans).                                                       *)
ScanEnds == \A a \in Acquisitions : (acq = a /\ Scanning) ~> ~(acq = a /\ Scanning)

(* Not kept by the code (README, Divergences): each scan is one of its     *)
(* acquisition, a stopped acquisition is on disk as in memory, one in      *)
(* memory that is not saved can be, and one with all scans is done.        *)
OwnScans == \A a \in Acquisitions : \A i \in DOMAIN memory[a].scans : memory[a].scans[i] = a
StoppedIsKept ==
  up /\ acq # None /\ main = Resting /\ worker = Idle /\ ~unkept /\ ~memory[acq].saved
     /\ memory[acq].scans # <<>> => pending.scans = memory[acq].scans
UnsavedCanBeSaved == worker = Idle /\ acq # None /\ ~memory[acq].saved => files[acq] = NoFile
CompleteIsDone ==
  \A a \in Acquisitions : main = Resting /\ worker = Idle /\ Len(memory[a].scans) = Count
                            => memory[a].state = "done"
===============================================================================
