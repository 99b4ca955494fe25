------------------------------- MODULE Sinks -------------------------------
(***************************************************************************)
(* The way of a measurement into the archive and the database: the bus     *)
(* callback that archives and queues it, the pump thread that writes the   *)
(* queue in batches (sinks/pg_writer.py), the main thread that watches for *)
(* losses, and the end of the process, where the main thread drains beside *)
(* a pump that may not have finished (sinks/__main__.py).                  *)
(*                                                                         *)
(* Rows are numbered in the order they come.  The database is what answers *)
(* a write: it may store some rows of a batch and then fail.               *)
(***************************************************************************)
EXTENDS Integers, Sequences, FiniteSets

CONSTANTS
    MaxRows,        \* rows that come in a behaviour
    MaxPending,     \* max_pending
    BatchSize,      \* batch_size
    BacklogWarn,    \* backlog_warn
    MaxFailures,    \* writes that fail
    MaxBusLosses    \* messages the buffer of this process's own bus loses

ASSUME SizesAreNatural ==
    /\ MaxRows \in Nat /\ MaxPending \in Nat /\ BacklogWarn \in Nat
    /\ BatchSize \in Nat \ {0}

Rows == 1 .. MaxRows
Flushers == {"pump", "main"}

VARIABLES
    came,       \* rows that have come, all of them written to the archive
    synced,     \* of those, how many are on disk and not in the file's buffer
    pending,    \* _pending
    batch,      \* rows taken by a flush that has not ended, per thread
    db,         \* how often each row is in the table meas
    index,      \* whether the table has the index that rejects a second copy
    dropped,    \* _dropped
    pump,       \* the pump thread: drains, waits, or has ended
    main,       \* the main thread
    seenPg, seenBus, degraded,  \* SinkHealth
    busDropped, \* bus.dropped
    published,  \* the retained state of the service
    failures    \* how much of the bound is used

writer == <<pending, batch, db, index, dropped>>
health == <<seenPg, seenBus, degraded, published>>
vars == <<came, synced, writer, pump, main, health, busDropped, failures>>

Init ==
    /\ came = 0 /\ synced = 0
    /\ pending = <<>> /\ batch = [f \in Flushers |-> <<>>]
    /\ db = [r \in Rows |-> 0] /\ index \in BOOLEAN
    /\ dropped = 0 /\ pump = "drains" /\ main = "running"
    /\ seenPg = 0 /\ seenBus = 0 /\ degraded = FALSE
    /\ busDropped = 0 /\ published = "running" /\ failures = 0

Stop == main # "running"

-----------------------------------------------------------------------------
(* The bus callback.                                                       *)

HasRoom == Len(pending) < MaxPending

\* A row is archived first and queued second; a full queue discards it.
Add ==
    /\ main # "ended" /\ came < MaxRows
    /\ came' = came + 1
    /\ \/ HasRoom /\ pending' = Append(pending, came') /\ UNCHANGED dropped
       \/ ~HasRoom /\ dropped' = dropped + 1 /\ UNCHANGED pending
    /\ UNCHANGED <<synced, batch, db, index, pump, main, health, busDropped, failures>>

-----------------------------------------------------------------------------
(* flush and drain, by the pump and, at the end, by the main thread.       *)

Draining(f) == IF f = "pump" THEN pump = "drains" ELSE main = "draining"

\* What a drain does after a flush that wrote nothing, or when its time is up.
DrainEnds(f) ==
    IF f = "pump" THEN pump' = "waits" /\ UNCHANGED main
                  ELSE main' = "leaving" /\ UNCHANGED pump

\* A flush takes at most a batch from the front of the queue.
Take(f) ==
    LET n == IF Len(pending) < BatchSize THEN Len(pending) ELSE BatchSize
    IN /\ Draining(f) /\ batch[f] = <<>> /\ pending # <<>>
       /\ f = "pump" => ~Stop
       /\ batch' = [batch EXCEPT ![f] = SubSeq(pending, 1, n)]
       /\ pending' = SubSeq(pending, n + 1, Len(pending))
       /\ UNCHANGED <<came, synced, db, index, dropped, pump, main, health, busDropped, failures>>

\* The rows stored once more; the index rejects a copy.
Stored(rows) ==
    [r \in Rows |-> IF r \notin rows THEN db[r]
                    ELSE IF index THEN 1 ELSE db[r] + 1]

RowsOf(q) == {q[i] : i \in DOMAIN q}

Written(f) ==
    /\ batch[f] # <<>>
    /\ db' = Stored(RowsOf(batch[f]))
    /\ batch' = [batch EXCEPT ![f] = <<>>]
    /\ \/ UNCHANGED <<pump, main>>
       \/ Draining(f) /\ DrainEnds(f)
    /\ UNCHANGED <<came, synced, pending, index, dropped, health, busDropped, failures>>

Bug_PutBack(f) == pending

PutBack(f) == batch[f] \o pending

\* A write that fails after some of its rows: the whole batch goes back to
\* the front, whatever has come in the meantime.
Failed(f, k) ==
    /\ batch[f] # <<>> /\ failures < MaxFailures /\ k <= Len(batch[f])
    /\ failures' = failures + 1
    /\ db' = Stored({batch[f][i] : i \in 1 .. k})
    /\ pending' = PutBack(f)
    /\ batch' = [batch EXCEPT ![f] = <<>>]
    /\ DrainEnds(f)
    /\ UNCHANGED <<came, synced, index, dropped, health, busDropped>>

NothingPending(f) ==
    /\ Draining(f) /\ batch[f] = <<>>
    /\ pending = <<>> \/ (f = "pump" /\ Stop)
    /\ DrainEnds(f)
    /\ UNCHANGED <<came, synced, writer, health, busDropped, failures>>

Bug_PumpWakes == FALSE /\ pump' = pump

\* After its interval the pump drains again, unless the process stops.
PumpWakes ==
    /\ pump = "waits"
    /\ pump' = IF Stop THEN "ended" ELSE "drains"

Pump == PumpWakes /\ UNCHANGED <<came, synced, writer, main, health, busDropped, failures>>

-----------------------------------------------------------------------------
(* The main thread.                                                        *)

Losses == dropped > seenPg \/ busDropped > seenBus

\* The counters as seen by this check, and what it makes of them.
Reported ==
    IF Losses THEN <<dropped, busDropped, TRUE, IF degraded THEN published ELSE "degraded">>
    ELSE IF degraded /\ Len(pending) <= BacklogWarn THEN <<seenPg, seenBus, FALSE, "running">>
    ELSE <<seenPg, seenBus, degraded, published>>

\* Every five seconds: the archive goes to disk and the losses are looked at.
HealthCheck ==
    /\ main = "running"
    /\ synced' = came
    /\ LET h == Reported
       IN seenPg' = h[1] /\ seenBus' = h[2] /\ degraded' = h[3] /\ published' = h[4]
    /\ UNCHANGED <<came, writer, pump, main, busDropped, failures>>

BusLoss ==
    /\ main # "ended" /\ busDropped < MaxBusLosses
    /\ busDropped' = busDropped + 1
    /\ UNCHANGED <<came, synced, writer, pump, main, health, failures>>

\* The archive is closed first, then the writer is told to stop.
StopSignal ==
    /\ main = "running"
    /\ main' = "joining" /\ synced' = came
    /\ UNCHANGED <<came, writer, pump, health, busDropped, failures>>

\* The join ends with the pump or with its time limit, and the main thread
\* drains even when the pump still holds a batch.
Joined ==
    /\ main = "joining"
    /\ main' = "draining"
    /\ UNCHANGED <<came, synced, writer, pump, health, busDropped, failures>>

\* The bus is disconnected after everything else: rows have come until now.
Leave ==
    /\ main = "leaving"
    /\ main' = "ended" /\ published' = "stopped" /\ synced' = came
    /\ UNCHANGED <<came, writer, pump, seenPg, seenBus, degraded, busDropped, failures>>

-----------------------------------------------------------------------------
Flush(f) ==
    /\ main # "ended"
    /\ Take(f) \/ Written(f) \/ NothingPending(f) \/ \E k \in 0 .. BatchSize : Failed(f, k)

PumpStep == (main # "ended" /\ Pump) \/ Flush("pump")
MainStep == HealthCheck \/ Joined \/ Flush("main") \/ Leave

Next == Add \/ BusLoss \/ StopSignal \/ PumpStep \/ MainStep

\* Both threads go on; nothing says that rows come or that the process stops.
Spec == Init /\ [][Next]_vars /\ WF_vars(PumpStep) /\ WF_vars(MainStep)

-----------------------------------------------------------------------------
(* Properties.                                                             *)

TypeOK ==
    /\ came \in 0 .. MaxRows /\ synced \in 0 .. came
    /\ pending \in Seq(Rows) /\ batch \in [Flushers -> Seq(Rows)]
    /\ db \in [Rows -> Nat] /\ dropped \in Nat
    /\ pump \in {"drains", "waits", "ended"}
    /\ main \in {"running", "joining", "draining", "leaving", "ended"}
    /\ published \in {"running", "degraded", "stopped"}

Held == (UNION {RowsOf(batch[f]) : f \in Flushers}) \cup RowsOf(pending)

\* Every row that came is in the table, still held by this process, or counted
\* as dropped: a write that fails half way, or two threads that drain at the
\* same time, hide no loss from the counter that the health check reads
\* (pg_writer.py 136-162 and 217-223).
NothingUncounted ==
    Cardinality(Held \cup {r \in Rows : db[r] > 0}) + dropped = came

\* max_pending bounds the queue up to the batches that writes put back.
BacklogBounded == Len(pending) <= MaxPending + 2 * BatchSize

\* A row that waits is written, as long as the process runs and the database
\* comes back: one failure, or a queue that is never empty, does not end it.
BacklogIsWritten ==
    \A r \in Rows : r \in Held ~> (db[r] > 0 \/ main # "running")

-----------------------------------------------------------------------------
(* What the documents say and the code does not keep.                      *)

\* sinks/__main__.py 6-7: the files are the truth and the database is an index
\* over them.  A batch is written while its rows wait in the file's buffer, so
\* a death of the process leaves rows in the table that the archive has not.
IndexOverTheFiles == \A r \in Rows : db[r] > 0 => r <= synced

\* sinks/__main__.py 404-405: a loss does not go unsaid.  One after the last
\* check does, and so do the rows that the last drain could not write.
LossIsSaid == main = "ended" => seenPg = dropped /\ pending = <<>>

\* sinks/__main__.py 114-116: recovery is only real once the backlog has
\* drained.  The rows of a write under way are not counted.
RecoveryIsReal ==
    [][published = "degraded" /\ published' = "running" => Cardinality(Held) <= BacklogWarn]_vars
=============================================================================
