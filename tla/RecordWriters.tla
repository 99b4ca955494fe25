--------------------------- MODULE RecordWriters ---------------------------
(***************************************************************************)
(* The sinks that store a record the moment it comes: alarm transitions    *)
(* (sinks/alarm_writer.py), the audit trail (sinks/audit_writer.py) and    *)
(* the summary of an RGA save (sinks/rga_writer.py).  Each keeps its own   *)
(* connection, has no queue, and only logs a failure.  The state of an     *)
(* alarm is retained by the broker and comes again to who connects.        *)
(***************************************************************************)
EXTENDS Naturals, FiniteSets

CONSTANTS
    Channels,       \* channels that have alarms
    Keys,           \* state, threshold and acknowledged of an alarm, taken together
    None,           \* no key, no row
    MaxRecords,     \* audit records and summaries, together
    MaxChanges,     \* changes of the alarms
    MaxBlips        \* times the database, the bus or the sinks go away

Writers == {"alarm", "audit", "rga"}

VARIABLES
    dbUp,       \* whether the database answers
    conn,       \* _conn per writer: none, open, or broken without knowing it
    retained,   \* the alarm state the broker keeps per channel
    deliver,    \* channels whose retained state is on its way to the sinks
    last,       \* _last of the alarm writer
    newest,     \* the newest row per channel in alarm_events
    missed,     \* history: channels whose newest transition failed to be stored
    audited,    \* history: audit records, and those in the table
    records, changes, blips     \* how much of each bound is used

vars == <<dbUp, conn, retained, deliver, last, newest, missed, audited, records,
          changes, blips>>

Init ==
    /\ dbUp = TRUE /\ conn = [w \in Writers |-> "none"]
    /\ retained = [c \in Channels |-> None] /\ deliver = {}
    /\ last = [c \in Channels |-> None] /\ newest = [c \in Channels |-> None]
    /\ missed = {}
    /\ audited = [came |-> 0, stored |-> 0]
    /\ records = 0 /\ changes = 0 /\ blips = 0

-----------------------------------------------------------------------------
(* One statement over a writer's connection.                               *)

Works(w) == conn[w] = "open" \/ (conn[w] = "none" /\ dbUp)

\* The connection is given up, so that the next record opens a new one.
AfterFailure(w) == "none"

Attempt(w) ==
    conn' = [conn EXCEPT ![w] = IF Works(w) THEN "open" ELSE AfterFailure(w)]

-----------------------------------------------------------------------------
(* Alarms.                                                                 *)

\* The engine publishes a state, or an empty payload when tools/clear_retained
\* removes the topic.
Change(c, k) ==
    /\ changes < MaxChanges /\ k # retained[c]
    /\ changes' = changes + 1
    /\ retained' = [retained EXCEPT ![c] = k]
    /\ deliver' = deliver \cup {c}
    /\ UNCHANGED <<dbUp, conn, last, newest, missed, audited, records, blips>>

Bug_Known(c) == last[c] # None

\* The same state again: sent once more by the broker.
Known(c) == last[c] = retained[c]

\* The transition is remembered before it is stored, and not tried again.
HandleAlarm(c) ==
    /\ c \in deliver
    /\ deliver' = deliver \ {c}
    /\ last' = [last EXCEPT ![c] = retained[c]]
    /\ \/ /\ retained[c] = None \/ Known(c)
          /\ UNCHANGED <<conn, newest, missed>>
       \/ /\ retained[c] # None /\ ~Known(c)
          /\ Attempt("alarm")
          /\ newest' = IF Works("alarm") THEN [newest EXCEPT ![c] = retained[c]] ELSE newest
          /\ missed' = IF Works("alarm") THEN missed \ {c} ELSE missed \cup {c}
    /\ UNCHANGED <<dbUp, retained, audited, records, changes, blips>>

-----------------------------------------------------------------------------
(* Audit records and summaries.                                            *)

HandleAudit ==
    /\ records < MaxRecords
    /\ records' = records + 1
    /\ Attempt("audit")
    /\ audited' = [came |-> audited.came + 1,
                   stored |-> audited.stored + (IF Works("audit") THEN 1 ELSE 0)]
    /\ UNCHANGED <<dbUp, retained, deliver, last, newest, missed, changes, blips>>

\* The row of the save and one row per peak, over one connection.
HandleSummary ==
    /\ records < MaxRecords
    /\ records' = records + 1
    /\ Attempt("rga")
    /\ UNCHANGED <<dbUp, retained, deliver, last, newest, missed, audited, changes, blips>>

-----------------------------------------------------------------------------
(* What goes away and comes back.                                          *)

Blip == blips < MaxBlips /\ blips' = blips + 1

\* A writer does not notice that its connection is gone.
DatabaseDown ==
    /\ dbUp /\ Blip /\ dbUp' = FALSE
    /\ conn' = [w \in Writers |-> IF conn[w] = "open" THEN "broken" ELSE conn[w]]
    /\ UNCHANGED <<retained, deliver, last, newest, missed, audited, records, changes>>

DatabaseBack ==
    /\ ~dbUp /\ dbUp' = TRUE
    /\ UNCHANGED <<conn, retained, deliver, last, newest, missed, audited, records, changes, blips>>

States == {c \in Channels : retained[c] # None}

\* The bus connects again: what was under way is gone, what is retained comes.
BusBack ==
    /\ Blip /\ deliver' = States
    /\ UNCHANGED <<dbUp, conn, retained, last, newest, missed, audited, records, changes>>

\* The sinks start again and remember nothing.
SinksRestart ==
    /\ Blip /\ deliver' = States
    /\ last' = [c \in Channels |-> None]
    /\ conn' = [w \in Writers |-> "none"]
    /\ UNCHANGED <<dbUp, retained, newest, missed, audited, records, changes>>

-----------------------------------------------------------------------------
Next ==
    \/ \E c \in Channels : HandleAlarm(c) \/ \E k \in Keys \cup {None} : Change(c, k)
    \/ HandleAudit \/ HandleSummary
    \/ DatabaseDown \/ DatabaseBack \/ BusBack \/ SinksRestart

Spec == Init /\ [][Next]_vars

-----------------------------------------------------------------------------
(* Properties.                                                             *)

\* The newest row of a channel says what the engine shows, as soon as its
\* message has come, over reconnections and restarts of the sinks, unless the
\* database refused that very row (alarm_writer.py 52-103).
NewestRowIsTrue ==
    \A c \in Channels \ (deliver \cup missed) :
        retained[c] # None => newest[c] = retained[c]

-----------------------------------------------------------------------------
(* What the documents say and the code does not keep.                      *)

\* audit_writer.py 14-17: the record is in the archive regardless.  The archive
\* subscribes to measurements only (jsonl_writer.py 116), so a record that the
\* database refuses is nowhere.
AuditIsKept == audited.stored = audited.came
=============================================================================
