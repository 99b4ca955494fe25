---------------------------- MODULE SinksService ----------------------------
(***************************************************************************)
(* The sinks: the measurements (Sinks) and the records (RecordWriters).    *)
(* The two live in one process and share no state, so each is explored     *)
(* with the other at rest: the behaviours of the pair are their shuffles   *)
(* and add nothing to a property of one.                                   *)
(***************************************************************************)
EXTENDS Sinks

CONSTANTS Channels, Keys, None, MaxRecords, MaxChanges, MaxBlips

VARIABLES part, dbUp, conn, retained, deliver, last, newest, missed, audited, records,
          changes, blips

recordVars == <<dbUp, conn, retained, deliver, last, newest, missed, audited, records,
                changes, blips>>

R == INSTANCE RecordWriters

PairInit == Init /\ R!Init /\ part \in {"queue", "records"}

InQueue(Step) == part = "queue" /\ Step /\ UNCHANGED recordVars /\ part' = part
InRecords(Step) == part = "records" /\ Step /\ UNCHANGED vars /\ part' = part

PairNext == InQueue(Next) \/ InRecords(R!Next)

PairSpec ==
    /\ PairInit /\ [][PairNext]_<<part, vars, recordVars>>
    /\ WF_vars(InQueue(PumpStep)) /\ WF_vars(InQueue(MainStep))

\* The properties of RecordWriters, in the names of this module.
NewestRowIsTrue == R!NewestRowIsTrue
=============================================================================
