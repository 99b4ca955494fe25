---------------------------- MODULE FlowPeriods ----------------------------
(***************************************************************************)
(* The flow integrator (devices/derived.py), the one stateful component of *)
(* the system: samples of the flow are summed into the running period, the *)
(* sum survives on disk, and a reset asked for on the page closes the      *)
(* period, which a sink writes to the table flow_periods                   *)
(* (sinks/flow_writer.py).                                                 *)
(*                                                                         *)
(* Time is counted in seconds 1..MaxTime, second s lying between the       *)
(* instants s - 1 and s.  The data are abstracted to what the sums are     *)
(* made of: total_g and gaps_s are functions that say how often each       *)
(* second has been added.  The value of the flow does not matter, only     *)
(* over which seconds it was taken to hold.                                *)
(***************************************************************************)
EXTENDS Integers, Sequences

CONSTANTS
    MaxTime,        \* instants considered
    MaxInterval,    \* MAX_INTERVAL_S
    MaxWire,        \* samples on their way at once
    MaxResets,      \* resets asked for in a behaviour
    MaxOvertakes,   \* samples that a later one overtakes
    MaxFaults       \* deaths, saves that fail, statements that fail

ASSUME TimesAreNatural == MaxTime \in Nat /\ MaxInterval \in Nat

Seconds == 1 .. MaxTime
Instants == 0 .. MaxTime     \* 0: no sample yet

VARIABLES
    now,        \* the clock
    wire,       \* samples published and not yet handled
    retained,   \* the sample the broker keeps for who subscribes later
    mem,        \* IntegratorState in the service; Dead when it does not run
    disk,       \* the state file
    handler,    \* where the bus callback of the service is, and the period it closes
    asks,       \* how many resets are asked for and not yet handled
    periods,    \* closed periods on their way to the sink
    sinks,      \* whether the sinks run
    table,      \* flow_periods: one row per period, in the order of insertion
    resets, overtakes, faults,   \* how much of each bound is used
    undelivered,    \* history: closed periods that were never handed to the sinks
    unopened,       \* history: the last try to open a row failed, and none is open
    spoilt          \* history: periods handled with a failing first statement, or as
                    \* the first one after a row was not opened

service == <<mem, disk, handler>>
store == <<periods, sinks, table, unopened, spoilt>>
bounds == <<resets, overtakes, faults>>
vars == <<now, wire, retained, service, asks, store, bounds, undelivered>>

Never == [s \in Seconds |-> 0]
None == [total |-> Never, gaps |-> Never]

\* The sum with the seconds between two instants added; going back takes them off.
Plus(f, from, to) ==
    [s \in Seconds |-> f[s] + (IF from < s /\ s <= to THEN 1 ELSE 0)
                            - (IF to < s /\ s <= from THEN 1 ELSE 0)]

\* A state of the integrator; past is history, the sums of the periods before it.
FirstPeriod == [total |-> Never, gaps |-> Never, last |-> 0, first |-> 0, n |-> 1, past |-> None]
Dead == [n |-> 0]
Idle == [at |-> "idle", closed |-> 0]

Init ==
    /\ now = 0 /\ wire = <<>> /\ retained = [t |-> 0, ok |-> TRUE]
    /\ disk = FirstPeriod /\ mem = disk /\ handler = Idle
    /\ asks = 0 /\ periods = <<>> /\ sinks = FALSE /\ table = <<>>
    /\ resets = 0 /\ overtakes = 0 /\ faults = 0
    /\ undelivered = {} /\ unopened = FALSE /\ spoilt = {}

Up == mem # Dead

\* A step fails, or does not; a failure is one of the faults.
Faulty(failed) ==
    /\ failed => faults < MaxFaults
    /\ faults' = IF failed THEN faults + 1 ELSE faults

-----------------------------------------------------------------------------
(* The flow meter and the bus.                                             *)

\* The driver publishes a sample, good or not, or misses a cycle.
Sample(ok) ==
    /\ now < MaxTime /\ Len(wire) < MaxWire
    /\ now' = now + 1
    /\ retained' = [t |-> now', ok |-> ok]
    /\ wire' = IF Up THEN Append(wire, retained') ELSE wire
    /\ UNCHANGED <<service, asks, store, bounds, undelivered>>

MissedCycle ==
    /\ now < MaxTime
    /\ now' = now + 1
    /\ UNCHANGED <<wire, retained, service, asks, store, bounds, undelivered>>

\* A sample that was buffered is sent after the next one: BusOutbox shows how.
Overtaken ==
    /\ overtakes < MaxOvertakes /\ Len(wire) >= 2
    /\ LET n == Len(wire)
       IN /\ wire' = [wire EXCEPT ![n - 1] = wire[n], ![n] = wire[n - 1]]
          /\ retained' = wire[n - 1]
    /\ overtakes' = overtakes + 1
    /\ UNCHANGED <<now, service, asks, store, resets, faults, undelivered>>

-----------------------------------------------------------------------------
(* The derived service.  Its callbacks run one after the other.            *)

\* What a sample does to the state in memory.
Accumulated(state, m) ==
    LET seen == [state EXCEPT !.last = m.t, !.first = IF @ = 0 THEN m.t ELSE @]
        dt == m.t - state.last
    IN CASE state.last = 0 -> seen
         [] state.last # 0 /\ ~m.ok -> [seen EXCEPT !.gaps = Plus(@, state.last, m.t)]
         [] state.last # 0 /\ m.ok /\ dt <= 0 -> seen
         [] state.last # 0 /\ m.ok /\ dt > MaxInterval ->
                [seen EXCEPT !.gaps = Plus(@, state.last, m.t)]
         [] OTHER -> [seen EXCEPT !.total = Plus(@, state.last, m.t)]

\* Only a good sample that moves time forward is saved.
Saves(state, m) == m.ok /\ (state.last = 0 \/ m.t > state.last)

Accumulate ==
    /\ Up /\ handler = Idle /\ wire # <<>>
    /\ mem' = Accumulated(mem, Head(wire))
    /\ wire' = Tail(wire)
    /\ handler' = IF Saves(mem, Head(wire)) THEN [at |-> "save", closed |-> 0] ELSE Idle
    /\ UNCHANGED <<now, retained, disk, asks, store, bounds, undelivered>>

\* Written beside the file and renamed: the whole state, or an exception that
\* the handler of the subscription logs.
Save(failed) ==
    /\ Up /\ handler.at = "save"
    /\ Faulty(failed)
    /\ disk' = IF failed THEN disk ELSE mem
    /\ handler' = Idle
    /\ UNCHANGED <<now, wire, retained, mem, asks, store, resets, overtakes, undelivered>>

\* The sums of the period that a reset closes join those of the earlier ones.
Closing(state) ==
    [total |-> [s \in Seconds |-> state.past.total[s] + state.total[s]],
     gaps |-> [s \in Seconds |-> state.past.gaps[s] + state.gaps[s]]]

Opened(state, last, first) ==
    [total |-> Never, gaps |-> Never, last |-> last, first |-> first, n |-> state.n + 1,
     past |-> Closing(state)]

Bug_Reopened(state) == Opened(state, 0, 0)

\* The state after a reset: sums of zero, and no gap in the sampling.
Reopened(state) == Opened(state, state.last, state.first)

\* A reset replaces the state in memory ...
Reset ==
    /\ Up /\ handler = Idle /\ asks > 0
    /\ asks' = asks - 1
    /\ mem' = Reopened(mem)
    /\ handler' = [at |-> "reset", closed |-> mem.n]
    /\ UNCHANGED <<now, wire, retained, disk, store, bounds, undelivered>>

\* ... and saves it before it tells anyone. When the save fails the exception
\* leaves _handle_reset, and the period that was closed is never published.
SaveReset(failed) ==
    /\ Up /\ handler.at = "reset"
    /\ Faulty(failed)
    /\ IF failed
       THEN /\ handler' = Idle
            /\ undelivered' = undelivered \cup {handler.closed}
            /\ UNCHANGED disk
       ELSE /\ handler' = [handler EXCEPT !.at = "period"]
            /\ disk' = mem
            /\ UNCHANGED undelivered
    /\ UNCHANGED <<now, wire, retained, mem, asks, store, resets, overtakes>>

\* The closed period is published once, and kept by nobody; the acknowledgement
\* that follows changes nothing here.
PublishPeriod ==
    /\ Up /\ handler.at = "period"
    /\ handler' = Idle
    /\ IF sinks
       THEN periods' = Append(periods, handler.closed) /\ UNCHANGED undelivered
       ELSE undelivered' = undelivered \cup {handler.closed} /\ UNCHANGED periods
    /\ UNCHANGED <<now, wire, retained, mem, disk, asks, sinks, table, unopened, spoilt, bounds>>

\* Death at any point, with what was on its way to the service.
Die ==
    /\ Up /\ Faulty(TRUE)
    /\ mem' = Dead /\ handler' = Idle /\ wire' = <<>> /\ asks' = 0
    /\ undelivered' = IF handler.at = "period" THEN undelivered \cup {handler.closed}
                                               ELSE undelivered
    /\ UNCHANGED <<now, retained, disk, store, resets, overtakes>>

\* The file is read back, and the broker sends the sample it kept. A reset that
\* was never saved has not happened.
Restart ==
    /\ ~Up
    /\ mem' = disk
    /\ wire' = IF retained.t = 0 THEN <<>> ELSE <<retained>>
    /\ undelivered' = {n \in undelivered : n < disk.n}
    /\ UNCHANGED <<now, retained, disk, handler, asks, store, bounds>>

\* Somebody asks for a reset, on the page or with xams-ctl; nobody hears it
\* while the service does not run.
AskReset ==
    /\ Up /\ resets < MaxResets
    /\ resets' = resets + 1
    /\ asks' = asks + 1
    /\ UNCHANGED <<now, wire, retained, service, store, overtakes, faults, undelivered>>

-----------------------------------------------------------------------------
(* The table of periods.                                                   *)

OpenRow(n) == [from |-> n, to |-> 0, of |-> 0]
HasOpenRow == \E i \in DOMAIN table : table[i].to = 0

\* UPDATE ... WHERE stop IS NULL
ClosedRows(rows, n) ==
    [i \in DOMAIN rows |-> IF rows[i].to = 0 THEN [rows[i] EXCEPT !.to = n + 1, !.of = n]
                                              ELSE rows[i]]

\* Three statements, each committed by itself: any of them may be the last
\* that succeeds.
Written(rows, n, done) ==
    CASE done = 0 -> rows
      [] done = 1 -> ClosedRows(rows, n)
      [] OTHER -> Append(ClosedRows(rows, n), OpenRow(n + 1))

\* A message that failed is not tried again.
Record(done) ==
    /\ sinks /\ periods # <<>>
    /\ Faulty(done < 3)
    /\ periods' = Tail(periods)
    /\ table' = Written(table, Head(periods), done)
    /\ spoilt' = IF done = 0 \/ unopened THEN spoilt \cup {Head(periods)} ELSE spoilt
    /\ unopened' = (done = 1 \/ (unopened /\ done = 0))
    /\ UNCHANGED <<now, wire, retained, service, asks, sinks, resets, overtakes, undelivered>>

Bug_Ensured(rows) == rows

Ensured(rows) == IF HasOpenRow THEN rows ELSE Append(rows, OpenRow(disk.n))

\* The sinks start: a period is opened when the table has none open, unless
\* that fails; the failure is logged and the sinks go on.
SinksStart(failed) ==
    /\ ~sinks /\ sinks' = TRUE
    /\ Faulty(failed)
    /\ table' = IF failed THEN table ELSE Ensured(table)
    /\ unopened' = (failed /\ ~HasOpenRow)
    /\ UNCHANGED <<now, wire, retained, service, asks, periods, spoilt, resets, overtakes,
                   undelivered>>

SinksDie ==
    /\ sinks /\ Faulty(TRUE)
    /\ sinks' = FALSE /\ periods' = <<>>
    /\ undelivered' = undelivered \cup {periods[i] : i \in DOMAIN periods}
    /\ UNCHANGED <<now, wire, retained, service, asks, table, unopened, spoilt, resets, overtakes>>

-----------------------------------------------------------------------------
DerivedStep ==
    \/ Accumulate \/ Reset \/ PublishPeriod
    \/ \E failed \in BOOLEAN : Save(failed) \/ SaveReset(failed)

SinkStep == \E done \in 0 .. 3 : Record(done)

Next ==
    \/ \E ok \in BOOLEAN : Sample(ok)
    \/ MissedCycle \/ Overtaken
    \/ DerivedStep \/ Die \/ Restart \/ AskReset
    \/ SinkStep \/ SinksDie
    \/ \E failed \in BOOLEAN : SinksStart(failed)

\* The callbacks of both processes go on while they live. Nobody has to start a
\* dead one again.
Spec == Init /\ [][Next]_vars /\ WF_vars(DerivedStep) /\ WF_vars(SinkStep)

-----------------------------------------------------------------------------
(* Properties.                                                             *)

Sums == [Seconds -> Int]
Pasts == [total : Sums, gaps : Sums]
States == [total : Sums, gaps : Sums, last : Instants, first : Instants, n : Nat, past : Pasts]

TypeOK ==
    /\ now \in Instants
    /\ wire \in Seq([t : Seconds, ok : BOOLEAN])
    /\ disk \in States /\ mem \in States \cup {Dead}
    /\ retained \in [t : Instants, ok : BOOLEAN]
    /\ overtakes \in Nat

\* How often a second is in the sums of all periods, the running one included.
Counted(state, s) ==
    state.past.total[s] + state.past.gaps[s] + state.total[s] + state.gaps[s]

\* Every second from the first sample to the last one handled is in exactly
\* one place: the total of one period, or the gaps of one period.  A death
\* between accumulating and saving, a save that fails, a reset, a reset that
\* was not saved and a death after it, a sample sent twice by the broker: none
\* loses a second or adds it twice (derived.py 121-155 and 168-193), as long
\* as samples arrive in their order.
EverySecondOnce ==
    overtakes = 0 =>
        \A state \in {disk, mem} \ {Dead} : \A s \in Seconds :
            Counted(state, s) = IF state.first < s /\ s <= state.last THEN 1 ELSE 0

Recorded(n) == \E i \in DOMAIN table : table[i].of = n

\* A closed period reaches the table.  The losses the code accepts are each of
\* one period: the one whose reset could not be saved, or was followed by a
\* death before it was published; one on its way to sinks that do not run or
\* die; one whose first statement fails; and after a row could not be opened
\* the next one handled, not the ones after it as long as their own rows are
\* opened (derived.py 168-193 and 226-239, flow_writer.py 60-109).
ClosedIsRecorded ==
    \A n \in 1 .. MaxResets : disk.n > n ~> (Recorded(n) \/ n \in undelivered \cup spoilt)

-----------------------------------------------------------------------------
(* What the documents say and the code does not keep.                      *)

\* derived.py 18-19: samples whose quality is not ok are not integrated.
\* What a bad sample says is not saved: after a death the good one that
\* follows is integrated from the sample before the bad one.
GapsStayGaps ==
    \A s \in Seconds :
        []((Up /\ mem.gaps[s] > 0) => [](disk.past.total[s] + disk.total[s] = 0))

\* derived.py 3: the mass that has passed.  A second is counted twice after
\* one sample has overtaken another: line 149 returns after line 125 moved
\* the time back.
NothingCountedTwice == \A s \in Seconds : disk.past.total[s] + disk.total[s] <= 1

\* flow_writer.py 3-4: the history of how much passed during each period.
\* After a lost message a row spans two periods and has the total of one.
RowSpansItsPeriod ==
    \A i \in DOMAIN table : table[i].to # 0 => table[i].of = table[i].from
=============================================================================
