------------------------------ MODULE SinksProofs ------------------------------
(***************************************************************************)
(* What is proved of the sinks: no row of the way into the database is     *)
(* lost without being counted (Sinks), and the newest row of an alarm is   *)
(* what the engine shows (RecordWriters).                                  *)
(***************************************************************************)
EXTENDS SinksService, TLAPS, FiniteSetTheorems

-------------------------------------------------------------------------------
(* The rows of a sequence.                                                 *)

(* Cut in two, they are the same rows. *)
LEMMA CutRows ==
  ASSUME NEW S, NEW q \in Seq(S), NEW n \in 0..Len(q)
  PROVE  LET front == SubSeq(q, 1, n)
             rest == SubSeq(q, n + 1, Len(q))
         IN /\ front \in Seq(S) /\ rest \in Seq(S)
            /\ RowsOf(q) = RowsOf(front) \cup RowsOf(rest)
<1> DEFINE front == SubSeq(q, 1, n)
           rest == SubSeq(q, n + 1, Len(q))
<1>1. Len(q) \in Nat /\ n \in Nat /\ n <= Len(q) /\ DOMAIN q = 1..Len(q)
  OBVIOUS
<1>2. front \in Seq(S) /\ DOMAIN front = 1..n /\ \A i \in 1..n : front[i] = q[i]
  BY <1>1
<1>3. /\ rest \in Seq(S) /\ DOMAIN rest = 1..(Len(q) - n)
      /\ \A i \in 1..(Len(q) - n) : rest[i] = q[n + i]
  BY <1>1
<1> HIDE DEF front, rest
<1>4. ASSUME NEW i \in 1..Len(q) PROVE q[i] \in RowsOf(front) \cup RowsOf(rest)
  <2>1. CASE i <= n
    <3> i \in DOMAIN front /\ front[i] = q[i]
      BY <1>1, <1>2, <2>1
    <3> QED BY DEF RowsOf
  <2>2. CASE ~(i <= n)
    <3> i - n \in DOMAIN rest /\ rest[i - n] = q[i]
      BY <1>1, <1>3, <2>2
    <3> QED BY DEF RowsOf
  <2> QED BY <2>1, <2>2
<1>5. ASSUME NEW i \in DOMAIN front PROVE front[i] \in RowsOf(q)
  <2> i \in DOMAIN q /\ front[i] = q[i]
    BY <1>1, <1>2, <1>5
  <2> QED BY DEF RowsOf
<1>6. ASSUME NEW i \in DOMAIN rest PROVE rest[i] \in RowsOf(q)
  <2> n + i \in DOMAIN q /\ rest[i] = q[n + i]
    BY <1>1, <1>3, <1>6
  <2> QED BY DEF RowsOf
<1>7. RowsOf(q) \subseteq RowsOf(front) \cup RowsOf(rest)
  BY <1>1, <1>4 DEF RowsOf
<1>8. RowsOf(front) \subseteq RowsOf(q) /\ RowsOf(rest) \subseteq RowsOf(q)
  BY <1>5, <1>6 DEF RowsOf
<1>9. RowsOf(q) = RowsOf(front) \cup RowsOf(rest)
  BY <1>7, <1>8
<1> QED BY <1>2, <1>3, <1>9 DEF front, rest

(* Put one behind the other, they are those of both. *)
LEMMA JoinedRows ==
  ASSUME NEW S, NEW p \in Seq(S), NEW q \in Seq(S)
  PROVE  p \o q \in Seq(S) /\ RowsOf(p \o q) = RowsOf(p) \cup RowsOf(q)
<1> DEFINE pq == p \o q
<1>1. /\ Len(p) \in Nat /\ Len(q) \in Nat /\ pq \in Seq(S) /\ DOMAIN pq = 1..(Len(p) + Len(q))
      /\ DOMAIN p = 1..Len(p) /\ DOMAIN q = 1..Len(q)
  OBVIOUS
<1>2. \A i \in 1..Len(p) : pq[i] = p[i]
  BY <1>1
<1>3. \A i \in 1..Len(q) : pq[Len(p) + i] = q[i]
  BY <1>1
<1> HIDE DEF pq
<1>4. ASSUME NEW i \in DOMAIN pq PROVE pq[i] \in RowsOf(p) \cup RowsOf(q)
  <2>1. CASE i <= Len(p)
    <3> i \in DOMAIN p /\ pq[i] = p[i]
      BY <1>1, <1>2, <1>4, <2>1
    <3> QED BY DEF RowsOf
  <2>2. CASE ~(i <= Len(p))
    <3>1. i - Len(p) \in 1..Len(q) /\ i = Len(p) + (i - Len(p))
      BY <1>1, <1>4, <2>2
    <3>2. i - Len(p) \in DOMAIN q /\ pq[i] = q[i - Len(p)]
      BY <1>1, <1>3, <3>1
    <3> QED BY <3>2 DEF RowsOf
  <2> QED BY <2>1, <2>2
<1>5. ASSUME NEW i \in DOMAIN p PROVE p[i] \in RowsOf(pq)
  <2> i \in DOMAIN pq /\ pq[i] = p[i]
    BY <1>1, <1>2, <1>5
  <2> QED BY DEF RowsOf
<1>6. ASSUME NEW i \in DOMAIN q PROVE q[i] \in RowsOf(pq)
  <2> Len(p) + i \in DOMAIN pq /\ pq[Len(p) + i] = q[i]
    BY <1>1, <1>3, <1>6
  <2> QED BY DEF RowsOf
<1>7. RowsOf(pq) \subseteq RowsOf(p) \cup RowsOf(q)
  BY <1>4 DEF RowsOf
<1>8. RowsOf(p) \subseteq RowsOf(pq) /\ RowsOf(q) \subseteq RowsOf(pq)
  BY <1>5, <1>6 DEF RowsOf
<1>9. RowsOf(pq) = RowsOf(p) \cup RowsOf(q)
  BY <1>7, <1>8
<1> QED BY <1>1, <1>9 DEF pq

(* One more at the end. *)
LEMMA AppendedRows ==
  ASSUME NEW S, NEW q \in Seq(S), NEW r \in S
  PROVE  Append(q, r) \in Seq(S) /\ RowsOf(Append(q, r)) = RowsOf(q) \cup {r}
<1>1. /\ Append(q, r) \in Seq(S) /\ Len(Append(q, r)) = Len(q) + 1
      /\ Append(q, r)[Len(q) + 1] = r
      /\ \A i \in 1..Len(q) : Append(q, r)[i] = q[i]
  OBVIOUS
<1>2. DOMAIN q = 1..Len(q) /\ Len(q) \in Nat /\ DOMAIN Append(q, r) = 1..(Len(q) + 1)
  BY <1>1
<1>3. RowsOf(Append(q, r)) = RowsOf(q) \cup {r}
  BY <1>1, <1>2 DEF RowsOf
<1> QED BY <1>1, <1>3

-------------------------------------------------------------------------------
(* The invariant: a row is never forgotten, wherever it goes.              *)
Typed ==
  /\ came \in 0..MaxRows
  /\ pending \in Seq(Rows) /\ batch \in [Flushers -> Seq(Rows)]
  /\ db \in [Rows -> Nat] /\ dropped \in Nat

InTable == {r \in Rows : db[r] > 0}
Known == Held \cup InTable

IInv ==
  /\ Typed
  /\ Known \subseteq 1..came
  /\ Cardinality(Known) + dropped = came

(* The rows of several sequences. *)
LEMMA InOneOfThem ==
  ASSUME NEW held, NEW T, NEW r
  PROVE  r \in UNION {RowsOf(held[f]) : f \in T} <=> \E f \in T : r \in RowsOf(held[f])
<1> DEFINE those == {RowsOf(held[f]) : f \in T}
<1>1. ASSUME r \in UNION those PROVE \E f \in T : r \in RowsOf(held[f])
  <2>1. PICK q \in those : r \in q
    BY <1>1
  <2>2. PICK f \in T : q = RowsOf(held[f])
    BY <2>1
  <2> QED BY <2>1, <2>2
<1>2. ASSUME NEW f \in T, r \in RowsOf(held[f]) PROVE r \in UNION those
  <2>1. RowsOf(held[f]) \in those
    OBVIOUS
  <2> HIDE DEF those
  <2> QED BY <1>2, <2>1
<1> QED BY <1>1, <1>2

(* What the process holds, before a step and after it. *)
LEMMA HeldIs ==
  \A r : r \in Held <=> (\E f \in Flushers : r \in RowsOf(batch[f])) \/ r \in RowsOf(pending)
BY InOneOfThem DEF Held

LEMMA HeldThen ==
  \A r : r \in Held' <=> (\E f \in Flushers : r \in RowsOf(batch'[f])) \/ r \in RowsOf(pending')
BY InOneOfThem DEF Held

(* Rows of a sequence of rows are rows. *)
LEMMA RowsAreRows ==
  ASSUME NEW q \in Seq(Rows)
  PROVE  RowsOf(q) \subseteq Rows
BY DEF RowsOf

LEMMA Initially == Init => IInv
<1> SUFFICES ASSUME Init PROVE IInv
  OBVIOUS
<1>1. Typed
  <2>1. <<>> \in Seq(Rows)
    OBVIOUS
  <2> QED BY <2>1, SizesAreNatural DEF Init, Typed
<1>2. RowsOf(<<>>) = {}
  BY DEF RowsOf
<1>3. Held = {}
  BY <1>2, HeldIs DEF Init, Flushers
<1>4. Known = {}
  BY <1>3 DEF Init, Known, InTable
<1> QED BY <1>1, <1>4, FS_EmptySet DEF Init, IInv

(* Where the rows stay where they are known. *)
LEMMA Kept ==
  ASSUME IInv, Typed', Known' = Known, UNCHANGED <<came, dropped>>
  PROVE  IInv'
BY DEF IInv

(* A row comes: it is new, and queued or counted. *)
LEMMA AddStep ==
  ASSUME IInv, Add
  PROVE  IInv'
<1>1. came \in Nat /\ came < MaxRows /\ came' = came + 1 /\ UNCHANGED <<batch, db>>
  BY SizesAreNatural DEF Add, IInv, Typed
<1>2. came' \in Rows /\ came' \notin Known /\ InTable' = InTable
  BY <1>1, SizesAreNatural DEF IInv, Rows, InTable
<1>3. Known \subseteq 1..came /\ IsFiniteSet(Known) /\ Cardinality(Known) + dropped = came
  <2>1. IsFiniteSet(1..came)
    BY <1>1, FS_Interval
  <2> QED BY <2>1, FS_Subset DEF IInv
<1>4. Cardinality(Known) \in Nat /\ dropped \in Nat
  BY <1>3, FS_CardinalityType DEF IInv, Typed
<1>5. CASE HasRoom /\ pending' = Append(pending, came') /\ UNCHANGED dropped
  <2>1. pending' \in Seq(Rows) /\ RowsOf(pending') = RowsOf(pending) \cup {came'}
    BY <1>2, <1>5, AppendedRows DEF IInv, Typed
  <2>2. Held' = Held \cup {came'}
    <3>1. \A f \in Flushers : batch'[f] = batch[f]
      BY <1>1
    <3>2. \A r : r \in Held' <=> r \in Held \/ r = came'
      BY <2>1, <3>1, HeldIs, HeldThen
    <3> QED BY <3>2
  <2>3. Known' = Known \cup {came'}
    BY <1>2, <2>2 DEF Known
  <2>4. Cardinality(Known') = Cardinality(Known) + 1
    BY <1>2, <1>3, <2>3, FS_AddElement
  <2>5. Typed'
    BY <1>1, <1>5, <2>1, SizesAreNatural DEF IInv, Typed
  <2> QED BY <1>1, <1>3, <1>4, <1>5, <2>3, <2>4, <2>5 DEF IInv
<1>6. CASE dropped' = dropped + 1 /\ UNCHANGED pending
  <2>1. Known' = Known
    BY <1>1, <1>2, <1>6 DEF Known, Held
  <2>2. Typed'
    BY <1>1, <1>6, SizesAreNatural DEF IInv, Typed
  <2> QED BY <1>1, <1>3, <1>4, <1>6, <2>1, <2>2 DEF IInv
<1> QED BY <1>5, <1>6 DEF Add

(* A flush takes its rows out of the queue and holds them. *)
LEMMA TakeStep ==
  ASSUME IInv, NEW f \in Flushers, Take(f)
  PROVE  IInv'
<1> DEFINE n == IF Len(pending) < BatchSize THEN Len(pending) ELSE BatchSize
<1>1. n \in 0..Len(pending) /\ pending \in Seq(Rows)
  BY SizesAreNatural DEF IInv, Typed
<1>2. /\ batch[f] = <<>> /\ batch' = [batch EXCEPT ![f] = SubSeq(pending, 1, n)]
      /\ pending' = SubSeq(pending, n + 1, Len(pending))
      /\ UNCHANGED <<came, db, dropped>>
  BY DEF Take
<1> HIDE DEF n
<1>3. /\ SubSeq(pending, 1, n) \in Seq(Rows) /\ pending' \in Seq(Rows)
      /\ RowsOf(pending) = RowsOf(SubSeq(pending, 1, n)) \cup RowsOf(pending')
  BY <1>1, <1>2, CutRows
<1>4. Typed'
  BY <1>2, <1>3 DEF IInv, Typed
<1>5. RowsOf(batch[f]) = {}
  BY <1>2 DEF RowsOf
<1>6. /\ batch'[f] = SubSeq(pending, 1, n)
      /\ \A g \in Flushers \ {f} : batch'[g] = batch[g]
  BY <1>2 DEF IInv, Typed
<1>7. Held' = Held
  <2>1. \A r : r \in Held' <=> r \in Held
    BY <1>3, <1>5, <1>6, HeldIs, HeldThen
  <2> QED BY <2>1
<1> QED BY <1>2, <1>4, <1>7, Kept DEF Known, InTable

(* What a write stores is in the table; nothing goes out of it. *)
LEMMA StoredRows ==
  ASSUME IInv, NEW rows \in SUBSET Rows, db' = Stored(rows)
  PROVE  db' \in [Rows -> Nat] /\ InTable' = InTable \cup rows
<1>1. db' \in [Rows -> Nat]
  BY DEF Stored, IInv, Typed
<1>2. \A r \in Rows : db'[r] > 0 <=> db[r] > 0 \/ r \in rows
  BY DEF Stored, IInv, Typed
<1> QED BY <1>1, <1>2 DEF InTable

(* From the thread's hand to the table. *)
LEMMA WrittenStep ==
  ASSUME IInv, NEW f \in Flushers, Written(f)
  PROVE  IInv'
<1>1. /\ db' = Stored(RowsOf(batch[f])) /\ batch' = [batch EXCEPT ![f] = <<>>]
      /\ UNCHANGED <<came, pending, dropped>>
  BY DEF Written
<1>2. RowsOf(batch[f]) \subseteq Rows
  BY RowsAreRows DEF IInv, Typed
<1>3. db' \in [Rows -> Nat] /\ InTable' = InTable \cup RowsOf(batch[f])
  BY <1>1, <1>2, StoredRows
<1>4. /\ batch'[f] = <<>> /\ \A g \in Flushers \ {f} : batch'[g] = batch[g]
      /\ batch' \in [Flushers -> Seq(Rows)]
  <2>1. <<>> \in Seq(Rows)
    OBVIOUS
  <2> QED BY <1>1, <2>1 DEF IInv, Typed
<1>5. RowsOf(batch'[f]) = {}
  BY <1>4 DEF RowsOf
<1>6. Held = Held' \cup RowsOf(batch[f])
  <2>1. \A r : r \in Held <=> r \in Held' \/ r \in RowsOf(batch[f])
    BY <1>1, <1>4, <1>5, HeldIs, HeldThen
  <2> QED BY <2>1
<1>7. Known' = Known
  BY <1>3, <1>6 DEF Known
<1>8. Typed'
  BY <1>1, <1>3, <1>4 DEF IInv, Typed
<1> QED BY <1>1, <1>7, <1>8, Kept

(* Back to the front of the queue, those stored among them. *)
LEMMA FailedStep ==
  ASSUME IInv, NEW f \in Flushers, NEW k \in 0..BatchSize, Failed(f, k)
  PROVE  IInv'
<1> DEFINE rows == {batch[f][i] : i \in 1..k}
<1>1. /\ db' = Stored(rows) /\ batch' = [batch EXCEPT ![f] = <<>>]
      /\ pending' = batch[f] \o pending /\ k <= Len(batch[f])
      /\ UNCHANGED <<came, dropped>>
  BY DEF Failed, PutBack
<1>2. batch[f] \in Seq(Rows) /\ pending \in Seq(Rows)
  BY DEF IInv, Typed
<1>3. rows \subseteq RowsOf(batch[f]) /\ RowsOf(batch[f]) \subseteq Rows
  <2>1. DOMAIN batch[f] = 1..Len(batch[f]) /\ Len(batch[f]) \in Nat
    BY <1>2
  <2>2. k \in Nat /\ 1..k \subseteq DOMAIN batch[f]
    BY <1>1, <2>1, SizesAreNatural
  <2> QED BY <1>2, <2>2, RowsAreRows DEF RowsOf
<1> HIDE DEF rows
<1>4. db' \in [Rows -> Nat] /\ InTable' = InTable \cup rows
  BY <1>1, <1>3, StoredRows
<1>5. pending' \in Seq(Rows) /\ RowsOf(pending') = RowsOf(batch[f]) \cup RowsOf(pending)
  BY <1>1, <1>2, JoinedRows
<1>6. /\ batch'[f] = <<>> /\ \A g \in Flushers \ {f} : batch'[g] = batch[g]
      /\ batch' \in [Flushers -> Seq(Rows)]
  <2>1. <<>> \in Seq(Rows)
    OBVIOUS
  <2> QED BY <1>1, <2>1 DEF IInv, Typed
<1>7. RowsOf(batch'[f]) = {}
  BY <1>6 DEF RowsOf
<1>8. Held' = Held
  <2>1. \A r : r \in Held' <=> r \in Held
    BY <1>5, <1>6, <1>7, HeldIs, HeldThen
  <2> QED BY <2>1
<1>9. Known' = Known
  BY <1>3, <1>4, <1>8 DEF Known, Held
<1>10. Typed'
  BY <1>1, <1>4, <1>5, <1>6 DEF IInv, Typed
<1> QED BY <1>1, <1>9, <1>10, Kept

(* Every step keeps the invariant. *)
LEMMA Inductive ==
  ASSUME IInv, [Next]_vars
  PROVE  IInv'
<1>1. ASSUME NEW f \in Flushers, Flush(f), ~UNCHANGED <<writer, came>> PROVE IInv'
  BY <1>1, TakeStep, WrittenStep, FailedStep DEF Flush, NothingPending
<1>2. ASSUME UNCHANGED <<writer, came>> PROVE IInv'
  <2>1. UNCHANGED <<pending, batch, db, dropped, came>>
    BY <1>2 DEF writer
  <2>2. Typed' /\ Known' = Known
    BY <2>1 DEF IInv, Typed, Known, Held, InTable
  <2> QED BY <2>1, <2>2, Kept
<1>3. CASE Add
  BY <1>3, AddStep
<1>4. CASE BusLoss \/ StopSignal \/ HealthCheck \/ Joined \/ Leave \/ Pump \/ UNCHANGED vars
  BY <1>2, <1>4 DEF BusLoss, StopSignal, HealthCheck, Joined, Leave, Pump, vars
<1>5. CASE Flush("pump") \/ Flush("main")
  BY <1>1, <1>2, <1>5 DEF Flushers
<1> QED BY <1>3, <1>4, <1>5 DEF Next, PumpStep, MainStep

(* So it holds throughout. *)
LEMMA Invariant == Init /\ [][Next]_vars => []IInv
BY Initially, Inductive, PTL

(* What the threads and the health check have beside the rows is well      *)
(* typed.                                                                  *)
LEMMA ThreadTypes ==
  ASSUME IInv, TypeOK, [Next]_vars
  PROVE  TypeOK'
<1>1. Typed'
  BY Inductive DEF IInv
<1>2. came \in Nat /\ synced \in 0..came
  BY DEF TypeOK
<1> SUFFICES /\ synced' \in 0..came'
             /\ pump' \in {"drains", "waits", "ended"}
             /\ main' \in {"running", "joining", "draining", "leaving", "ended"}
             /\ published' \in {"running", "degraded", "stopped"}
  BY <1>1 DEF Typed, TypeOK
<1> USE DEF TypeOK
<1>3. CASE Add
  BY <1>2, <1>3 DEF Add, health
<1>4. ASSUME NEW f \in Flushers, Flush(f)
      PROVE  /\ UNCHANGED <<came, synced, published>>
             /\ UNCHANGED <<pump, main>> \/ DrainEnds(f)
  BY <1>4 DEF Flush, Take, Written, Failed, NothingPending, health
<1>5. CASE Flush("pump") \/ Flush("main")
  BY <1>2, <1>4, <1>5 DEF Flushers, DrainEnds
<1>6. CASE Pump
  BY <1>2, <1>6 DEF Pump, PumpWakes, health
<1>7. CASE HealthCheck
  <2>1. Reported[4] \in {"running", "degraded", "stopped"}
    BY DEF Reported
  <2>2. UNCHANGED <<came, pump, main>> /\ synced' = came /\ published' = Reported[4]
    BY <1>7 DEF HealthCheck
  <2> QED BY <1>2, <2>1, <2>2
<1>8. CASE BusLoss \/ StopSignal \/ Joined \/ Leave \/ UNCHANGED vars
  BY <1>2, <1>8 DEF BusLoss, StopSignal, Joined, Leave, vars, health
<1> QED BY <1>3, <1>5, <1>6, <1>7, <1>8 DEF Next, PumpStep, MainStep

(* TypeOK of Sinks, for any sizes of queue and batch.                      *)
THEOREM SinkTypesHold == Spec => []TypeOK
<1>1. Init => TypeOK
  BY Initially, SizesAreNatural DEF Init, TypeOK, IInv, Typed
<1> QED BY <1>1, ThreadTypes, Invariant, PTL DEF Spec

(* NothingUncounted: for any sizes of the queue and the batches, any       *)
(* number of rows and of writes that fail half way, and both threads       *)
(* draining at once (PgWriter.add, flush, drain, close).                   *)
THEOREM LossesAreCounted == Spec => []NothingUncounted
<1>1. IInv => NothingUncounted
  BY DEF IInv, Known, InTable, NothingUncounted
<1> QED BY <1>1, Invariant, PTL DEF Spec

-------------------------------------------------------------------------------
(* The rows of the alarms.                                                 *)

Keyed == [Channels -> Keys \cup {None}]

AlarmTypes ==
  /\ retained \in Keyed /\ last \in Keyed /\ newest \in Keyed
  /\ deliver \subseteq Channels /\ missed \subseteq Channels

(* The writer remembers what came last, and the newest row of what it      *)
(* remembers is that, unless the database refused it.                      *)
RememberedInv ==
  /\ \A c \in Channels \ deliver : retained[c] # None => last[c] = retained[c]
  /\ \A c \in Channels \ missed : last[c] # None => newest[c] = last[c]

AlarmInv == AlarmTypes /\ RememberedInv

(* Nothing was published yet.                                              *)
LEMMA AlarmInitially == R!Init => AlarmInv
BY DEF R!Init, AlarmInv, AlarmTypes, RememberedInv, Keyed

(* The engine publishes a state or takes it away: it is on its way.        *)
LEMMA ChangeStep ==
  ASSUME AlarmInv, NEW c \in Channels, NEW k \in Keys \cup {None}, R!Change(c, k)
  PROVE  AlarmInv'
<1>1. /\ retained' = [retained EXCEPT ![c] = k] /\ deliver' = deliver \cup {c}
      /\ UNCHANGED <<last, newest, missed>>
  BY DEF R!Change
<1> QED BY <1>1 DEF AlarmInv, AlarmTypes, RememberedInv, Keyed

(* A state comes: one that is new is stored or missed, and remembered.     *)
LEMMA HandleStep ==
  ASSUME AlarmInv, NEW c \in Channels, R!HandleAlarm(c)
  PROVE  AlarmInv'
<1>1. /\ deliver' = deliver \ {c} /\ last' = [last EXCEPT ![c] = retained[c]]
      /\ retained' = retained
  BY DEF R!HandleAlarm
<1>2. \/ (retained[c] = None \/ last[c] = retained[c]) /\ UNCHANGED <<newest, missed>>
      \/ newest' = [newest EXCEPT ![c] = retained[c]] /\ missed' = missed \ {c}
      \/ newest' = newest /\ missed' = missed \cup {c}
  BY DEF R!HandleAlarm, R!Known
<1>3. AlarmTypes'
  BY <1>1, <1>2 DEF AlarmInv, AlarmTypes, Keyed
<1>4. ASSUME NEW d \in Channels \ deliver', retained'[d] # None
      PROVE  last'[d] = retained'[d]
  BY <1>1, <1>4 DEF AlarmInv, AlarmTypes, RememberedInv, Keyed
<1>5. ASSUME NEW d \in Channels \ missed', last'[d] # None
      PROVE  newest'[d] = last'[d]
  BY <1>1, <1>2, <1>5 DEF AlarmInv, AlarmTypes, RememberedInv, Keyed
<1> QED BY <1>3, <1>4, <1>5 DEF AlarmInv, RememberedInv

(* What comes back sends what is retained; a restart remembers nothing.    *)
LEMMA ComesBack ==
  ASSUME AlarmInv, R!BusBack \/ R!SinksRestart
  PROVE  AlarmInv'
<1>1. /\ deliver' = {c \in Channels : retained[c] # None}
      /\ UNCHANGED <<retained, newest, missed>>
      /\ last' = last \/ last' = [c \in Channels |-> None]
  BY DEF R!BusBack, R!SinksRestart, R!States
<1> QED BY <1>1 DEF AlarmInv, AlarmTypes, RememberedInv, Keyed

(* Every step keeps the invariant.                                         *)
LEMMA AlarmStep ==
  ASSUME AlarmInv, [R!Next]_(R!vars)
  PROVE  AlarmInv'
<1>1. CASE R!HandleAudit \/ R!HandleSummary \/ R!DatabaseDown \/ R!DatabaseBack
           \/ UNCHANGED R!vars
  BY <1>1 DEF R!HandleAudit, R!HandleSummary, R!DatabaseDown, R!DatabaseBack, R!vars,
              AlarmInv, AlarmTypes, RememberedInv
<1> QED BY <1>1, ChangeStep, HandleStep, ComesBack DEF R!Next

(* NewestRowIsTrue: for any channels and alarms, and however often the     *)
(* database, the bus and the sinks go away, the newest row of a channel    *)
(* says what the engine shows as soon as its message has come, unless the  *)
(* database refused that row (alarm_writer.py).                            *)
THEOREM RowsFollowTheEngine == R!Spec => []NewestRowIsTrue
<1>1. AlarmInv => NewestRowIsTrue
  BY DEF AlarmInv, AlarmTypes, RememberedInv, NewestRowIsTrue, R!NewestRowIsTrue, Keyed
<1> QED BY <1>1, AlarmInitially, AlarmStep, PTL DEF R!Spec

-------------------------------------------------------------------------------
(* A step of the composition is a step of one part, or none.               *)
LEMMA PairStep ==
  ASSUME [PairNext]_<<part, vars, recordVars>>
  PROVE  [Next]_vars /\ [R!Next]_(R!vars)
<1>1. UNCHANGED recordVars => UNCHANGED R!vars
  BY DEF recordVars, R!vars
<1>2. CASE InQueue(Next)
  BY <1>1, <1>2 DEF InQueue
<1>3. CASE InRecords(R!Next)
  BY <1>3 DEF InRecords
<1> QED BY <1>1, <1>2, <1>3 DEF PairNext

(* The composition keeps the specification of both parts, fairness aside:  *)
(* what is proved of one of them holds in what the run explores.           *)
THEOREM PairKeepsBoth == PairSpec => Init /\ [][Next]_vars /\ R!Spec
<1>1. PairInit => Init /\ R!Init
  BY DEF PairInit
<1> QED BY <1>1, PairStep, PTL DEF PairSpec, R!Spec
===============================================================================
