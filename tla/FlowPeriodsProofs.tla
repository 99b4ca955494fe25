------------------------- MODULE FlowPeriodsProofs -------------------------
(***************************************************************************)
(* No second of flow is lost or added twice, for every length of time,     *)
(* every MAX_INTERVAL_S and any number of resets, deaths and saves that    *)
(* fail.                                                                   *)
(***************************************************************************)
EXTENDS FlowPeriods, TLAPS

\* Samples reach the service in the order of their times, none older than the
\* last one it has seen or saved; the broker keeps the newest.
InOrder ==
    /\ \A i, j \in DOMAIN wire : i <= j => wire[i].t <= wire[j].t
    /\ \A i \in DOMAIN wire :
          /\ wire[i].t <= now
          /\ disk.last <= wire[i].t
          /\ Up => mem.last <= wire[i].t
    /\ \A i \in DOMAIN wire : wire[i].t <= retained.t
    /\ retained.t <= now
    /\ disk.last <= retained.t
    /\ Up => mem.last <= retained.t

\* The sums of a state, with those of the closed periods, are exactly the
\* seconds between its first and its last sample.
Exact(state) ==
    /\ state.last = 0 <=> state.first = 0
    /\ state.first <= state.last
    /\ \A s \in Seconds :
          Counted(state, s) = IF state.first < s /\ s <= state.last THEN 1 ELSE 0

\* The inductive invariant: what is exact stays exact because samples come in
\* order, and it must hold of the file and of the memory at the same time.
IInv ==
    /\ TypeOK
    /\ overtakes = 0 => InOrder /\ Exact(disk) /\ (Up => Exact(mem))

-----------------------------------------------------------------------------
(* Lemmas on sequences.                                                    *)

LEMMA Appended ==
    ASSUME NEW S, NEW q \in Seq(S), NEW e \in S
    PROVE  /\ Append(q, e) \in Seq(S)
           /\ \A i \in DOMAIN Append(q, e) :
                 \/ i \in DOMAIN q /\ Append(q, e)[i] = q[i] /\ i <= Len(q)
                 \/ i = Len(q) + 1 /\ Append(q, e)[i] = e
           /\ \A i \in DOMAIN q : i \in Int /\ i <= Len(q)
           /\ Len(q) \in Int
OBVIOUS

LEMMA Shortened ==
    ASSUME NEW S, NEW q \in Seq(S), q # <<>>
    PROVE  /\ Head(q) \in S /\ Tail(q) \in Seq(S)
           /\ 1 \in DOMAIN q /\ Head(q) = q[1]
           /\ \A i \in DOMAIN q : 1 <= i /\ q[i] \in S
           /\ \A i \in DOMAIN Tail(q) :
                 i \in Int /\ i + 1 \in DOMAIN q /\ Tail(q)[i] = q[i + 1]
OBVIOUS

LEMMA OfOne ==
    ASSUME NEW S, NEW e \in S
    PROVE  <<e>> \in Seq(S) /\ \A i \in DOMAIN <<e>> : <<e>>[i] = e
OBVIOUS

LEMMA Swapped ==
    ASSUME NEW S, NEW q \in Seq(S), Len(q) >= 2
    PROVE  /\ [q EXCEPT ![Len(q) - 1] = q[Len(q)], ![Len(q)] = q[Len(q) - 1]] \in Seq(S)
           /\ q[Len(q) - 1] \in S
<1>1. Len(q) \in Nat /\ Len(q) - 1 \in 1 .. Len(q) /\ Len(q) \in 1 .. Len(q)
      /\ q \in [1 .. Len(q) -> S]
  OBVIOUS
<1>2. [q EXCEPT ![Len(q) - 1] = q[Len(q)], ![Len(q)] = q[Len(q) - 1]] \in [1 .. Len(q) -> S]
  BY <1>1
<1> QED
  BY <1>1, <1>2

-----------------------------------------------------------------------------
(* Lemmas on the sums.                                                     *)

Samples == [t : Seconds, ok : BOOLEAN]

LEMMA PlusType ==
    ASSUME NEW f \in Sums, NEW a \in Instants, NEW b \in Instants
    PROVE  Plus(f, a, b) \in Sums
BY TimesAreNatural DEF Sums, Plus, Seconds, Instants

\* Adding forward counts the seconds between the instants once more, each.
LEMMA PlusForward ==
    ASSUME NEW f \in Sums, NEW a \in Instants, NEW b \in Instants, a <= b,
           NEW s \in Seconds
    PROVE  Plus(f, a, b)[s] = IF a < s /\ s <= b THEN f[s] + 1 ELSE f[s]
BY TimesAreNatural DEF Sums, Plus, Seconds, Instants

\* A sample keeps a state well formed and moves its last instant.
LEMMA AccumulatedType ==
    ASSUME NEW state \in States, NEW m \in [t : Seconds, ok : BOOLEAN]
    PROVE  /\ Accumulated(state, m) \in States
           /\ Accumulated(state, m).last = m.t
           /\ Accumulated(state, m).first = IF state.first = 0 THEN m.t ELSE state.first
           /\ Accumulated(state, m).past = state.past
<1>1. m.t \in Instants /\ m.ok \in BOOLEAN /\ m.t \in Seconds
  BY TimesAreNatural DEF Seconds, Instants
<1>2. state.last \in Instants /\ state.first \in Instants /\ state.total \in Sums
      /\ state.gaps \in Sums /\ state.n \in Nat /\ state.past \in Pasts
  BY DEF States
<1>3. Plus(state.gaps, state.last, m.t) \in Sums /\ Plus(state.total, state.last, m.t) \in Sums
  BY <1>1, <1>2, PlusType
<1> DEFINE seen == [state EXCEPT !.last = m.t, !.first = IF @ = 0 THEN m.t ELSE @]
<1>4. seen \in States /\ seen.last = m.t
      /\ seen.first = (IF state.first = 0 THEN m.t ELSE state.first)
      /\ seen.gaps = state.gaps /\ seen.total = state.total /\ seen.past = state.past
  BY <1>1, <1>2 DEF States
<1>5. \/ Accumulated(state, m) = seen
      \/ Accumulated(state, m) = [seen EXCEPT !.gaps = Plus(@, state.last, m.t)]
      \/ Accumulated(state, m) = [seen EXCEPT !.total = Plus(@, state.last, m.t)]
  BY <1>1, <1>2 DEF Accumulated
<1> QED
  BY <1>1, <1>2, <1>3, <1>4, <1>5 DEF States

\* A sample that is not older than the last one adds the seconds between them
\* once, to the total or to the gaps, unless it is the first.
LEMMA AccumulatedOnce ==
    ASSUME NEW state \in States, NEW m \in [t : Seconds, ok : BOOLEAN],
           state.last <= m.t, NEW s \in Seconds
    PROVE  Accumulated(state, m).total[s] + Accumulated(state, m).gaps[s]
             = state.total[s] + state.gaps[s]
               + (IF state.last # 0 /\ state.last < s /\ s <= m.t THEN 1 ELSE 0)
<1>1. m.t \in Instants /\ m.ok \in BOOLEAN /\ m.t \in Seconds
  BY TimesAreNatural DEF Seconds, Instants
<1>2. state.last \in Instants /\ state.total \in Sums /\ state.gaps \in Sums
  BY DEF States
<1>3. state.total[s] \in Int /\ state.gaps[s] \in Int
  BY <1>2 DEF Sums
<1>4. /\ Plus(state.gaps, state.last, m.t)[s] =
            IF state.last < s /\ s <= m.t THEN state.gaps[s] + 1 ELSE state.gaps[s]
      /\ Plus(state.total, state.last, m.t)[s] =
            IF state.last < s /\ s <= m.t THEN state.total[s] + 1 ELSE state.total[s]
  BY <1>1, <1>2, PlusForward
<1> DEFINE seen == [state EXCEPT !.last = m.t, !.first = IF @ = 0 THEN m.t ELSE @]
<1>5. seen.gaps = state.gaps /\ seen.total = state.total /\ seen \in States
  BY <1>1 DEF States
<1>6. CASE state.last = 0
  <2>1. Accumulated(state, m) = seen
    BY <1>6 DEF Accumulated
  <2> QED BY <2>1, <1>3, <1>5, <1>6
<1>7. CASE state.last # 0 /\ (~m.ok \/ m.t - state.last > MaxInterval)
  <2>1. Accumulated(state, m) = [seen EXCEPT !.gaps = Plus(@, state.last, m.t)]
    BY <1>7, <1>1, <1>2, TimesAreNatural DEF Accumulated, Instants
  <2>2. Accumulated(state, m).gaps = Plus(state.gaps, state.last, m.t)
        /\ Accumulated(state, m).total = state.total
    BY <2>1, <1>5 DEF States
  <2> QED BY <2>2, <1>3, <1>4, <1>7
<1>8. CASE state.last # 0 /\ m.ok /\ m.t = state.last
  <2>1. Accumulated(state, m) = seen
    BY <1>8, <1>1, <1>2, TimesAreNatural DEF Accumulated, Instants
  <2>2. ~(state.last < s /\ s <= m.t)
    BY <1>8, <1>1, TimesAreNatural DEF Seconds
  <2> QED BY <2>1, <2>2, <1>3, <1>5
<1>9. CASE state.last # 0 /\ m.ok /\ m.t > state.last /\ m.t - state.last <= MaxInterval
  <2>1. Accumulated(state, m) = [seen EXCEPT !.total = Plus(@, state.last, m.t)]
    BY <1>9, <1>1, <1>2, TimesAreNatural DEF Accumulated, Instants
  <2>2. Accumulated(state, m).total = Plus(state.total, state.last, m.t)
        /\ Accumulated(state, m).gaps = state.gaps
    BY <2>1, <1>5 DEF States
  <2> QED BY <2>2, <1>3, <1>4, <1>9
<1> QED
  BY <1>1, <1>2, <1>6, <1>7, <1>8, <1>9, TimesAreNatural DEF Instants, Seconds

-----------------------------------------------------------------------------
(* Type correctness.                                                       *)

LEMMA FirstType ==
    /\ FirstPeriod \in States /\ FirstPeriod.last = 0 /\ FirstPeriod.first = 0
    /\ \A s \in Seconds : Counted(FirstPeriod, s) = 0
<1>1. 0 \in Instants /\ Never \in Sums /\ None \in Pasts
  BY TimesAreNatural DEF Instants, Never, Sums, None, Pasts
<1>2. FirstPeriod \in States
  BY <1>1 DEF FirstPeriod, States
<1> QED
  BY <1>2 DEF FirstPeriod, None, Never, Counted

\* A reset moves the sums into those of the past, and keeps everything else.
LEMMA ReopenedType ==
    ASSUME NEW state \in States
    PROVE  /\ Reopened(state) \in States
           /\ Reopened(state).last = state.last /\ Reopened(state).first = state.first
           /\ \A s \in Seconds : Counted(Reopened(state), s) = Counted(state, s)
<1>1. /\ state.total \in Sums /\ state.gaps \in Sums /\ state.n + 1 \in Nat
      /\ state.last \in Instants /\ state.first \in Instants
      /\ state.past.total \in Sums /\ state.past.gaps \in Sums
  BY DEF States, Pasts
<1>2. Closing(state) \in Pasts /\ Never \in Sums
  BY <1>1 DEF Closing, Pasts, Sums, Never
<1>3. Reopened(state) \in States
  BY <1>1, <1>2 DEF Reopened, Opened, States
<1>4. ASSUME NEW s \in Seconds PROVE Counted(Reopened(state), s) = Counted(state, s)
  <2>1. /\ state.past.total[s] \in Int /\ state.past.gaps[s] \in Int
        /\ state.total[s] \in Int /\ state.gaps[s] \in Int
    BY <1>1 DEF Sums
  <2>2. /\ Reopened(state).past.total[s] = state.past.total[s] + state.total[s]
        /\ Reopened(state).past.gaps[s] = state.past.gaps[s] + state.gaps[s]
        /\ Reopened(state).total[s] = 0 /\ Reopened(state).gaps[s] = 0
    BY DEF Reopened, Opened, Closing, Never
  <2> QED
    BY <2>1, <2>2 DEF Counted
<1> QED
  BY <1>3, <1>4 DEF Reopened, Opened

LEMMA InitType == Init => TypeOK
<1> SUFFICES ASSUME Init PROVE TypeOK
  OBVIOUS
<1>1. 0 \in Instants
  BY TimesAreNatural DEF Instants
<1> QED
  BY <1>1, FirstType DEF Init, TypeOK

LEMMA SampleType ==
    ASSUME TypeOK, NEW ok \in BOOLEAN, Sample(ok) PROVE TypeOK'
<1>1. now' \in Instants /\ now' \in Seconds
  BY TimesAreNatural DEF TypeOK, Sample, Instants, Seconds
<1>2. retained' \in [t : Seconds, ok : BOOLEAN] /\ retained' \in [t : Instants, ok : BOOLEAN]
  BY <1>1 DEF Sample
<1>3. wire' \in Seq(Samples)
  <2>1. retained' \in Samples /\ wire \in Seq(Samples)
    BY <1>2 DEF TypeOK, Samples
  <2> QED
    BY <2>1, Appended DEF Sample
<1> QED
  BY <1>1, <1>2, <1>3 DEF TypeOK, Sample, service, bounds, Samples

LEMMA OvertakenType == ASSUME TypeOK, Overtaken PROVE TypeOK'
<1>1. wire \in Seq(Samples) /\ Len(wire) >= 2
  BY DEF TypeOK, Overtaken, Samples
<1>2. wire' \in Seq(Samples) /\ retained' \in Samples
  BY <1>1, Swapped DEF Overtaken
<1>3. retained' \in [t : Instants, ok : BOOLEAN]
  BY <1>2, TimesAreNatural DEF Samples, Instants, Seconds
<1> QED
  BY <1>2, <1>3 DEF TypeOK, Overtaken, service, Samples

LEMMA AccumulateType == ASSUME TypeOK, Accumulate PROVE TypeOK'
<1>1. mem \in States /\ wire \in Seq(Samples) /\ wire # <<>>
  BY DEF TypeOK, Accumulate, Up, Samples
<1>2. Head(wire) \in Samples /\ Tail(wire) \in Seq(Samples)
  BY <1>1, Shortened
<1>3. mem' \in States
  BY <1>1, <1>2, AccumulatedType DEF Accumulate, Samples
<1> QED
  BY <1>2, <1>3 DEF TypeOK, Accumulate, bounds, Samples

LEMMA ResetType == ASSUME TypeOK, Reset PROVE TypeOK'
<1>1. mem \in States
  BY DEF TypeOK, Reset, Up
<1>2. mem' \in States
  BY <1>1, ReopenedType DEF Reset
<1> QED
  BY <1>2 DEF TypeOK, Reset, bounds

\* The file is written, or not.
LEMMA Saved ==
    ASSUME \E failed \in BOOLEAN : Save(failed) \/ SaveReset(failed)
    PROVE  /\ Up /\ disk' \in {disk, mem}
           /\ UNCHANGED <<now, wire, retained, mem, overtakes>>
BY DEF Save, SaveReset

LEMMA RestartType == ASSUME TypeOK, Restart PROVE TypeOK'
<1>1. retained.t # 0 => retained \in [t : Seconds, ok : BOOLEAN]
  BY TimesAreNatural DEF TypeOK, Instants, Seconds
<1>2. wire' \in Seq([t : Seconds, ok : BOOLEAN])
  <2>1. CASE retained.t = 0
    BY <2>1 DEF Restart
  <2>2. CASE retained.t # 0
    <3>1. wire' = <<retained>>
      BY <2>2 DEF Restart
    <3> QED BY <1>1, <2>2, <3>1, OfOne
  <2> QED BY <2>1, <2>2
<1> QED
  BY <1>2 DEF TypeOK, Restart, bounds

\* The steps of the table and of the page touch nothing that TypeOK and the
\* sums speak of.
Kept == <<now, wire, retained, mem, disk, overtakes>>

LEMMA Elsewhere ==
    \/ PublishPeriod \/ AskReset \/ SinkStep \/ SinksDie
    \/ \E failed \in BOOLEAN : SinksStart(failed)
    \/ UNCHANGED vars
    => UNCHANGED Kept
BY DEF PublishPeriod, AskReset, SinkStep, SinksStart, Record, SinksDie, vars, service, bounds, Kept

LEMMA TypeStep == TypeOK /\ [Next]_vars => TypeOK'
<1> SUFFICES ASSUME TypeOK, [Next]_vars PROVE TypeOK'
  OBVIOUS
<1>1. ASSUME UNCHANGED Kept PROVE TypeOK'
  BY <1>1 DEF Kept, TypeOK
<1>2. ASSUME MissedCycle PROVE TypeOK'
  BY <1>2, TimesAreNatural DEF TypeOK, MissedCycle, Instants, service, bounds
<1>3. ASSUME \E failed \in BOOLEAN : Save(failed) \/ SaveReset(failed) PROVE TypeOK'
  BY <1>3, Saved DEF TypeOK, Up
<1>4. ASSUME Die PROVE TypeOK'
  BY <1>4 DEF TypeOK, Die
<1> QED
  BY <1>1, <1>2, <1>3, <1>4, SampleType, OvertakenType, AccumulateType, ResetType, RestartType,
     Elsewhere
  DEF Next, DerivedStep

-----------------------------------------------------------------------------
(* The sums stay exact.                                                    *)

\* After one overtaking nothing is claimed.
LEMMA NoMoreClaims == TypeOK /\ Overtaken => overtakes' # 0
BY DEF TypeOK, Overtaken

LEMMA SampleExact ==
    ASSUME IInv, overtakes = 0, NEW ok \in BOOLEAN, Sample(ok)
    PROVE  InOrder' /\ Exact(disk)' /\ (Up => Exact(mem))'
<1>1. now' = now + 1 /\ retained'.t = now + 1 /\ now \in Int
      /\ wire \in Seq(Samples) /\ disk.last \in Int /\ (Up => mem.last \in Int)
      /\ retained.t \in Int
  BY TimesAreNatural DEF Sample, IInv, TypeOK, Instants, Up, States, Samples
<1>2. UNCHANGED <<mem, disk>>
  BY DEF Sample, service
<1>3. InOrder /\ disk.last <= now /\ (Up => mem.last <= now)
  BY <1>1 DEF IInv, InOrder
<1>4. Exact(disk)' /\ (Up => Exact(mem))'
  BY <1>2 DEF IInv, Exact, Counted, Up
<1>5. \A i \in DOMAIN wire : wire[i].t \in Int
  <2>1. \A i \in DOMAIN wire : wire[i] \in Samples
    BY <1>1
  <2> QED BY <2>1, TimesAreNatural DEF Samples, Seconds
<1>6. retained' \in Samples
  BY TimesAreNatural, <1>1 DEF Sample, Samples, Seconds, IInv, TypeOK, Instants
<1>7. InOrder'
  <2>1. CASE wire' = wire
    BY <1>1, <1>2, <1>3, <1>5, <2>1 DEF InOrder, Up
  <2>2. CASE wire' = Append(wire, retained')
    <3>1. \A i \in DOMAIN wire' : \/ i \in DOMAIN wire /\ wire'[i] = wire[i] /\ i <= Len(wire)
                                  \/ i = Len(wire) + 1 /\ wire'[i] = retained'
      BY <1>1, <1>6, <2>2, Appended
    <3>2. Len(wire) \in Int /\ \A i \in DOMAIN wire : i \in Int
      BY <1>1, <1>6, Appended
    <3>3. \A i \in DOMAIN wire' : wire'[i].t <= now + 1 /\ disk.last <= wire'[i].t
                                  /\ (Up => mem.last <= wire'[i].t)
      BY <1>1, <1>3, <1>5, <3>1 DEF InOrder
    <3>4. \A i, j \in DOMAIN wire' : i <= j => wire'[i].t <= wire'[j].t
      BY <1>1, <1>3, <1>5, <3>1, <3>2 DEF InOrder
    <3> QED
      BY <1>1, <1>2, <1>3, <3>3, <3>4 DEF InOrder, Up
  <2> QED
    BY <2>1, <2>2 DEF Sample
<1> QED
  BY <1>4, <1>7

LEMMA AccumulateExact ==
    ASSUME IInv, overtakes = 0, Accumulate
    PROVE  InOrder' /\ Exact(disk)' /\ (Up => Exact(mem))'
<1> DEFINE m == Head(wire)
<1>1. wire \in Seq(Samples) /\ wire # <<>> /\ mem \in States
      /\ wire' = Tail(wire) /\ mem' = Accumulated(mem, m) /\ Up
  BY DEF IInv, TypeOK, Accumulate, Up, Samples
<1>2. UNCHANGED <<now, disk, retained>>
  BY DEF Accumulate
<1>3. /\ m \in Samples /\ 1 \in DOMAIN wire /\ m = wire[1]
      /\ \A i \in DOMAIN wire : 1 <= i
      /\ \A i \in DOMAIN wire' : i \in Int /\ i + 1 \in DOMAIN wire /\ wire'[i] = wire[i + 1]
  BY <1>1, Shortened
<1>4. mem.last <= m.t /\ m.t <= retained.t /\ Exact(mem) /\ Exact(disk) /\ InOrder
  BY <1>1, <1>3 DEF IInv, InOrder
<1>5. /\ mem' \in States
      /\ mem'.last = m.t
      /\ mem'.first = IF mem.first = 0 THEN m.t ELSE mem.first
      /\ mem'.past = mem.past
  BY <1>1, <1>3, AccumulatedType DEF Samples
<1>6. \A i \in DOMAIN wire : m.t <= wire[i].t
  BY <1>3, <1>4 DEF InOrder
<1>7. InOrder'
  <2>1. \A i, j \in DOMAIN wire' : i <= j => wire'[i].t <= wire'[j].t
    BY <1>3, <1>4 DEF InOrder
  <2> QED
    BY <1>2, <1>3, <1>4, <1>5, <1>6, <2>1 DEF InOrder
<1>8. Exact(disk)'
  BY <1>2, <1>4 DEF Exact, Counted
<1>9. Exact(mem)'
  <2>1. m.t \in Seconds /\ m.t \in Int /\ m.t >= 1 /\ mem.last \in Int /\ mem.first \in Int
        /\ mem.first >= 0 /\ mem.last >= 0
    BY <1>1, <1>3, TimesAreNatural DEF Samples, Seconds, States, Instants
  <2>2. ASSUME NEW s \in Seconds
        PROVE  Counted(mem, s)' = IF mem'.first < s /\ s <= mem'.last THEN 1 ELSE 0
    <3>1. mem'.total[s] + mem'.gaps[s] = mem.total[s] + mem.gaps[s]
             + (IF mem.last # 0 /\ mem.last < s /\ s <= m.t THEN 1 ELSE 0)
      BY <1>1, <1>3, <1>4, AccumulatedOnce DEF Samples
    <3>2. /\ mem.past.total[s] \in Int /\ mem.past.gaps[s] \in Int
          /\ mem.total[s] \in Int /\ mem.gaps[s] \in Int
          /\ mem'.total[s] \in Int /\ mem'.gaps[s] \in Int /\ s \in Int
      <4>1. /\ mem.past.total \in Sums /\ mem.past.gaps \in Sums
            /\ mem.total \in Sums /\ mem.gaps \in Sums
            /\ mem'.total \in Sums /\ mem'.gaps \in Sums
        BY <1>1, <1>5 DEF States, Pasts
      <4>2. \A f \in Sums : f[s] \in Int
        BY DEF Sums
      <4>3. s \in Int
        BY TimesAreNatural DEF Seconds
      <4> QED BY <4>1, <4>2, <4>3
    <3>3. Counted(mem, s) = IF mem.first < s /\ s <= mem.last THEN 1 ELSE 0
      BY <1>4 DEF Exact
    <3>4. Counted(mem, s)' = Counted(mem, s)
             + (IF mem.last # 0 /\ mem.last < s /\ s <= m.t THEN 1 ELSE 0)
      <4> DEFINE more == IF mem.last # 0 /\ mem.last < s /\ s <= m.t THEN 1 ELSE 0
      <4>1. Counted(mem, s) =
              mem.past.total[s] + mem.past.gaps[s] + mem.total[s] + mem.gaps[s]
        BY DEF Counted
      <4>2. Counted(mem, s)' =
              mem.past.total[s] + mem.past.gaps[s] + mem'.total[s] + mem'.gaps[s]
        BY <1>5 DEF Counted
      <4>3. more \in Int
        OBVIOUS
      <4>4. mem'.total[s] + mem'.gaps[s] = mem.total[s] + mem.gaps[s] + more
        BY <3>1
      <4> HIDE DEF more
      <4>5. Counted(mem, s)' = Counted(mem, s) + more
        <5>1. mem.past.total[s] + mem.past.gaps[s] + mem'.total[s] + mem'.gaps[s]
                = mem.past.total[s] + mem.past.gaps[s] + mem.total[s] + mem.gaps[s] + more
          <6> DEFINE a == mem.past.total[s]
                     b == mem.past.gaps[s]
                     c == mem.total[s]
                     d == mem.gaps[s]
                     x == mem'.total[s]
                     y == mem'.gaps[s]
          <6>1. a \in Int /\ b \in Int /\ c \in Int /\ d \in Int /\ x \in Int /\ y \in Int
            BY <3>2
          <6>2. x + y = c + d + more
            BY <4>4
          <6> HIDE DEF a, b, c, d, x, y
          <6>3. a + b + x + y = a + b + c + d + more
            BY <4>3, <6>1, <6>2
          <6> QED BY <6>3 DEF a, b, c, d, x, y
        <5> QED BY <4>1, <4>2, <5>1
      <4> QED BY <4>5 DEF more
    <3> QED
      BY <1>4, <1>5, <2>1, <3>2, <3>3, <3>4 DEF Exact
  <2> QED
    BY <1>4, <1>5, <2>1, <2>2 DEF Exact
<1> QED
  BY <1>7, <1>8, <1>9

LEMMA ResetExact ==
    ASSUME IInv, overtakes = 0, Reset
    PROVE  InOrder' /\ Exact(disk)' /\ (Up => Exact(mem))'
<1>1. mem \in States /\ Exact(mem) /\ Exact(disk) /\ InOrder /\ Up
  BY DEF IInv, TypeOK, Reset, Up
<1>2. mem' = Reopened(mem) /\ UNCHANGED <<now, wire, retained, disk>>
  BY DEF Reset
<1>3. mem'.last = mem.last /\ mem'.first = mem.first
  BY <1>1, <1>2, ReopenedType
<1>4. ASSUME NEW s \in Seconds PROVE Counted(mem, s)' = Counted(mem, s)
  <2>1. Counted(mem, s)' = Counted(Reopened(mem), s)
    BY <1>2 DEF Counted
  <2> QED BY <1>1, <2>1, ReopenedType
<1>5. Exact(mem)'
  BY <1>1, <1>3, <1>4 DEF Exact
<1>6. Exact(disk)'
  BY <1>1, <1>2 DEF Exact, Counted
<1>7. InOrder'
  BY <1>1, <1>2, <1>3 DEF InOrder
<1> QED
  BY <1>5, <1>6, <1>7

LEMMA RestartExact ==
    ASSUME IInv, overtakes = 0, Restart
    PROVE  InOrder' /\ Exact(disk)' /\ (Up => Exact(mem))'
<1>1. /\ mem' = disk /\ Exact(disk) /\ InOrder
      /\ UNCHANGED <<now, retained, disk>>
  BY DEF IInv, Restart
<1>2. Exact(disk)' /\ Exact(mem)'
  BY <1>1 DEF Exact, Counted
<1>3. retained.t \in Int
  BY TimesAreNatural DEF IInv, TypeOK, Instants
<1>4. \A i \in DOMAIN wire' : wire'[i].t = retained.t
  <2>1. CASE wire' = <<>>
    <3>1. DOMAIN wire' = {}
      BY <2>1
    <3> QED BY <3>1
  <2>2. CASE wire' = <<retained>>
    BY <2>2
  <2> QED
    BY <2>1, <2>2 DEF Restart
<1>5. /\ retained.t <= now /\ disk.last <= retained.t
      /\ mem'.last = disk.last
  BY <1>1 DEF InOrder
<1>6. InOrder'
  BY <1>1, <1>3, <1>4, <1>5 DEF InOrder
<1> QED
  BY <1>2, <1>6

LEMMA InvStep == IInv /\ [Next]_vars => IInv'
<1> SUFFICES ASSUME IInv, [Next]_vars PROVE IInv'
  OBVIOUS
<1>1. TypeOK'
  BY TypeStep DEF IInv
<1> DEFINE Goal == InOrder' /\ Exact(disk)' /\ (Up => Exact(mem))'
<1>2. ASSUME overtakes' = 0, UNCHANGED Kept PROVE Goal
  BY <1>2 DEF IInv, Kept, InOrder, Exact, Counted, Up
<1>3. ASSUME overtakes' = 0, MissedCycle PROVE Goal
  <2>1. now' = now + 1 /\ now \in Int /\ retained.t \in Int
        /\ UNCHANGED <<wire, retained, mem, disk, overtakes>>
    BY <1>3, TimesAreNatural DEF MissedCycle, service, bounds, IInv, TypeOK, Instants
  <2>2. \A i \in DOMAIN wire : wire[i].t \in Int
    <3>1. wire \in Seq(Samples)
      BY DEF IInv, TypeOK, Samples
    <3>2. \A i \in DOMAIN wire : wire[i] \in Samples
      BY <3>1
    <3> QED BY <3>2, TimesAreNatural DEF Samples, Seconds
  <2> QED
    BY <1>3, <2>1, <2>2 DEF IInv, InOrder, Exact, Counted, Up
<1>4. ASSUME overtakes' = 0, \E failed \in BOOLEAN : Save(failed) \/ SaveReset(failed)
      PROVE Goal
  <2>1. /\ Up /\ Up' /\ overtakes = 0
        /\ UNCHANGED <<now, wire, retained, mem>>
        /\ disk' = disk \/ disk' = mem
    BY <1>4, Saved DEF Up
  <2>2. InOrder /\ Exact(disk) /\ Exact(mem)
    BY <2>1 DEF IInv
  <2>3. CASE disk' = disk
    BY <2>1, <2>2, <2>3 DEF InOrder, Exact, Counted
  <2>4. CASE disk' = mem
    BY <2>1, <2>2, <2>4 DEF InOrder, Exact, Counted
  <2> QED
    BY <2>1, <2>3, <2>4
<1>5. ASSUME overtakes' = 0, Die PROVE Goal
  <2>1. /\ ~Up' /\ wire' = <<>> /\ overtakes = 0
        /\ UNCHANGED <<now, retained, disk>>
    BY <1>5 DEF Die, Up
  <2> QED
    BY <2>1 DEF IInv, InOrder, Exact, Counted
<1>6. ASSUME overtakes' = 0, Accumulate \/ Reset \/ Restart \/ \E ok \in BOOLEAN : Sample(ok)
      PROVE Goal
  <2>1. overtakes = 0
    BY <1>6 DEF Accumulate, Reset, Restart, Sample, bounds
  <2> QED
    BY <1>6, <2>1, AccumulateExact, ResetExact, RestartExact, SampleExact
<1>7. overtakes' = 0 => Goal
  BY <1>2, <1>3, <1>4, <1>5, <1>6, Elsewhere, NoMoreClaims DEF Next, DerivedStep, IInv
<1> QED
  BY <1>1, <1>7 DEF IInv

LEMMA InvInit == Init => IInv
<1> SUFFICES ASSUME Init PROVE IInv
  OBVIOUS
<1>1. disk = FirstPeriod /\ mem = disk /\ wire = <<>> /\ now = 0 /\ retained.t = 0
  BY DEF Init
<1>2. Exact(disk)
  <2>1. \A s \in Seconds : s > 0 /\ s \in Int
    BY TimesAreNatural DEF Seconds
  <2> QED
    BY <1>1, <2>1, FirstType DEF Exact
<1> QED
  BY <1>1, <1>2, InitType, FirstType DEF IInv, InOrder

\* Every reachable state has values of the right kind: the sums stay integers
\* over the seconds, the state file is always a whole state.
THEOREM TypeCorrect == Spec => []TypeOK
<1>1. Init => TypeOK
  BY InitType
<1>2. TypeOK /\ [Next]_vars => TypeOK'
  BY TypeStep
<1> QED
  BY <1>1, <1>2, PTL DEF Spec

\* As long as samples arrive in order, no second of flow is lost or added
\* twice, whatever dies and however often the period is reset.
THEOREM SecondsAreKept == Spec => []EverySecondOnce
<1>1. IInv => EverySecondOnce
  BY DEF IInv, EverySecondOnce, Exact, Up
<1> QED
  BY <1>1, InvInit, InvStep, PTL DEF Spec
=============================================================================
