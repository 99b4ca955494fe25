--------------------------- MODULE AlarmEngineProofs ---------------------------
(***************************************************************************)
(* The safety of the alarm engine, for any set of channels, any limits,    *)
(* any queue length and any number of restarts; and of its threshold rule, *)
(* for any limits, hysteresis and readings.                                *)
(***************************************************************************)
EXTENDS Alarms, FiniteSetTheorems, SequenceTheorems, TLAPS

-------------------------------------------------------------------------------
(* Helpers. *)

LEMMA SeverityRank == \A s \in Severities : SEVERITY_ORDER[s] \in Nat
  BY DEF Severities, SEVERITY_ORDER

(* What _threshold_for returns: ok and no threshold, or a limit that the   *)
(* configuration has, with its severity.                                   *)
LEMMA VerdictType ==
  ASSUME NEW limits, IsLimits(limits), NEW value \in Int, NEW current
  PROVE  LET v == ThresholdFor(limits, value, current)
         IN /\ v.severity \in Severities
            /\ \/ v.threshold = NoThreshold /\ v.severity = "ok"
               \/ v.threshold \in DOMAIN limits /\ v.severity # "ok"
<1> DEFINE v == ThresholdFor(limits, value, current)
<1>1. \/ v = NoAlarm
      \/ \E name \in DOMAIN limits : v = Verdict(limits, name)
  BY DEF ThresholdFor, Tripped
<1>2. \A name \in DOMAIN limits : limits[name].severity \in Severities \ {"ok"}
  BY DEF IsLimits, Limit
<1> QED
  BY <1>1, <1>2 DEF NoAlarm, Verdict, Severities

LEMMA OrderingIsSeq ==
  ASSUME NEW S, S \subseteq Channels, NEW order \in Orderings(S)
  PROVE  order \in Seq(Channels)
<1>1. IsFiniteSet(S)
  BY AlarmAssumption, FS_Subset
<1>2. Cardinality(S) \in Nat
  BY <1>1, FS_CardinalityType
<1>3. order \in [1..Cardinality(S) -> Channels]
  BY DEF Orderings
<1> QED
  BY <1>2, <1>3

LEMMA EnqueueType ==
  ASSUME NEW queue \in Seq(Channels), Len(queue) <= NOTIFY_QUEUE_MAX,
         NEW messages \in Seq(Channels)
  PROVE  /\ Enqueue(queue, messages) \in Seq(Channels)
         /\ Len(Enqueue(queue, messages)) <= NOTIFY_QUEUE_MAX
<1> DEFINE room == NOTIFY_QUEUE_MAX - Len(queue)
           n == IF Len(messages) < room THEN Len(messages) ELSE room
           fits == SubSeq(messages, 1, n)
<1>1. NOTIFY_QUEUE_MAX \in Nat /\ Len(queue) \in Nat /\ Len(messages) \in Nat
  BY AlarmAssumption
<1>2. n \in Nat /\ n <= room /\ n <= Len(messages)
  BY <1>1
<1>3. \A i \in 1..n : messages[i] \in Channels
  BY <1>1, <1>2, ElementOfSeq
<1>4. fits \in Seq(Channels) /\ Len(fits) = n
  BY <1>2, <1>3, SubSeqProperties
<1>5. Enqueue(queue, messages) = queue \o fits
  BY DEF Enqueue
<1>6. Len(queue) + n <= NOTIFY_QUEUE_MAX
  BY <1>1, <1>2
<1> HIDE DEF n, fits
<1>7. /\ queue \o fits \in Seq(Channels)
      /\ Len(queue \o fits) = Len(queue) + Len(fits)
  BY <1>4, ConcatProperties, Zenon
<1> QED
  BY <1>4, <1>5, <1>6, <1>7

(* _transition keeps every type. *)
LEMMA TransitionType ==
  ASSUME TypeOK, NEW who \in SUBSET Channels, NEW s \in Severities,
         NEW t \in Conditions, Transition(who, s, t)
  PROVE  /\ severity' \in [Channels -> Severities]
         /\ threshold' \in [Channels -> Conditions]
         /\ acknowledged' \in [Channels -> BOOLEAN]
         /\ sinceNotified' \in [Channels -> 0..MinRepeat]
         /\ retained' \in [Channels -> Alarm \cup {Absent}]
         /\ outbox' \in Seq(Channels) /\ Len(outbox') <= NOTIFY_QUEUE_MAX
         /\ told' \in [Channels -> BOOLEAN]
<1>1. /\ severity' \in [Channels -> Severities]
      /\ threshold' \in [Channels -> Conditions]
  BY DEF TypeOK, Transition
<1>2. \A c \in Channels : AckAfter(c, s) \in BOOLEAN
  BY DEF TypeOK, AckAfter
<1>3. acknowledged' \in [Channels -> BOOLEAN]
  BY <1>2 DEF TypeOK, Transition
<1>4. sinceNotified' \in [Channels -> 0..MinRepeat]
  BY AlarmAssumption DEF TypeOK, Transition
<1>5. \A c \in Channels : Shown(s, t, AckAfter(c, s)) \in Alarm
  BY <1>2 DEF Shown, Alarm
<1>6. retained' \in [Channels -> Alarm \cup {Absent}]
  BY <1>5 DEF TypeOK, Transition
<1>7. outbox' \in Seq(Channels) /\ Len(outbox') <= NOTIFY_QUEUE_MAX
  <2> DEFINE announced == {c \in who : Announces(c, s, t)}
  <2>1. PICK order \in Orderings(announced) : outbox' = Enqueue(outbox, order)
    BY DEF Transition
  <2>2. order \in Seq(Channels)
    BY <2>1, OrderingIsSeq
  <2> QED
    BY <2>1, <2>2, EnqueueType DEF TypeOK
<1>8. told' \in [Channels -> BOOLEAN]
  BY DEF TypeOK, Transition
<1> QED
  BY <1>1, <1>3, <1>4, <1>6, <1>7, <1>8

LEMMA ReadingVerdict ==
  ASSUME TypeOK, NEW c \in Channels, NEW value \in Readings
  PROVE  LET v == ThresholdFor(config.limits[c], value, threshold[c])
         IN /\ v.severity \in Severities
            /\ v.threshold \in Conditions
            /\ \/ v.threshold = NoThreshold /\ v.severity = "ok"
               \/ /\ v.threshold \in ThresholdNames
                  /\ v.severity # "ok"
                  /\ HasLimits(c)
<1>1. IsLimits(config.limits[c])
  BY AlarmAssumption DEF TypeOK, IsConfig
<1>2. value \in Int
  BY AlarmAssumption
<1>3. DOMAIN config.limits[c] \subseteq ThresholdNames
  BY <1>1 DEF IsLimits
<1> QED
  BY <1>1, <1>2, <1>3, VerdictType DEF HasLimits, Conditions

LEMMA BlankType ==
  ASSUME TypeOK, NEW S, Blank(S)
  PROVE  /\ severity' \in [Channels -> Severities]
         /\ threshold' \in [Channels -> Conditions]
         /\ acknowledged' \in [Channels -> BOOLEAN]
         /\ stale' \in [Channels -> BOOLEAN]
         /\ age' \in [Channels -> 0..(StaleAfter + 1)]
         /\ sinceNotified' \in [Channels -> 0..MinRepeat]
         /\ silence' \in [Channels -> 0..MaxSilence]
         /\ told' \in [Channels -> BOOLEAN]
         /\ ackedAs' \in [Channels -> Severities]
<1>1. "ok" \in Severities /\ NoThreshold \in Conditions
  BY DEF Severities, Conditions
<1>2. 0 \in 0..(StaleAfter + 1) /\ MinRepeat \in 0..MinRepeat /\ 0 \in 0..MaxSilence
  BY AlarmAssumption
<1>3. /\ severity' \in [Channels -> Severities]
      /\ threshold' \in [Channels -> Conditions]
      /\ ackedAs' \in [Channels -> Severities]
  BY <1>1 DEF TypeOK, Blank
<1>4. /\ age' \in [Channels -> 0..(StaleAfter + 1)]
      /\ sinceNotified' \in [Channels -> 0..MinRepeat]
      /\ silence' \in [Channels -> 0..MaxSilence]
  BY <1>2 DEF TypeOK, Blank
<1>5. /\ acknowledged' \in [Channels -> BOOLEAN]
      /\ stale' \in [Channels -> BOOLEAN]
      /\ told' \in [Channels -> BOOLEAN]
  BY DEF TypeOK, Blank
<1> QED
  BY <1>3, <1>4, <1>5

-------------------------------------------------------------------------------
(* Type correctness: one step per action. *)

LEMMA InitType == Init => TypeOK
<1> SUFFICES ASSUME Init PROVE TypeOK
  OBVIOUS
<1>1. "ok" \in Severities /\ NoThreshold \in Conditions
  BY DEF Severities, Conditions
<1>2. 0 \in 0..(StaleAfter + 1) /\ MinRepeat \in 0..MinRepeat
      /\ 0 \in 0..MaxSilence /\ 0 \in 0..MaxFaults
  BY AlarmAssumption
<1>3. <<>> \in Seq(Channels) /\ Len(<<>>) <= NOTIFY_QUEUE_MAX
  BY AlarmAssumption
<1> QED
  BY <1>1, <1>2, <1>3 DEF Init, TypeOK

LEMMA StepType == TypeOK /\ [Next]_vars => TypeOK'
<1> SUFFICES ASSUME TypeOK, [Next]_vars PROVE TypeOK'
  OBVIOUS
<1> USE DEF stateVars, timeVars, switchVars, queueVars, envVars
<1>1. ASSUME NEW c \in Channels, OnMeasurement(c) PROVE TypeOK'
  <2>1. /\ known' \subseteq Channels
        /\ age' \in [Channels -> 0..(StaleAfter + 1)]
        /\ stale' \in [Channels -> BOOLEAN]
    BY <1>1, AlarmAssumption DEF OnMeasurement, TypeOK
  <2>2. \E s \in Severities, t \in Conditions : Transition({c}, s, t)
    <3>1. "major" \in Severities
      BY DEF Severities
    <3>2. CASE \E quality \in BadQualities : Transition({c}, "major", quality)
      BY <3>1, <3>2 DEF Conditions
    <3>3. CASE \E value \in Readings :
                 LET v == ThresholdFor(config.limits[c], value, threshold[c])
                 IN Transition({c}, v.severity, v.threshold)
      BY <3>3, ReadingVerdict
    <3> QED
      BY <1>1, <3>2, <3>3 DEF OnMeasurement
  <2>3. PICK s \in Severities, t \in Conditions : Transition({c}, s, t)
    BY <2>2
  <2>4. {c} \in SUBSET Channels
    OBVIOUS
  <2> QED
    BY <1>1, <2>1, <2>3, <2>4, TransitionType DEF OnMeasurement, TypeOK
<1>2. ASSUME NEW c \in Channels, OnRetainedAlarm(c) PROVE TypeOK'
  <2>1. AllClear \in Alarm
    BY DEF AllClear, Alarm, Severities, Conditions
  <2> QED
    BY <1>2, <2>1 DEF OnRetainedAlarm, TypeOK
<1>3. ASSUME NEW on \in BOOLEAN, SetNotifications(on) PROVE TypeOK'
  BY <1>3 DEF SetNotifications, TypeOK
<1>4. ASSUME NEW c \in Channels, NEW on \in BOOLEAN, SetArmed(c, on) PROVE TypeOK'
  BY <1>4 DEF SetArmed, TypeOK
<1>5. CASE ReloadConfig
  BY <1>5 DEF ReloadConfig, TypeOK
<1>6. CASE ReloadForget
  <2> DEFINE gone == {c \in known : ~Watched(c)}
  <2>1. Blank(gone)
    BY <1>6 DEF ReloadForget
  <2>2. \A c \in Channels : WithdrawnWith(c) \in Alarm
    BY DEF WithdrawnWith, Shown, Alarm, TypeOK, Severities, Conditions
  <2>3. retained' \in [Channels -> Alarm \cup {Absent}]
    BY <1>6, <2>2 DEF ReloadForget, TypeOK
  <2> QED
    BY <1>6, <2>1, <2>3, BlankType DEF ReloadForget, TypeOK
<1>7. CASE ReloadClear
  <2>1. "ok" \in Severities /\ NoThreshold \in Conditions
    BY DEF Severities, Conditions
  <2>2. \A c \in Channels : Shown("ok", NoThreshold, acknowledged[c]) \in Alarm
    BY <2>1 DEF Shown, Alarm, TypeOK
  <2>3. /\ severity' \in [Channels -> Severities]
        /\ threshold' \in [Channels -> Conditions]
        /\ told' \in [Channels -> BOOLEAN]
    BY <1>7, <2>1 DEF ReloadClear, TypeOK
  <2>4. retained' \in [Channels -> Alarm \cup {Absent}]
    BY <1>7, <2>2 DEF ReloadClear, TypeOK
  <2> QED
    BY <1>7, <2>3, <2>4 DEF ReloadClear, TypeOK
<1>8. ASSUME NEW c \in Channels, Acknowledge(c) PROVE TypeOK'
  <2>1. Shown(severity[c], threshold[c], TRUE) \in Alarm
    BY DEF Shown, Alarm, TypeOK
  <2> QED
    BY <1>8, <2>1 DEF Acknowledge, TypeOK
<1>9. ASSUME NEW c \in Channels, Silence(c) PROVE TypeOK'
  <2>1. 1..MaxSilence \subseteq 0..MaxSilence
    BY AlarmAssumption
  <2> QED
    BY <1>9, <2>1 DEF Silence, TypeOK
<1>10. CASE CheckStaleness
  <2>1. Overdue \in SUBSET Channels
    BY DEF Overdue, TypeOK
  <2>2. StalenessSeverity \in Severities /\ "staleness" \in Conditions
    BY AlarmAssumption DEF Conditions
  <2>3. stale' \in [Channels -> BOOLEAN]
    BY <1>10 DEF CheckStaleness, TypeOK
  <2> QED
    BY <1>10, <2>1, <2>2, <2>3, TransitionType DEF CheckStaleness, TypeOK
<1>11. CASE PumpTake
  <2>1. Tail(outbox) \in Seq(Channels) /\ Len(Tail(outbox)) <= NOTIFY_QUEUE_MAX
    BY <1>11, HeadTailProperties, AlarmAssumption DEF PumpTake, TypeOK
  <2> QED
    BY <1>11, <2>1 DEF PumpTake, TypeOK
<1>12. CASE PumpSent
  BY <1>12 DEF PumpSent, AfterSend, TypeOK
<1>13. CASE Tick
  <2>1. \A c \in Channels : Older(age[c], StaleAfter + 1) \in 0..(StaleAfter + 1)
    BY AlarmAssumption DEF Older, TypeOK
  <2>2. \A c \in Channels : Older(sinceNotified[c], MinRepeat) \in 0..MinRepeat
    BY AlarmAssumption DEF Older, TypeOK
  <2>3. \A c \in Channels : (IF silence[c] > 0 THEN silence[c] - 1 ELSE 0) \in 0..MaxSilence
    BY AlarmAssumption DEF TypeOK
  <2>4. /\ age' \in [Channels -> 0..(StaleAfter + 1)]
        /\ sinceNotified' \in [Channels -> 0..MinRepeat]
        /\ silence' \in [Channels -> 0..MaxSilence]
    BY <1>13, <2>1, <2>2, <2>3 DEF Tick, TypeOK
  <2> QED
    BY <1>13, <2>4 DEF Tick, TypeOK
<1>14. ASSUME NEW c \in Channels, SensorDies(c) PROVE TypeOK'
  BY <1>14 DEF SensorDies, TypeOK
<1>15. ASSUME NEW c \in Channels, SensorReturns(c) PROVE TypeOK'
  BY <1>15 DEF SensorReturns, TypeOK
<1>16. CASE Reconnect
  <2>1. faults' \in 0..MaxFaults
    BY <1>16, AlarmAssumption DEF Reconnect, TypeOK
  <2> QED
    BY <1>16, <2>1 DEF Reconnect, TypeOK
<1>17. CASE Restart
  <2>1. faults' \in 0..MaxFaults
    BY <1>17, AlarmAssumption DEF Restart, TypeOK
  <2>2. <<>> \in Seq(Channels) /\ Len(<<>>) <= NOTIFY_QUEUE_MAX
    BY AlarmAssumption
  <2> QED
    BY <1>17, <2>1, <2>2, BlankType DEF Restart, TypeOK
<1>18. CASE UNCHANGED vars
  BY <1>18 DEF vars, TypeOK
<1> QED
  BY <1>1, <1>2, <1>3, <1>4, <1>5, <1>6, <1>7, <1>8, <1>9, <1>10, <1>11,
     <1>12, <1>13, <1>14, <1>15, <1>16, <1>17, <1>18 DEF Next

(* Every variable keeps its type, and the outbox its bound. *)
THEOREM TypeCorrect == Spec => []TypeOK
  BY InitType, StepType, PTL DEF Spec

-------------------------------------------------------------------------------
(* The inductive invariant.  ReloadLeavesNoGhost speaks of the moments     *)
(* between reloads; between reload's two locked sections the first half    *)
(* already holds and the second does not yet.                              *)
NoGhost ==
  /\ loading # "forget" => known \subseteq config.watched
  /\ loading = "no" => \A c \in known : threshold[c] \in ThresholdNames => HasLimits(c)

Inv == RetainedAgrees /\ StaleFlagIsTheAlarm /\ AckNeverCoversWorse /\ NoGhost

(* What _transition does to one channel. *)
LEMMA TransitionOne ==
  ASSUME TypeOK, NEW who \in SUBSET Channels, NEW s \in Severities,
         NEW t \in Conditions, Transition(who, s, t), NEW c \in Channels
  PROVE  /\ c \in who => /\ severity'[c] = s
                         /\ threshold'[c] = t
                         /\ acknowledged'[c] = AckAfter(c, s)
         /\ c \notin who => /\ severity'[c] = severity[c]
                            /\ threshold'[c] = threshold[c]
                            /\ acknowledged'[c] = acknowledged[c]
                            /\ retained'[c] = retained[c]
         /\ c \in Published(who, s, t) => retained'[c] = Shown(s, t, AckAfter(c, s))
         /\ c \notin Published(who, s, t) => retained'[c] = retained[c]
  BY DEF Transition, Published

LEMMA TransitionAgrees ==
  ASSUME TypeOK, RetainedAgrees,
         NEW who \in SUBSET Channels, NEW s \in Severities,
         NEW t \in Conditions, Transition(who, s, t), NEW c \in known \cup who
  PROVE  retained'[c] = Shown(severity'[c], threshold'[c], acknowledged'[c])
<1>1. c \in Channels
  BY DEF TypeOK
<1>2. CASE c \in Published(who, s, t)
  <2>1. c \in who
    BY <1>2 DEF Published
  <2> QED
    BY <1>1, <1>2, <2>1, TransitionOne
<1>3. CASE c \notin Published(who, s, t) /\ c \in who
  <2>1. c \in known /\ severity[c] = s /\ threshold[c] = t
    BY <1>3 DEF Published, Changed
  <2>2. acknowledged[c] \in BOOLEAN /\ SEVERITY_ORDER[s] \in Nat
    BY <1>1, SeverityRank DEF TypeOK
  <2>3. ~Escalates(c, s)
    BY <2>1, <2>2 DEF Escalates
  <2>4. AckAfter(c, s) = acknowledged[c]
    BY <2>2, <2>3 DEF AckAfter
  <2> QED
    BY <1>1, <1>3, <2>1, <2>4, TransitionOne DEF RetainedAgrees
<1>4. CASE c \notin who
  BY <1>1, <1>4, TransitionOne DEF RetainedAgrees
<1> QED
  BY <1>2, <1>3, <1>4

LEMMA TransitionAck ==
  ASSUME TypeOK, AckNeverCoversWorse, ackedAs' = ackedAs,
         NEW who \in SUBSET Channels, NEW s \in Severities,
         NEW t \in Conditions, Transition(who, s, t)
  PROVE  AckNeverCoversWorse'
<1> SUFFICES ASSUME NEW c \in Channels, acknowledged'[c]
             PROVE  SEVERITY_ORDER[severity'[c]] <= SEVERITY_ORDER[ackedAs[c]]
  BY DEF AckNeverCoversWorse
<1>1. CASE c \notin who
  BY <1>1, TransitionOne DEF AckNeverCoversWorse
<1>2. CASE c \in who
  <2>1. acknowledged[c] /\ ~Escalates(c, s) /\ severity'[c] = s
    BY <1>2, TransitionOne DEF AckAfter
  <2>2. SEVERITY_ORDER[severity[c]] <= SEVERITY_ORDER[ackedAs[c]]
    BY <2>1 DEF AckNeverCoversWorse
  <2>3. /\ SEVERITY_ORDER[s] \in Nat
        /\ SEVERITY_ORDER[severity[c]] \in Nat
        /\ SEVERITY_ORDER[ackedAs[c]] \in Nat
    BY SeverityRank DEF TypeOK
  <2> QED
    BY <2>1, <2>2, <2>3 DEF Escalates
<1> QED
  BY <1>1, <1>2

LEMMA InitInv == Init => Inv
  BY DEF Init, Inv, RetainedAgrees, StaleFlagIsTheAlarm, AckNeverCoversWorse,
         NoGhost, SEVERITY_ORDER, ThresholdNames, NoThreshold

(* Most actions touch none of what Inv relates. *)
LEMMA Untouched ==
  ASSUME Inv, UNCHANGED <<known, stateVars, config, loading, retained, ackedAs>>
  PROVE  Inv'
  BY DEF Inv, RetainedAgrees, StaleFlagIsTheAlarm, AckNeverCoversWorse, NoGhost,
         HasLimits, stateVars

LEMMA MeasurementInv ==
  ASSUME TypeOK, Inv, NEW c \in Channels, OnMeasurement(c)
  PROVE  Inv'
<1> USE DEF Inv
<1>1. PICK s \in Severities, t \in Conditions :
        /\ Transition({c}, s, t)
        /\ t # "staleness"
        /\ s = "ok" <=> t = NoThreshold
        /\ t \in ThresholdNames => HasLimits(c)
  <2>1. CASE \E quality \in BadQualities : Transition({c}, "major", quality)
    <3>1. PICK quality \in BadQualities : Transition({c}, "major", quality)
      BY <2>1
    <3>2. quality \notin ThresholdNames \cup {NoThreshold, "staleness"}
      BY AlarmAssumption
    <3>3. "major" \in Severities /\ quality \in Conditions
      BY DEF Severities, Conditions
    <3> QED
      BY <3>1, <3>2, <3>3
  <2>2. CASE \E value \in Readings :
               LET v == ThresholdFor(config.limits[c], value, threshold[c])
               IN Transition({c}, v.severity, v.threshold)
    <3>1. PICK value \in Readings :
            Transition({c}, ThresholdFor(config.limits[c], value, threshold[c]).severity,
                            ThresholdFor(config.limits[c], value, threshold[c]).threshold)
      BY <2>2
    <3> DEFINE v == ThresholdFor(config.limits[c], value, threshold[c])
    <3>2. /\ v.severity \in Severities
          /\ v.threshold \in Conditions
          /\ \/ v.threshold = NoThreshold /\ v.severity = "ok"
             \/ v.threshold \in ThresholdNames /\ v.severity # "ok" /\ HasLimits(c)
      BY ReadingVerdict
    <3>3. NoThreshold \notin ThresholdNames /\ "staleness" \notin ThresholdNames
          /\ NoThreshold # "staleness"
      BY DEF NoThreshold, ThresholdNames
    <3> HIDE DEF v
    <3>4. Transition({c}, v.severity, v.threshold)
      BY <3>1 DEF v
    <3> QED
      BY <3>2, <3>3, <3>4
  <2> QED
    BY <2>1, <2>2 DEF OnMeasurement
<1>2. /\ known' = known \cup {c}
      /\ stale' = [stale EXCEPT ![c] = FALSE]
      /\ UNCHANGED <<config, loading, ackedAs>>
      /\ Watched(c)
  BY DEF OnMeasurement
<1>3. RetainedAgrees'
  BY <1>1, <1>2, TransitionAgrees DEF RetainedAgrees
<1> DEFINE Sets(d) == /\ d = c => severity'[d] = s /\ threshold'[d] = t
                      /\ d # c => /\ severity'[d] = severity[d]
                                  /\ threshold'[d] = threshold[d]
<1>7. ASSUME NEW d \in Channels PROVE Sets(d)
  <2>1. {c} \in SUBSET Channels
    OBVIOUS
  <2> QED
    BY <1>1, <2>1, TransitionOne
<1>4. StaleFlagIsTheAlarm'
  <2> SUFFICES ASSUME NEW d \in known'
               PROVE  /\ stale'[d] <=> threshold'[d] = "staleness"
                      /\ severity'[d] = "ok" <=> threshold'[d] = NoThreshold
    BY DEF StaleFlagIsTheAlarm
  <2>1. d \in Channels
    BY <1>2 DEF TypeOK
  <2>2. CASE d = c
    BY <1>1, <1>2, <1>7, <2>2 DEF TypeOK
  <2>3. CASE d # c
    BY <1>2, <1>7, <2>1, <2>3 DEF StaleFlagIsTheAlarm, TypeOK
  <2> QED
    BY <2>2, <2>3
<1>5. AckNeverCoversWorse'
  BY <1>1, <1>2, TransitionAck
<1>6. NoGhost'
  <2>1. \A d \in known : d # c => threshold'[d] = threshold[d]
    BY <1>7 DEF TypeOK
  <2>2. threshold'[c] = t
    BY <1>7
  <2> QED
    BY <1>1, <1>2, <2>1, <2>2 DEF NoGhost, HasLimits, Watched
<1> QED
  BY <1>3, <1>4, <1>5, <1>6

LEMMA StalenessInv ==
  ASSUME TypeOK, Inv, CheckStaleness
  PROVE  Inv'
<1> USE DEF Inv
<1>1. /\ Overdue \in SUBSET Channels /\ Overdue \subseteq known
      /\ StalenessSeverity \in Severities \ {"ok"}
      /\ "staleness" \in Conditions
  BY AlarmAssumption DEF Overdue, TypeOK, Conditions
<1>2. /\ Transition(Overdue, StalenessSeverity, "staleness")
      /\ UNCHANGED <<known, config, loading, ackedAs>>
      /\ stale' = [c \in Channels |-> stale[c] \/ c \in Overdue]
  BY DEF CheckStaleness
<1>3. RetainedAgrees'
  BY <1>1, <1>2, TransitionAgrees DEF RetainedAgrees
<1>7. ASSUME NEW d \in Channels
      PROVE  /\ d \in Overdue => /\ severity'[d] = StalenessSeverity
                                 /\ threshold'[d] = "staleness"
             /\ d \notin Overdue => /\ severity'[d] = severity[d]
                                    /\ threshold'[d] = threshold[d]
  BY <1>1, <1>2, TransitionOne
<1>4. StaleFlagIsTheAlarm'
  <2> SUFFICES ASSUME NEW d \in known
               PROVE  /\ stale'[d] <=> threshold'[d] = "staleness"
                      /\ severity'[d] = "ok" <=> threshold'[d] = NoThreshold
    BY <1>2 DEF StaleFlagIsTheAlarm
  <2>1. d \in Channels
    BY DEF TypeOK
  <2>2. CASE d \in Overdue
    BY <1>1, <1>2, <1>7, <2>1, <2>2 DEF NoThreshold
  <2>3. CASE d \notin Overdue
    BY <1>2, <1>7, <2>1, <2>3 DEF StaleFlagIsTheAlarm, TypeOK
  <2> QED
    BY <2>2, <2>3
<1>5. AckNeverCoversWorse'
  BY <1>1, <1>2, TransitionAck
<1>6. NoGhost'
  <2>1. \A d \in known : threshold'[d] = threshold[d] \/ threshold'[d] = "staleness"
    BY <1>7 DEF TypeOK
  <2>2. "staleness" \notin ThresholdNames
    BY DEF ThresholdNames
  <2> QED
    BY <1>2, <2>1, <2>2 DEF NoGhost, HasLimits
<1> QED
  BY <1>3, <1>4, <1>5, <1>6

LEMMA RetainedAlarmInv ==
  ASSUME TypeOK, Inv, NEW c \in Channels, OnRetainedAlarm(c)
  PROVE  Inv'
<1>1. UNCHANGED <<known, stateVars, config, loading, ackedAs>>
  BY DEF OnRetainedAlarm
<1>2. \A d \in known : retained'[d] = retained[d]
  BY DEF OnRetainedAlarm, Withdrawable, TypeOK
<1> QED
  BY <1>1, <1>2 DEF Inv, RetainedAgrees, StaleFlagIsTheAlarm, AckNeverCoversWorse,
                    NoGhost, HasLimits, stateVars

(* Forgetting channels disturbs nothing of those that are remembered. *)
LEMMA BlankInv ==
  ASSUME TypeOK, Inv, NEW S \in SUBSET Channels, Blank(S), known' = known \ S,
         \A c \in Channels \ S : retained'[c] = retained[c]
  PROVE  /\ RetainedAgrees' /\ StaleFlagIsTheAlarm' /\ AckNeverCoversWorse'
         /\ \A c \in known' : threshold'[c] = threshold[c]
<1>1. ASSUME NEW c \in Channels, c \notin S
      PROVE  /\ severity'[c] = severity[c] /\ threshold'[c] = threshold[c]
             /\ acknowledged'[c] = acknowledged[c] /\ stale'[c] = stale[c]
             /\ ackedAs'[c] = ackedAs[c]
  BY <1>1 DEF Blank, TypeOK
<1>2. \A c \in S : ~acknowledged'[c]
  BY DEF Blank
<1>3. \A c \in known' : c \in known /\ c \in Channels /\ c \notin S
  BY DEF TypeOK
<1>4. RetainedAgrees'
  BY <1>1, <1>3 DEF Inv, RetainedAgrees, Shown
<1>5. StaleFlagIsTheAlarm'
  BY <1>1, <1>3 DEF Inv, StaleFlagIsTheAlarm
<1>6. AckNeverCoversWorse'
  BY <1>1, <1>2 DEF Inv, AckNeverCoversWorse
<1> QED
  BY <1>1, <1>3, <1>4, <1>5, <1>6

LEMMA ReloadForgetInv ==
  ASSUME TypeOK, Inv, ReloadForget
  PROVE  Inv'
<1> DEFINE gone == {c \in known : ~Watched(c)}
<1>1. gone \in SUBSET Channels
  BY DEF TypeOK
<1>2. /\ Blank(gone) /\ known' = known \ gone
      /\ loading' = "clear" /\ config' = config
      /\ \A c \in Channels \ gone : retained'[c] = retained[c]
  BY DEF ReloadForget
<1>3. NoGhost'
  BY <1>2 DEF NoGhost, Watched
<1> HIDE DEF gone
<1> QED
  BY <1>1, <1>2, <1>3, BlankInv DEF Inv

LEMMA ReloadClearInv ==
  ASSUME TypeOK, Inv, ReloadClear
  PROVE  Inv'
<1>1. /\ loading = "clear" /\ loading' = "no"
      /\ UNCHANGED <<known, acknowledged, stale, config, ackedAs>>
  BY DEF ReloadClear
<1>2. ASSUME NEW c \in Channels
      PROVE  /\ Orphaned(c) => /\ severity'[c] = "ok" /\ threshold'[c] = NoThreshold
                               /\ retained'[c] = Shown("ok", NoThreshold, acknowledged[c])
             /\ ~Orphaned(c) => /\ severity'[c] = severity[c]
                                /\ threshold'[c] = threshold[c]
                                /\ retained'[c] = retained[c]
  BY DEF ReloadClear
<1>3. known \subseteq Channels
  BY DEF TypeOK
<1>4. RetainedAgrees'
  BY <1>1, <1>2, <1>3 DEF Inv, RetainedAgrees
<1>5. StaleFlagIsTheAlarm'
  <2>1. \A c \in known : Orphaned(c) => ~stale[c]
    BY DEF Inv, StaleFlagIsTheAlarm, Orphaned
  <2> QED
    BY <1>1, <1>2, <1>3, <2>1 DEF Inv, StaleFlagIsTheAlarm, NoThreshold
<1>6. AckNeverCoversWorse'
  <2> SUFFICES ASSUME NEW c \in Channels, acknowledged[c]
               PROVE  SEVERITY_ORDER[severity'[c]] <= SEVERITY_ORDER[ackedAs[c]]
    BY <1>1 DEF AckNeverCoversWorse
  <2>1. SEVERITY_ORDER["ok"] = 0
    BY DEF SEVERITY_ORDER
  <2>2. SEVERITY_ORDER[ackedAs[c]] \in Nat
    BY SeverityRank DEF TypeOK
  <2> QED
    BY <1>2, <2>1, <2>2 DEF Inv, AckNeverCoversWorse
<1>7. NoGhost'
  <2>1. known \subseteq config.watched
    BY <1>1 DEF Inv, NoGhost
  <2>2. ASSUME NEW c \in known, threshold'[c] \in ThresholdNames PROVE HasLimits(c)
    <3>1. NoThreshold \notin ThresholdNames /\ "staleness" \notin ThresholdNames
      BY DEF ThresholdNames, NoThreshold
    <3> QED
      BY <1>2, <1>3, <2>2, <3>1 DEF Orphaned
  <2> QED
    BY <1>1, <2>1, <2>2 DEF NoGhost, HasLimits
<1> QED
  BY <1>4, <1>5, <1>6, <1>7 DEF Inv

LEMMA AcknowledgeInv ==
  ASSUME TypeOK, Inv, NEW c \in Channels, Acknowledge(c)
  PROVE  Inv'
<1>1. /\ UNCHANGED <<known, severity, threshold, stale, config, loading>>
      /\ acknowledged' = [acknowledged EXCEPT ![c] = TRUE]
      /\ ackedAs' = [ackedAs EXCEPT ![c] = severity[c]]
      /\ retained' = [retained EXCEPT ![c] = Shown(severity[c], threshold[c], TRUE)]
  BY DEF Acknowledge
<1>2. RetainedAgrees'
  BY <1>1 DEF Inv, RetainedAgrees, TypeOK
<1>3. AckNeverCoversWorse'
  <2>1. SEVERITY_ORDER[severity[c]] \in Nat
    BY SeverityRank DEF TypeOK
  <2>2. \A d \in Channels : d # c => /\ acknowledged'[d] = acknowledged[d]
                                    /\ ackedAs'[d] = ackedAs[d]
    BY <1>1 DEF TypeOK
  <2>3. ackedAs'[c] = severity[c]
    BY <1>1 DEF TypeOK
  <2> QED
    BY <1>1, <2>1, <2>2, <2>3 DEF Inv, AckNeverCoversWorse
<1> QED
  BY <1>1, <1>2, <1>3 DEF Inv, StaleFlagIsTheAlarm, NoGhost, HasLimits

LEMMA RestartInv ==
  ASSUME TypeOK, Inv, Restart
  PROVE  Inv'
<1>1. /\ known' = {} /\ Blank(Channels) /\ UNCHANGED retained
  BY DEF Restart
<1>2. known' = known \ Channels
  BY <1>1 DEF TypeOK
<1>3. RetainedAgrees' /\ StaleFlagIsTheAlarm' /\ AckNeverCoversWorse'
  BY <1>1, <1>2, BlankInv
<1>4. NoGhost'
  BY <1>1 DEF NoGhost
<1> QED
  BY <1>3, <1>4 DEF Inv

LEMMA StepInv == TypeOK /\ Inv /\ [Next]_vars => Inv'
<1> SUFFICES ASSUME TypeOK, Inv, [Next]_vars PROVE Inv'
  OBVIOUS
<1> DEFINE related == <<known, stateVars, config, loading, retained, ackedAs>>
<1>1. ASSUME NEW c \in Channels, OnMeasurement(c) PROVE Inv'
  BY <1>1, MeasurementInv
<1>2. ASSUME NEW c \in Channels, OnRetainedAlarm(c) PROVE Inv'
  BY <1>2, RetainedAlarmInv
<1>3. CASE ReloadConfig
  BY <1>3 DEF ReloadConfig, Inv, RetainedAgrees, StaleFlagIsTheAlarm,
              AckNeverCoversWorse, NoGhost, stateVars
<1>4. CASE ReloadForget
  BY <1>4, ReloadForgetInv
<1>5. CASE ReloadClear
  BY <1>5, ReloadClearInv
<1>6. ASSUME NEW c \in Channels, Acknowledge(c) PROVE Inv'
  BY <1>6, AcknowledgeInv
<1>7. CASE CheckStaleness
  BY <1>7, StalenessInv
<1>8. CASE Restart
  BY <1>8, RestartInv
<1>9. ASSUME NEW on \in BOOLEAN, SetNotifications(on) PROVE UNCHANGED related
  BY <1>9 DEF SetNotifications
<1>10. ASSUME NEW c \in Channels, NEW on \in BOOLEAN, SetArmed(c, on)
       PROVE UNCHANGED related
  BY <1>10 DEF SetArmed
<1>11. ASSUME NEW c \in Channels, Silence(c) \/ SensorDies(c) \/ SensorReturns(c)
       PROVE UNCHANGED related
  BY <1>11 DEF Silence, SensorDies, SensorReturns
<1>12. ASSUME PumpTake \/ PumpSent \/ Tick \/ Reconnect \/ UNCHANGED vars
       PROVE UNCHANGED related
  BY <1>12 DEF PumpTake, PumpSent, Tick, Reconnect, vars
<1>13. UNCHANGED related => Inv'
  BY Untouched
<1> HIDE DEF related
<1> QED
  BY <1>1, <1>2, <1>3, <1>4, <1>5, <1>6, <1>7, <1>8, <1>9, <1>10, <1>11, <1>12,
     <1>13 DEF Next

(* The inductive invariant holds in every reachable state. *)
THEOREM InvHolds == Spec => []Inv
  BY InitInv, StepInv, TypeCorrect, PTL DEF Spec

(* What every page shows of a channel the engine remembers is what the     *)
(* engine believes: no interleaving of the threads separates them.         *)
THEOREM PagesAgree == Spec => []RetainedAgrees
<1>1. Inv => RetainedAgrees
  BY DEF Inv
<1> QED
  BY <1>1, InvHolds, PTL

(* The stale flag is set exactly while the staleness alarm stands, so no   *)
(* silence of a channel is swallowed by a flag left over.                  *)
THEOREM StaleFlagCorrect == Spec => []StaleFlagIsTheAlarm
<1>1. Inv => StaleFlagIsTheAlarm
  BY DEF Inv
<1> QED
  BY <1>1, InvHolds, PTL

(* An acknowledgement never stands over something worse than what was      *)
(* acknowledged.                                                           *)
THEOREM AckCorrect == Spec => []AckNeverCoversWorse
<1>1. Inv => AckNeverCoversWorse
  BY DEF Inv
<1> QED
  BY <1>1, InvHolds, PTL

(* After a reload nothing of a disabled channel or a deleted limit is left *)
(* in the engine.                                                          *)
THEOREM ReloadCorrect == Spec => []ReloadLeavesNoGhost
<1>1. Inv => ReloadLeavesNoGhost
  BY DEF Inv, NoGhost, ReloadLeavesNoGhost, Watched
<1> QED
  BY <1>1, InvHolds, PTL
-------------------------------------------------------------------------------
(* Repeats.  Count(c, queue) is how many messages in it are about c. *)

About(c, queue) == {i \in DOMAIN queue : queue[i] = c}

LEMMA CountIsNat ==
  ASSUME NEW queue \in Seq(Channels), NEW c
  PROVE  IsFiniteSet(About(c, queue)) /\ Count(c, queue) = Cardinality(About(c, queue))
         /\ Count(c, queue) \in Nat
<1>1. DOMAIN queue = 1..Len(queue) /\ Len(queue) \in Nat
  OBVIOUS
<1>2. IsFiniteSet(1..Len(queue))
  BY <1>1, FS_Interval
<1>3. IsFiniteSet(About(c, queue)) /\ Cardinality(About(c, queue)) \in Nat
  <2>1. About(c, queue) \in SUBSET (1..Len(queue))
    BY <1>1 DEF About
  <2> QED BY <1>2, <2>1, FS_Subset, FS_CardinalityType
<1>4. Count(c, queue) = Cardinality(About(c, queue))
  BY DEF Count, About
<1> QED BY <1>3, <1>4

(* The worker takes a message out and puts none in. *)
LEMMA FewerAfterTail ==
  ASSUME NEW queue \in Seq(Channels), queue # <<>>, NEW c
  PROVE  Count(c, Tail(queue)) <= Count(c, queue)
<1> DEFINE rest == Tail(queue)
           shift == [i \in About(c, rest) |-> i + 1]
<1>1. /\ rest \in Seq(Channels) /\ DOMAIN queue = 1..Len(queue) /\ DOMAIN rest = 1..Len(rest)
      /\ Len(queue) \in Nat /\ Len(rest) = Len(queue) - 1
      /\ \A i \in 1..Len(rest) : rest[i] = queue[i + 1]
  OBVIOUS
<1> HIDE DEF rest
<1>2. \A i \in About(c, rest) : i \in Int /\ i + 1 \in About(c, queue)
  BY <1>1 DEF About
<1>3. shift \in [About(c, rest) -> About(c, queue)]
  BY <1>2
<1>4. \A i, j \in DOMAIN shift : shift[i] = shift[j] => i = j
  BY <1>2
<1> HIDE DEF shift
<1>5. shift \in Injection(About(c, rest), About(c, queue))
  BY <1>3, <1>4 DEF Injection, IsInjective
<1>6. Cardinality(About(c, rest)) <= Cardinality(About(c, queue))
  BY <1>5, CountIsNat, FS_Injection
<1>7. Count(c, rest) <= Count(c, queue)
  BY <1>1, <1>6, CountIsNat
<1> QED BY <1>7 DEF rest

(* What _transition puts in is about a channel it announces. *)
LEMMA OnlyTheAnnounced ==
  ASSUME TypeOK, NEW who \in SUBSET Channels, NEW s, NEW t, Transition(who, s, t),
         NEW c \in Channels, Count(c, outbox') > Count(c, outbox)
  PROVE  c \in who /\ Announces(c, s, t)
<1> DEFINE announced == {d \in who : Announces(d, s, t)}
<1>1. PICK order \in Orderings(announced) : outbox' = Enqueue(outbox, order)
  BY DEF Transition
<1> DEFINE room == NOTIFY_QUEUE_MAX - Len(outbox)
           n == IF Len(order) < room THEN Len(order) ELSE room
           fits == SubSeq(order, 1, n)
<1>2. outbox' = outbox \o fits
  BY <1>1 DEF Enqueue
<1>3. announced \subseteq Channels
  OBVIOUS
<1>4. order \in Seq(announced)
  <2>1. IsFiniteSet(announced)
    BY <1>3, AlarmAssumption, FS_Subset
  <2>2. Cardinality(announced) \in Nat
    BY <2>1, FS_CardinalityType
  <2>3. order \in [1..Cardinality(announced) -> announced]
    BY DEF Orderings
  <2> HIDE DEF announced
  <2> QED BY <2>2, <2>3
<1>5. n \in Nat /\ n <= Len(order)
  BY <1>4, AlarmAssumption DEF TypeOK
<1> HIDE DEF announced, n
<1>6. fits \in Seq(announced)
  <2>1. \A i \in 1..n : order[i] \in announced
    BY <1>4, <1>5, ElementOfSeq
  <2> QED BY <1>5, <2>1, SubSeqProperties
<1> HIDE DEF fits
<1>7. CASE c \notin announced
  <2>1. /\ outbox \in Seq(Channels) /\ fits \in Seq(Channels)
        /\ outbox' \in Seq(Channels)
        /\ DOMAIN outbox' = 1..(Len(outbox) + Len(fits)) /\ DOMAIN outbox = 1..Len(outbox)
        /\ Len(outbox) \in Nat /\ Len(fits) \in Nat
        /\ \A i \in 1..Len(outbox) : outbox'[i] = outbox[i]
        /\ \A i \in 1..Len(fits) : outbox'[Len(outbox) + i] = fits[i]
    <3>1. outbox \in Seq(Channels) /\ fits \in Seq(Channels)
      BY <1>3, <1>6 DEF TypeOK
    <3> QED BY <1>2, <3>1
  <2>2. \A i \in 1..Len(fits) : fits[i] # c
    BY <1>6, <1>7, ElementOfSeq
  <2>3. \A i \in DOMAIN outbox' : outbox'[i] = c => i \in DOMAIN outbox /\ outbox[i] = c
    <3> SUFFICES ASSUME NEW i \in DOMAIN outbox', outbox'[i] = c, i \notin 1..Len(outbox)
                 PROVE  FALSE
      BY <2>1
    <3>1. i - Len(outbox) \in 1..Len(fits) /\ i = Len(outbox) + (i - Len(outbox))
      BY <2>1
    <3> QED BY <2>1, <2>2, <3>1
  <2>4. About(c, outbox') \in SUBSET About(c, outbox)
    BY <2>3 DEF About
  <2>5. Cardinality(About(c, outbox')) <= Cardinality(About(c, outbox))
    BY <2>1, <2>4, CountIsNat, FS_Subset
  <2>6. /\ Count(c, outbox') = Cardinality(About(c, outbox'))
        /\ Count(c, outbox) = Cardinality(About(c, outbox))
        /\ Count(c, outbox') \in Nat /\ Count(c, outbox) \in Nat
    BY <2>1, CountIsNat
  <2> QED BY <2>5, <2>6
<1> QED BY <1>7 DEF announced

(* Unchanged, a condition is only told again when a repeat is due. *)
Earned(c) ==
  Count(c, outbox') > Count(c, outbox) /\ threshold'[c] = threshold[c] /\ severity'[c] = severity[c]
    => ~acknowledged[c] /\ silence[c] = 0 /\ sinceNotified[c] >= MinRepeat

LEMMA TransitionEarns ==
  ASSUME TypeOK, NEW who \in SUBSET Channels, NEW s, NEW t, Transition(who, s, t),
         NEW c \in Channels
  PROVE  Earned(c)
<1> SUFFICES ASSUME Count(c, outbox') > Count(c, outbox), threshold'[c] = threshold[c],
                    severity'[c] = severity[c]
             PROVE  ~acknowledged[c] /\ silence[c] = 0 /\ sinceNotified[c] >= MinRepeat
  BY DEF Earned
<1>1. c \in who /\ Announces(c, s, t)
  BY OnlyTheAnnounced
<1>2. severity'[c] = s /\ threshold'[c] = t
  BY <1>1 DEF Transition
<1>3. ~Changed(c, s, t)
  BY <1>2 DEF Changed
<1> QED BY <1>1, <1>3 DEF Announces, RepeatDue

LEMMA EveryStepEarns ==
  ASSUME TypeOK, [Next]_vars, NEW c \in Channels
  PROVE  Earned(c)
<1>1. outbox \in Seq(Channels) /\ Count(c, outbox) \in Nat
  BY CountIsNat DEF TypeOK
<1>2. ASSUME Count(c, outbox') <= Count(c, outbox), Count(c, outbox') \in Nat PROVE Earned(c)
  BY <1>1, <1>2 DEF Earned
<1>3. ASSUME UNCHANGED outbox PROVE Earned(c)
  BY <1>1, <1>2, <1>3
<1>4. ASSUME NEW d \in Channels, OnMeasurement(d) PROVE Earned(c)
  <2>1. \E s, t : Transition({d}, s, t)
    BY <1>4 DEF OnMeasurement
  <2> QED BY <2>1, TransitionEarns
<1>5. CASE CheckStaleness
  <2>1. Overdue \in SUBSET Channels
    BY DEF Overdue, TypeOK
  <2> QED BY <1>5, <2>1, TransitionEarns DEF CheckStaleness
<1>6. CASE PumpTake
  <2>1. outbox # <<>> /\ outbox' = Tail(outbox)
    BY <1>6 DEF PumpTake
  <2>2. Tail(outbox) \in Seq(Channels)
    BY <1>1, <2>1
  <2> QED BY <1>1, <1>2, <2>1, <2>2, FewerAfterTail, CountIsNat
<1>7. CASE Restart
  <2>1. outbox' = <<>> /\ <<>> \in Seq(Channels)
    BY <1>7 DEF Restart
  <2>2. About(c, <<>>) = {}
    BY DEF About
  <2>3. Count(c, outbox') = 0
    BY <2>1, <2>2, CountIsNat, FS_EmptySet
  <2> QED BY <1>1, <1>2, <2>3
<1>8. ASSUME \/ \E d \in Channels : OnRetainedAlarm(d) \/ Acknowledge(d) \/ Silence(d)
             \/ \E d \in Channels : SensorDies(d) \/ SensorReturns(d)
             \/ \E on \in BOOLEAN : SetNotifications(on)
             \/ \E d \in Channels, on \in BOOLEAN : SetArmed(d, on)
             \/ ReloadConfig \/ ReloadForget \/ ReloadClear
             \/ PumpSent \/ Tick \/ Reconnect \/ UNCHANGED vars
      PROVE  UNCHANGED outbox
  BY <1>8 DEF queueVars, vars, OnRetainedAlarm, Acknowledge, Silence, SensorDies, SensorReturns,
       SetNotifications, SetArmed, ReloadConfig, ReloadForget, ReloadClear, PumpSent, Tick,
       Reconnect
<1> QED BY <1>3, <1>4, <1>5, <1>6, <1>7, <1>8 DEF Next

(* RepeatsAreEarned: a message about a condition that has not changed is   *)
(* queued only when nobody acknowledged or silenced it and the repeat time *)
(* has passed, for any queue, and many channels in one staleness check.    *)
THEOREM RepeatsCorrect == Spec => RepeatsAreEarned
<1>1. TypeOK /\ [Next]_vars => [\A c \in Channels :
         /\ Count(c, outbox') > Count(c, outbox)
         /\ threshold'[c] = threshold[c] /\ severity'[c] = severity[c]
         => ~acknowledged[c] /\ silence[c] = 0 /\ sinceNotified[c] >= MinRepeat]_vars
  BY EveryStepEarns DEF Earned
<1> QED BY <1>1, TypeCorrect, PTL DEF Spec, RepeatsAreEarned

-------------------------------------------------------------------------------
(* The rule: right for every limit, margin and reading.                    *)

(* What the limits and readings are.                                       *)
LEMMA RuleConstants == LimitValues \subseteq Int /\ RuleReadings \subseteq Int
BY AlarmsAssumption DEF W!WatchAssumption

(* What the model keeps: limits that config.py loaded.                     *)
LimitsOK ==
  /\ DOMAIN ruleLimits \subseteq W!ThresholdNames
  /\ \A name \in DOMAIN ruleLimits : ruleLimits[name].value \in Int
  /\ ruleValue \in Int
  /\ inForce = W!NoThreshold \/ inForce \in DOMAIN ruleLimits

(* A margin is a natural number.                                           *)
LEMMA MarginIsNatural ==
  ASSUME NEW limit \in Int, NEW name, NEW cur
  PROVE  W!Margin(limit, name, cur) \in Nat
<1>1. W!Magnitude(limit) \in Nat
  BY DEF W!Magnitude
<1>2. \A m \in Nat, h \in Nat : m * h \in Nat
  OBVIOUS
<1>3. W!Magnitude(limit) * Hysteresis \in Nat
  BY <1>1, <1>2, HysteresisAssumption
<1> QED
  BY <1>3 DEF W!Margin

(* A margin only ever widens the alarm: what is past a limit trips it. *)
LEMMA PastTrips ==
  ASSUME LimitsOK, NEW name, NEW v \in Int, NEW cur, W!Past(name, v)
  PROVE  W!Tripped(ruleLimits, name, v, cur)
<1>1. ruleLimits[name].value \in Int
  BY DEF LimitsOK, W!Past
<1>2. W!Margin(ruleLimits[name].value, name, cur) \in Nat
  BY <1>1, MarginIsNatural
<1> QED
  BY <1>1, <1>2 DEF W!Past, W!Tripped

(* The limit found is the worst one the value is past.                     *)
LEMMA ReportsWorst ==
  ASSUME LimitsOK, NEW v \in Int, NEW cur
  PROVE  LET now == W!ThresholdFor(ruleLimits, v, cur).threshold
         IN /\ now \in W!ThresholdNames \cup {W!NoThreshold}
            /\ \A name \in W!WorseThan[now] : ~W!Past(name, v)
<1> DEFINE hit(name) == W!Tripped(ruleLimits, name, v, cur)
           now == W!ThresholdFor(ruleLimits, v, cur).threshold
<1>1. \A name \in W!ThresholdNames : ~hit(name) => ~W!Past(name, v)
  BY PastTrips
<1>2. CASE hit("hihi")
  <2>1. now = "hihi"
    BY <1>2 DEF W!ThresholdFor, W!Verdict
  <2> QED BY <2>1 DEF W!WorseThan, W!ThresholdNames
<1>3. CASE ~hit("hihi") /\ hit("lolo")
  <2>1. now = "lolo"
    BY <1>3 DEF W!ThresholdFor, W!Verdict
  <2> QED BY <1>1, <1>3, <2>1 DEF W!WorseThan, W!ThresholdNames
<1>4. CASE ~hit("hihi") /\ ~hit("lolo") /\ hit("high")
  <2>1. now = "high"
    BY <1>4 DEF W!ThresholdFor, W!Verdict
  <2> QED BY <1>1, <1>4, <2>1 DEF W!WorseThan, W!ThresholdNames
<1>5. CASE ~hit("hihi") /\ ~hit("lolo") /\ ~hit("high") /\ hit("low")
  <2>1. now = "low"
    BY <1>5 DEF W!ThresholdFor, W!Verdict
  <2> QED BY <1>1, <1>5, <2>1 DEF W!WorseThan, W!ThresholdNames
<1>6. CASE ~hit("hihi") /\ ~hit("lolo") /\ ~hit("high") /\ ~hit("low")
  <2>1. now = "none"
    BY <1>6 DEF W!ThresholdFor, W!NoAlarm, W!NoThreshold
  <2> QED BY <1>1, <1>6, <2>1 DEF W!WorseThan, W!ThresholdNames, W!NoThreshold
<1> QED
  BY <1>2, <1>3, <1>4, <1>5, <1>6

(* Limits, values and the limit in force keep their types.                 *)
LEMMA InitLimits == W!Init => LimitsOK
<1> SUFFICES ASSUME W!Init PROVE LimitsOK
  OBVIOUS
<1>1. PICK names \in SUBSET W!ThresholdNames :
        \E at \in [names -> LimitValues] : ruleLimits = W!Limit4(names, at)
  BY DEF W!Init
<1>2. PICK at \in [names -> LimitValues] : ruleLimits = W!Limit4(names, at)
  BY <1>1
<1>3. DOMAIN ruleLimits = names /\ \A n \in names : ruleLimits[n].value = at[n]
  BY <1>2 DEF W!Limit4
<1>4. \A n \in names : at[n] \in Int
  BY <1>2, RuleConstants
<1>5. ruleValue \in Int
  BY RuleConstants DEF W!Init
<1>6. inForce = W!NoThreshold \/ inForce \in DOMAIN ruleLimits
  BY DEF W!Init, W!ThresholdFor, W!Verdict, W!NoAlarm, W!Tripped
<1> QED
  BY <1>1, <1>3, <1>4, <1>5, <1>6 DEF LimitsOK

(* A reading leaves the limits alone.                                      *)
LEMMA LimitsKept == LimitsOK /\ [W!Next]_(W!vars) => LimitsOK'
<1> SUFFICES ASSUME LimitsOK, [W!Next]_(W!vars) PROVE LimitsOK'
  OBVIOUS
<1>1. CASE W!Next
  <2>1. ruleValue' \in Int /\ ruleLimits' = ruleLimits
    BY <1>1, RuleConstants DEF W!Next
  <2>2. inForce' = W!NoThreshold \/ inForce' \in DOMAIN ruleLimits'
    BY <1>1, <2>1 DEF W!Next, W!ThresholdFor, W!Verdict, W!NoAlarm, W!Tripped
  <2> QED BY <2>1, <2>2 DEF LimitsOK
<1>2. CASE UNCHANGED W!vars
  BY <1>2 DEF LimitsOK, W!vars
<1> QED BY <1>1, <1>2

(* The limits, and the one in force, are always limits of the channel.     *)
THEOREM LimitsCorrect == W!Spec => []LimitsOK
  BY InitLimits, LimitsKept, PTL DEF W!Spec

(* WorstLimitReported: engine.py:161, "most severe first". *)
THEOREM WorstReported == W!Spec => []WorstLimitReported
<1>1. W!Init => WorstLimitReported
  <2> SUFFICES ASSUME W!Init PROVE WorstLimitReported
    OBVIOUS
  <2>1. LimitsOK
    BY InitLimits
  <2>2. ruleValue \in Int
        /\ inForce = W!ThresholdFor(ruleLimits, ruleValue, W!NoThreshold).threshold
    BY <2>1 DEF W!Init, LimitsOK
  <2> QED BY <2>1, <2>2, ReportsWorst DEF WorstLimitReported, W!WorstLimitReported
<1>2. WorstLimitReported /\ LimitsOK /\ [W!Next]_(W!vars) => WorstLimitReported'
  <2> SUFFICES ASSUME WorstLimitReported, LimitsOK, [W!Next]_(W!vars)
               PROVE  WorstLimitReported'
    OBVIOUS
  <2>1. CASE W!Next
    <3>1. ruleValue' \in Int /\ ruleLimits' = ruleLimits
      BY <2>1, RuleConstants DEF W!Next
    <3>2. \A name \in W!WorseThan[inForce'] : ~W!Past(name, ruleValue')
      BY <2>1, <3>1, ReportsWorst DEF W!Next
    <3> QED BY <3>1, <3>2 DEF WorstLimitReported, W!WorstLimitReported, W!Past
  <2>2. CASE UNCHANGED W!vars
    BY <2>2 DEF W!vars, WorstLimitReported, W!WorstLimitReported, W!Past
  <2> QED BY <2>1, <2>2
<1> QED
  BY <1>1, <1>2, LimitsCorrect, PTL DEF W!Spec

(* ClearsPastMargin: a value on a limit does not chatter. *)
THEOREM NoChatter == W!Spec => ClearsPastMargin
<1> DEFINE Band(name) ==
      inForce = name /\ inForce' = W!NoThreshold =>
         LET at == ruleLimits[name].value
             band == W!Magnitude(at) * Hysteresis
         IN IF name \in W!LOW_THRESHOLDS THEN 100 * (ruleValue' - at) >= band
                                         ELSE 100 * (at - ruleValue') >= band
<1>1. ASSUME LimitsOK, W!Next, NEW name \in W!ThresholdNames,
             inForce = name, inForce' = W!NoThreshold
      PROVE  Band(name)
  <2>1. name \in DOMAIN ruleLimits
    BY <1>1 DEF LimitsOK, W!NoThreshold, W!ThresholdNames
  <2>2. ~W!Tripped(ruleLimits, name, ruleValue', name)
    BY <1>1 DEF W!Next, W!ThresholdFor, W!Verdict, W!NoAlarm, W!ThresholdNames, W!NoThreshold
  <2>3. ruleValue' \in Int /\ ruleLimits[name].value \in Int
    BY <1>1, <2>1, RuleConstants DEF W!Next, LimitsOK
  <2>4. W!Margin(ruleLimits[name].value, name, name)
          = W!Magnitude(ruleLimits[name].value) * Hysteresis
    BY DEF W!Margin
  <2>5. W!Magnitude(ruleLimits[name].value) * Hysteresis \in Nat
    BY <2>3, <2>4, MarginIsNatural
  <2> HIDE DEF Band
  <2>6. CASE name \in W!LOW_THRESHOLDS
    <3>1. 100 * ruleValue' >= 100 * ruleLimits[name].value
                               + W!Magnitude(ruleLimits[name].value) * Hysteresis
      BY <2>1, <2>2, <2>3, <2>4, <2>5, <2>6 DEF W!Tripped
    <3> QED BY <2>3, <2>5, <2>6, <3>1 DEF Band
  <2>7. CASE name \notin W!LOW_THRESHOLDS
    <3>1. 100 * ruleValue' <= 100 * ruleLimits[name].value
                               - W!Magnitude(ruleLimits[name].value) * Hysteresis
      BY <2>1, <2>2, <2>3, <2>4, <2>5, <2>7 DEF W!Tripped
    <3> QED BY <2>3, <2>5, <2>7, <3>1 DEF Band
  <2> QED BY <2>6, <2>7
<1>2. LimitsOK /\ [W!Next]_(W!vars) => [\A name \in W!ThresholdNames : Band(name)]_(W!vars)
  BY <1>1
<1> QED
  BY <1>2, LimitsCorrect, PTL DEF W!Spec, ClearsPastMargin, W!ClearsPastMargin

-------------------------------------------------------------------------------
(* A step of the composition is one of a part.                             *)
LEMMA AlarmsStep ==
  ASSUME [BothNext]_<<part, vars, rule>>
  PROVE  [Next]_vars /\ [W!Next]_(W!vars)
<1>1. CASE InRule(W!Next)
  BY <1>1 DEF InRule
<1>2. CASE InEngine(Next)
  BY <1>2 DEF InEngine, rule, W!vars
<1>3. CASE UNCHANGED <<part, vars, rule>>
  BY <1>3 DEF rule, W!vars
<1> QED BY <1>1, <1>2, <1>3 DEF BothNext

(* What is proved of the engine and of the rule holds of the composition   *)
(* that TLC explores.                                                      *)
THEOREM AlarmsKeepTheirSpecs == BothSpec => Spec /\ W!Spec
<1>1. BothInit => Init /\ W!Init
  BY DEF BothInit
<1>2. [BothNext]_<<part, vars, rule>> => [Next]_vars /\ [W!Next]_(W!vars)
  BY AlarmsStep
<1> QED BY <1>1, <1>2, PTL DEF BothSpec, Spec, W!Spec
===============================================================================
