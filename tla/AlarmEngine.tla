------------------------------ MODULE AlarmEngine ------------------------------
(***************************************************************************)
(* The alarm engine (alarms/engine.py): it evaluates every measurement     *)
(* against the thresholds, raises silent channels as stale, keeps the      *)
(* retained topic xams/alarm/<channel> up to date and queues notifications *)
(* for a gateway that may hang.                                            *)
(*                                                                         *)
(* Three threads act here.  paho's network thread runs the bus handlers,   *)
(* one after another: measurements, retained alarms, the two switches and  *)
(* a reload.  "alarm-staleness" looks for silent channels.  "alarm-notify" *)
(* drains the outbox.  A handler that holds _lock throughout is one        *)
(* action; reload() takes the lock twice, so it is three, and the network  *)
(* thread does nothing else until the third is done.                       *)
(*                                                                         *)
(* Times are compared only with "now", so each stored time is modelled by  *)
(* its distance from now in ticks, saturated where the comparison stops    *)
(* telling values apart.                                                   *)
(***************************************************************************)
EXTENDS Thresholds, Sequences, FiniteSets

CONSTANTS
  Channels,          \* the channels drivers publish
  Readings,          \* values a good reading may have
  BadQualities,      \* "quality=error", ...: what a reading that is not OK raises
  Configs,           \* configurations that load() may return
  StalenessSeverity, \* staleness.severity
  StaleAfter,        \* stale_after_seconds, in ticks
  MinRepeat,         \* min_repeat_minutes, in ticks
  MaxSilence,        \* the longest silence(), in ticks
  NOTIFY_QUEUE_MAX,
  MaxFaults          \* bound: how often the process dies or loses the broker

Conditions == ThresholdNames \cup BadQualities \cup {NoThreshold, "staleness"}

(* channels.yaml enables `watched`; alarms.yaml has `limits` for a channel *)
(* (an empty function: no entry) and lists those that are `switchable`,    *)
(* which load() accepts only for channels with limits.                     *)
IsConfig(c) ==
  /\ c.watched \subseteq Channels
  /\ \A channel \in Channels : IsLimits(c.limits[channel])
  /\ c.switchable \subseteq {channel \in Channels : DOMAIN c.limits[channel] # {}}

ASSUME AlarmAssumption ==
  /\ IsFiniteSet(Channels)
  /\ Readings \subseteq Int
  /\ BadQualities \cap (ThresholdNames \cup {NoThreshold, "staleness"}) = {}
  /\ \A c \in Configs : IsConfig(c)
  /\ Configs # {}
  /\ StalenessSeverity \in Severities \ {"ok"}
  /\ StaleAfter \in Nat
  /\ MinRepeat \in Nat \ {0}
  /\ MaxSilence \in Nat
  /\ NOTIFY_QUEUE_MAX \in Nat \ {0}
  /\ MaxFaults \in Nat

Alarm == [severity : Severities, threshold : Conditions, acknowledged : BOOLEAN]
AllClear == [severity |-> "ok", threshold |-> NoThreshold, acknowledged |-> FALSE]
Absent == [AllClear EXCEPT !.severity = "absent"]   \* nothing is retained on the topic
ShowsAlarm(alarm) == alarm.severity \notin {"ok", "absent"}

VARIABLES
  known,            \* DOMAIN _states
  severity, threshold, acknowledged, stale,   \* ChannelState, per channel
  age,              \* now - last_seen, up to StaleAfter + 1
  sinceNotified,    \* now - last_notified, up to MinRepeat
  silence,          \* silenced_until - now, down to 0
  config,           \* the configuration in force
  loading,          \* where the network thread is in reload()
  enabled, savedEnabled,     \* the master switch, in memory and in its file
  disarmed, savedDisarmed,   \* channels switched off, in memory and in the file
  outbox,           \* messages waiting for the gateway: the channel each is about
  sending,          \* the worker is delivering one
  retained,         \* the broker's retained xams/alarm/<channel>
  redelivery,       \* retained alarms the broker has yet to deliver to us
  dead,             \* channels whose driver publishes nothing
  faults,
  told,             \* history: the current condition has been queued
  ackedAs           \* history: the severity that was acknowledged

stateVars  == <<severity, threshold, acknowledged, stale>>
timeVars   == <<age, sinceNotified, silence>>
switchVars == <<enabled, savedEnabled, disarmed, savedDisarmed>>
queueVars  == <<outbox, sending>>
envVars    == <<dead, faults>>
vars == <<known, stateVars, timeVars, config, loading, switchVars, queueVars,
          retained, redelivery, envVars, told, ackedAs>>

-------------------------------------------------------------------------------
Watched(c) == c \in config.watched
Armed(c) == c \in config.switchable => c \notin disarmed
HasLimits(c) == DOMAIN config.limits[c] # {}

Changed(c, s, t) == s # severity[c] \/ t # threshold[c]
Bug_Escalates(c, s) == FALSE
Escalates(c, s) == SEVERITY_ORDER[s] > SEVERITY_ORDER[severity[c]]

Bug_RepeatDue(c) == silence[c] = 0 /\ sinceNotified[c] >= MinRepeat
RepeatDue(c) == ~acknowledged[c] /\ silence[c] = 0 /\ sinceNotified[c] >= MinRepeat

(* Would _transition(c, s, t) reach the gateway's queue? *)
Announces(c, s, t) ==
  /\ s # "ok"
  /\ Changed(c, s, t) \/ RepeatDue(c)
  /\ enabled
  /\ Armed(c)

Orderings(S) == {q \in [1..Cardinality(S) -> S] : \A i, j \in DOMAIN q : q[i] = q[j] => i = j}

(* put_nowait: what does not fit is dropped, with an error in the log. *)
Enqueue(queue, messages) ==
  LET room == NOTIFY_QUEUE_MAX - Len(queue)
  IN queue \o SubSeq(messages, 1, IF Len(messages) < room THEN Len(messages) ELSE room)

Shown(s, t, a) == [severity |-> s, threshold |-> t, acknowledged |-> a]

AckAfter(c, s) == acknowledged[c] /\ ~Escalates(c, s)

Bug_Published(who, s, t) == {c \in who : c \notin known \/ s # severity[c]}
Published(who, s, t) == {c \in who : c \notin known \/ Changed(c, s, t)}

(* _transition(c, s, t) for every c in `who`, and the first publication of *)
(* a channel never seen before.                                            *)
Transition(who, s, t) ==
  LET announced == {c \in who : Announces(c, s, t)}
  IN /\ severity' = [c \in Channels |-> IF c \in who THEN s ELSE severity[c]]
     /\ threshold' = [c \in Channels |-> IF c \in who THEN t ELSE threshold[c]]
     /\ acknowledged' = [c \in Channels |-> IF c \in who THEN AckAfter(c, s)
                                                         ELSE acknowledged[c]]
     /\ sinceNotified' = [c \in Channels |-> IF c \in announced THEN 0
                                                                ELSE sinceNotified[c]]
     /\ retained' = [c \in Channels |-> IF c \in Published(who, s, t)
                                        THEN Shown(s, t, AckAfter(c, s))
                                        ELSE retained[c]]
     /\ \E order \in Orderings(announced) :
          /\ outbox' = Enqueue(outbox, order)
          /\ LET queued == {order[i] : i \in 1..(Len(outbox') - Len(outbox))}
             IN told' = [c \in Channels |->
                  \/ c \in queued
                  \/ told[c] /\ ~(c \in who /\ Changed(c, s, t))]

-------------------------------------------------------------------------------
(* The bus handlers, on the network thread. *)

(* on_measurement: a reading that is not OK is itself an alarm. *)
OnMeasurement(c) ==
  /\ loading = "no"
  /\ Watched(c)
  /\ c \notin dead
  /\ known' = known \cup {c}
  /\ age' = [age EXCEPT ![c] = 0]
  /\ stale' = [stale EXCEPT ![c] = FALSE]
  /\ \/ \E quality \in BadQualities : Transition({c}, "major", quality)
     \/ \E value \in Readings :
          LET verdict == ThresholdFor(config.limits[c], value, threshold[c])
          IN Transition({c}, verdict.severity, verdict.threshold)
  /\ UNCHANGED <<silence, config, loading, switchVars, sending, redelivery,
                 envVars, ackedAs>>

(* _on_retained_alarm: withdraw what an earlier process left behind for a  *)
(* channel that is no longer watched.                                      *)
Bug_Withdrawable(c) == FALSE
Withdrawable(c) ==
  /\ ~Watched(c)
  /\ c \notin known
  /\ ShowsAlarm(retained[c])

OnRetainedAlarm(c) ==
  /\ loading = "no"
  /\ c \in redelivery
  /\ redelivery' = redelivery \ {c}
  /\ retained' = IF Withdrawable(c) THEN [retained EXCEPT ![c] = AllClear] ELSE retained
  /\ UNCHANGED <<known, stateVars, timeVars, config, loading, switchVars,
                 queueVars, envVars, told, ackedAs>>

(* set_notifications: writing the file may fail, which is only logged. *)
SetNotifications(on) ==
  /\ loading = "no"
  /\ enabled' = on
  /\ savedEnabled' \in {on, savedEnabled}
  /\ UNCHANGED <<known, stateVars, timeVars, config, loading, disarmed,
                 savedDisarmed, queueVars, retained, redelivery, envVars, told, ackedAs>>

(* set_armed: refused for a channel that is not switchable. *)
SetArmed(c, on) ==
  /\ loading = "no"
  /\ c \in config.switchable
  /\ disarmed' = IF on THEN disarmed \ {c} ELSE disarmed \cup {c}
  /\ savedDisarmed' \in {disarmed', savedDisarmed}
  /\ UNCHANGED <<known, stateVars, timeVars, config, loading, enabled,
                 savedEnabled, queueVars, retained, redelivery, envVars, told, ackedAs>>

-------------------------------------------------------------------------------
(* reload(): the new configuration is assigned without the lock. *)
ReloadConfig ==
  /\ loading = "no"
  /\ config' \in Configs
  /\ loading' = "forget"
  /\ UNCHANGED <<known, stateVars, timeVars, switchVars, queueVars, retained,
                 redelivery, envVars, told, ackedAs>>

(* What is remembered of a channel that is not in _states. *)
Blank(S) ==
  /\ severity' = [c \in Channels |-> IF c \in S THEN "ok" ELSE severity[c]]
  /\ threshold' = [c \in Channels |-> IF c \in S THEN NoThreshold ELSE threshold[c]]
  /\ acknowledged' = [c \in Channels |-> c \notin S /\ acknowledged[c]]
  /\ stale' = [c \in Channels |-> c \notin S /\ stale[c]]
  /\ age' = [c \in Channels |-> IF c \in S THEN 0 ELSE age[c]]
  /\ sinceNotified' = [c \in Channels |-> IF c \in S THEN MinRepeat ELSE sinceNotified[c]]
  /\ silence' = [c \in Channels |-> IF c \in S THEN 0 ELSE silence[c]]
  /\ told' = [c \in Channels |-> c \notin S /\ told[c]]
  /\ ackedAs' = [c \in Channels |-> IF c \in S THEN "ok" ELSE ackedAs[c]]

(* ... then channels that were disabled are forgotten, and their alarms    *)
(* withdrawn by publishing them as ok ...                                  *)
WithdrawnWith(c) == Shown("ok", NoThreshold, acknowledged[c])

ReloadForget ==
  /\ loading = "forget"
  /\ LET gone == {c \in known : ~Watched(c)}
     IN /\ known' = known \ gone
        /\ retained' = [c \in Channels |->
             IF c \in gone /\ (severity[c] # "ok" \/ stale[c])
             THEN WithdrawnWith(c) ELSE retained[c]]
        /\ Blank(gone)
  /\ loading' = "clear"
  /\ UNCHANGED <<config, switchVars, queueVars, redelivery, envVars>>

(* ... and an alarm whose thresholds are gone altogether is cleared. *)
Bug_Orphaned(c) == FALSE
Bug_OrphanedStale(c) == c \in known /\ threshold[c] # NoThreshold /\ ~HasLimits(c)
Orphaned(c) ==
  /\ c \in known
  /\ threshold[c] \notin {NoThreshold, "staleness"}
  /\ ~HasLimits(c)

ReloadClear ==
  /\ loading = "clear"
  /\ LET orphans == {c \in Channels : Orphaned(c)}
     IN /\ severity' = [c \in Channels |-> IF c \in orphans THEN "ok" ELSE severity[c]]
        /\ threshold' = [c \in Channels |-> IF c \in orphans THEN NoThreshold
                                                             ELSE threshold[c]]
        /\ retained' = [c \in Channels |-> IF c \in orphans
                          THEN Shown("ok", NoThreshold, acknowledged[c]) ELSE retained[c]]
        /\ told' = [c \in Channels |-> c \notin orphans /\ told[c]]
  /\ loading' = "no"
  /\ UNCHANGED <<known, acknowledged, stale, timeVars, config, switchVars,
                 queueVars, redelivery, envVars, ackedAs>>

-------------------------------------------------------------------------------
(* acknowledge() and silence(), which any thread may call. *)

Acknowledge(c) ==
  /\ c \in known
  /\ severity[c] # "ok"
  /\ acknowledged' = [acknowledged EXCEPT ![c] = TRUE]
  /\ ackedAs' = [ackedAs EXCEPT ![c] = severity[c]]
  /\ retained' = [retained EXCEPT ![c] = Shown(severity[c], threshold[c], TRUE)]
  /\ UNCHANGED <<known, severity, threshold, stale, timeVars, config, loading,
                 switchVars, queueVars, redelivery, envVars, told>>

Silence(c) ==
  /\ c \in known
  /\ \E ticks \in 1..MaxSilence : silence' = [silence EXCEPT ![c] = ticks]
  /\ UNCHANGED <<known, stateVars, age, sinceNotified, config, loading,
                 switchVars, queueVars, retained, redelivery, envVars, told, ackedAs>>

(* check_staleness, on its own thread: every channel not seen for longer   *)
(* than stale_after_seconds, once.                                         *)
Overdue == {c \in known : age[c] > StaleAfter /\ ~stale[c]}

Bug_QueueAllows == Len(outbox) < NOTIFY_QUEUE_MAX
QueueAllows == TRUE      \* _dispatch never waits for room in the outbox

CheckStaleness ==
  /\ Overdue # {}
  /\ QueueAllows
  /\ stale' = [c \in Channels |-> stale[c] \/ c \in Overdue]
  /\ Transition(Overdue, StalenessSeverity, "staleness")
  /\ UNCHANGED <<known, age, silence, config, loading, switchVars, sending,
                 redelivery, envVars, ackedAs>>

(* _notify_pump: one message at a time. *)
PumpTake ==
  /\ ~sending
  /\ outbox # <<>>
  /\ sending' = TRUE
  /\ outbox' = Tail(outbox)
  /\ UNCHANGED <<known, stateVars, timeVars, config, loading, switchVars,
                 retained, redelivery, envVars, told, ackedAs>>

(* _send returns, delivered or not: an exception is logged. *)
AfterSend == FALSE

PumpSent ==
  /\ sending
  /\ sending' = AfterSend
  /\ UNCHANGED <<known, stateVars, timeVars, config, loading, switchVars, outbox,
                 retained, redelivery, envVars, told, ackedAs>>

-------------------------------------------------------------------------------
Older(n, most) == IF n < most THEN n + 1 ELSE n

Tick ==
  /\ age' = [c \in Channels |-> IF c \in known THEN Older(age[c], StaleAfter + 1) ELSE age[c]]
  /\ sinceNotified' = [c \in Channels |-> Older(sinceNotified[c], MinRepeat)]
  /\ silence' = [c \in Channels |-> IF silence[c] > 0 THEN silence[c] - 1 ELSE 0]
  /\ UNCHANGED <<known, stateVars, config, loading, switchVars, queueVars,
                 retained, redelivery, envVars, told, ackedAs>>

(* The connection to the broker comes back: the retained alarms are        *)
(* delivered again to the renewed subscription.                            *)
Reconnect ==
  /\ faults < MaxFaults
  /\ faults' = faults + 1
  /\ redelivery' = Channels
  /\ UNCHANGED <<known, stateVars, timeVars, config, loading, switchVars,
                 queueVars, retained, dead, told, ackedAs>>

(* A driver stops publishing a channel, or starts again. *)
SensorDies(c) ==
  /\ c \notin dead
  /\ dead' = dead \cup {c}
  /\ UNCHANGED <<known, stateVars, timeVars, config, loading, switchVars,
                 queueVars, retained, redelivery, faults, told, ackedAs>>

SensorReturns(c) ==
  /\ c \in dead
  /\ dead' = dead \ {c}
  /\ UNCHANGED <<known, stateVars, timeVars, config, loading, switchVars,
                 queueVars, retained, redelivery, faults, told, ackedAs>>

(* The process dies and a new one starts: _states is empty, the switches   *)
(* come from their files, the configuration from disk, and the broker      *)
(* delivers the retained alarms to the new subscriber.                     *)
Restart ==
  /\ faults < MaxFaults
  /\ faults' = faults + 1
  /\ known' = {}
  /\ Blank(Channels)
  /\ config' \in Configs
  /\ loading' = "no"
  /\ enabled' = savedEnabled
  /\ disarmed' = savedDisarmed
  /\ outbox' = <<>>
  /\ sending' = FALSE
  /\ redelivery' = Channels
  /\ UNCHANGED <<savedEnabled, savedDisarmed, retained, dead>>

-------------------------------------------------------------------------------
Init ==
  /\ known = {}
  /\ severity = [c \in Channels |-> "ok"]
  /\ threshold = [c \in Channels |-> NoThreshold]
  /\ acknowledged = [c \in Channels |-> FALSE]
  /\ stale = [c \in Channels |-> FALSE]
  /\ age = [c \in Channels |-> 0]
  /\ sinceNotified = [c \in Channels |-> MinRepeat]
  /\ silence = [c \in Channels |-> 0]
  /\ config \in Configs
  /\ loading = "no"
  /\ enabled = TRUE /\ savedEnabled = TRUE
  /\ disarmed = {} /\ savedDisarmed = {}
  /\ outbox = <<>>
  /\ sending = FALSE
  /\ retained = [c \in Channels |-> Absent]
  /\ redelivery = {}
  /\ dead = {}
  /\ faults = 0
  /\ told = [c \in Channels |-> FALSE]
  /\ ackedAs = [c \in Channels |-> "ok"]

Next ==
  \/ \E c \in Channels : OnMeasurement(c)
  \/ \E c \in Channels : OnRetainedAlarm(c)
  \/ \E on \in BOOLEAN : SetNotifications(on)
  \/ \E c \in Channels, on \in BOOLEAN : SetArmed(c, on)
  \/ ReloadConfig
  \/ ReloadForget
  \/ ReloadClear
  \/ \E c \in Channels : Acknowledge(c)
  \/ \E c \in Channels : Silence(c)
  \/ CheckStaleness
  \/ PumpTake
  \/ PumpSent
  \/ Tick
  \/ \E c \in Channels : SensorDies(c)
  \/ \E c \in Channels : SensorReturns(c)
  \/ Reconnect
  \/ Restart

Spec == Init /\ [][Next]_vars

(***************************************************************************)
(* Fairness.  Time passes; both threads of the engine are loops without a  *)
(* condition to wait for; a broker delivers what it has retained; reload() *)
(* does not block between its steps.  Nothing is assumed of the drivers    *)
(* and of the gateway here: it may hang for ever.                          *)
(***************************************************************************)
EngineFairness ==
  /\ WF_vars(Tick)
  /\ WF_vars(CheckStaleness)
  /\ WF_vars(PumpTake)
  /\ WF_vars(ReloadForget)
  /\ WF_vars(ReloadClear)
  /\ \A c \in Channels : SF_vars(OnRetainedAlarm(c))

HungGatewaySpec == Spec /\ EngineFairness

-------------------------------------------------------------------------------
TypeOK ==
  /\ known \subseteq Channels
  /\ severity \in [Channels -> Severities]
  /\ threshold \in [Channels -> Conditions]
  /\ acknowledged \in [Channels -> BOOLEAN]
  /\ stale \in [Channels -> BOOLEAN]
  /\ age \in [Channels -> 0..(StaleAfter + 1)]
  /\ sinceNotified \in [Channels -> 0..MinRepeat]
  /\ silence \in [Channels -> 0..MaxSilence]
  /\ config \in Configs
  /\ loading \in {"no", "forget", "clear"}
  /\ enabled \in BOOLEAN /\ savedEnabled \in BOOLEAN
  /\ disarmed \subseteq Channels /\ savedDisarmed \subseteq Channels
  /\ outbox \in Seq(Channels) /\ Len(outbox) <= NOTIFY_QUEUE_MAX
  /\ sending \in BOOLEAN
  /\ retained \in [Channels -> Alarm \cup {Absent}]
  /\ redelivery \subseteq Channels
  /\ dead \subseteq Channels
  /\ faults \in 0..MaxFaults
  /\ told \in [Channels -> BOOLEAN]
  /\ ackedAs \in [Channels -> Severities]

(* What a page shows is what the engine believes: after any interleaving   *)
(* of readings, staleness, acknowledgements, reloads and withdrawals the   *)
(* retained alarm of every channel the engine remembers is its state.      *)
RetainedAgrees ==
  \A c \in known : retained[c] = Shown(severity[c], threshold[c], acknowledged[c])

(* The stale flag, which keeps check_staleness from raising a channel a    *)
(* second time, is set exactly while the channel's alarm is the staleness  *)
(* one, and a severity other than ok always has a reason beside it.  A     *)
(* flag left set would make the channel's next silence go unnoticed.       *)
StaleFlagIsTheAlarm ==
  \A c \in known : /\ stale[c] <=> threshold[c] = "staleness"
                   /\ severity[c] = "ok" <=> threshold[c] = NoThreshold

(* Acknowledging "high" must not silence the "hihi" that follows it        *)
(* (engine.py:268): no acknowledgement stands over a condition worse than  *)
(* the one somebody acknowledged, whatever happened in between.            *)
AckNeverCoversWorse ==
  \A c \in Channels : acknowledged[c] =>
     SEVERITY_ORDER[severity[c]] <= SEVERITY_ORDER[ackedAs[c]]

(* Outside a reload the engine remembers no channel that is disabled, and  *)
(* no channel is in alarm on a limit after all its limits were deleted     *)
(* (engine.py:518).                                                        *)
ReloadLeavesNoGhost ==
  loading = "no" => \A c \in known :
     /\ Watched(c)
     /\ threshold[c] \in ThresholdNames => HasLimits(c)

Count(c, queue) == Cardinality({i \in DOMAIN queue : queue[i] = c})

(* Deduplication (DESIGN 11): a condition that has not changed is told     *)
(* again only when nobody acknowledged or silenced it and min_repeat has   *)
(* passed, whichever thread does the telling.                              *)
RepeatsAreEarned ==
  [][\A c \in Channels :
       /\ Count(c, outbox') > Count(c, outbox)
       /\ threshold'[c] = threshold[c] /\ severity'[c] = severity[c]
       => ~acknowledged[c] /\ silence[c] = 0 /\ sinceNotified[c] >= MinRepeat]_vars

(* A known channel whose driver has died is raised as stale, even when the *)
(* gateway hangs for ever with the outbox full (engine.py:359-390).        *)
SilenceIsNoticed ==
  \A c \in Channels : (c \in dead /\ c \in known)
                        ~> (stale[c] \/ c \notin dead \/ c \notin known)

(* An alarm left on the broker for a channel that is disabled when it is   *)
(* delivered again is withdrawn (engine.py:192-213).                       *)
LeftoverIsWithdrawn ==
  \A c \in Channels : (c \in redelivery /\ ~Watched(c))
     ~> (Watched(c) \/ ~ShowsAlarm(retained[c]))

-------------------------------------------------------------------------------
(* What comments and docs claim, and the engine does not do. *)

(* engine.py:310-314, of the master switch: "the moment alarms are         *)
(* switched back on, everything still wrong announces itself on its next   *)
(* reading instead of waiting out the repeat interval in silence".         *)
NextReadingAnnounces ==
  [][\A c \in Channels :
       /\ OnMeasurement(c)
       /\ severity'[c] # "ok" /\ ~told[c]
       /\ enabled /\ Armed(c) /\ ~acknowledged[c] /\ silence[c] = 0
       /\ Len(outbox) < NOTIFY_QUEUE_MAX
       => told'[c]]_vars

(* engine.py:612-614, logged when the switch goes off: "NOBODY WILL BE     *)
(* TOLD about them until this is switched back on".                        *)
NothingSentWhileOff == [][sending' /\ ~sending => enabled]_vars

(* engine.py:17-20: "A dead sensor must not read as healthy". *)
DeadIsNeverHealthy ==
  \A c \in Channels : (c \in dead /\ Watched(c))
    ~> (c \notin dead \/ ~Watched(c) \/ retained[c].severity # "ok")

(* engine.py:484-490: "Per-channel state is therefore KEPT across a        *)
(* reload".  Only a deleted limit or a disabled channel may end an alarm   *)
(* there: a sensor that reports an error still does after a reload.        *)
ReloadKeepsAlarms ==
  [][ReloadClear => \A c \in known :
       severity[c] # "ok" /\ threshold[c] \notin ThresholdNames
       => severity'[c] = severity[c]]_vars

(* engine.py:504-508: a disabled channel's "alarm is withdrawn", so that   *)
(* it is not the channel's last word on every page.                        *)
DisabledShowsNoAlarm ==
  loading = "no" => \A c \in Channels :
    ~Watched(c) /\ c \notin redelivery => ~ShowsAlarm(retained[c])
===============================================================================
