-------------------------- MODULE ServiceLoopProofs ---------------------------
(***************************************************************************)
(* What is proved of the loop of a service (ServiceLoop): its types, and   *)
(* that a mean across a command is published only after one of the races   *)
(* the model names, or a write that was refused as unconfirmed; for any    *)
(* channels, intervals, changes and troubles.                              *)
(***************************************************************************)
EXTENDS ServiceLoop, FiniteSetTheorems, TLAPS

(* An aggregate says error and has no value, or has values and says so.    *)
Whole == {a \in Aggregates : a.quality = "error" <=> a.values = {}}
Windows == [good : SUBSET (0..MaxChanges), last : Samples, bad : BOOLEAN]
UnderWay == [step : {"drop", "show"}, channel : Channels, value : 0..MaxChanges]

LoopTypes ==
  /\ value \in [Channels -> 0..MaxChanges] /\ changes \in 0..MaxChanges
  /\ pc \in {"wait", "filter", "emit", "dead", "abandoned"}
  /\ nextRead \in 0..MaxBackoff + Interval /\ nextLog \in 0..LogInterval
  /\ backoff \in 1..MaxBackoff /\ failures \in 0..2
  /\ state \in {"RUNNING", "DEGRADED", "STOPPED"} /\ (Stopped <=> state = "STOPPED")
  /\ DOMAIN batch \subseteq Channels /\ \A c \in DOMAIN batch : batch[c] \in Samples
  /\ todo \subseteq Channels /\ (pc = "filter" => todo \subseteq DOMAIN batch)
  /\ statLast \in [Channels -> Samples]
  /\ window \in [Channels -> Windows]
  /\ \A c \in Channels : window[c].good # {} => window[c].last # {}
  /\ command = Idle \/ command \in UnderWay
  /\ inHand = Nobody \/ inHand \in [channel : Channels, aggregate : Whole]
  /\ shown \in [Channels -> Whole]

(* The window of a channel that only commands change, and what the filter  *)
(* let pass of it or will let pass, is of what the instrument holds, but   *)
(* for the races and the writes refused as unconfirmed; and an aggregate   *)
(* of several values is of one of the two.                                 *)
AtMostOne(values) == \A v, w \in values : v = w

CleanInv ==
  /\ pc # "filter" => batch = <<>>
  /\ \A c \in Channels \ Flags : c \notin raced \cup unconfirmed /\ ~Untold(c) =>
       /\ window[c].good \subseteq {value[c]}
       /\ c \in DOMAIN batch /\ (c \in todo => c \notin commanded) => batch[c] \subseteq {value[c]}
  /\ inHand # Nobody =>
       /\ pc = "emit"
       /\ inHand.channel \notin raced \cup unconfirmed => AtMostOne(inHand.aggregate.values)

LoopInv == LoopTypes /\ CleanInv

-------------------------------------------------------------------------------
(* The bounds are numbers.                                                 *)
LEMMA Bounds ==
  /\ Interval \in Nat \ {0} /\ LogInterval \in Nat \ {0} /\ MaxBackoff \in Nat \ {0}
  /\ MaxChanges \in Nat /\ MaxTroubles \in Nat /\ Flags \subseteq Channels
BY LoopAssumption

(* Samples, errors and values told. *)
LEMMA SamplesAre ==
  /\ Bad \in Samples /\ Bad = {} /\ \A v \in 0..MaxChanges : {v} \in Samples /\ {v} # {}
  /\ \A s \in Samples : s \subseteq 0..MaxChanges /\ AtMostOne(s)
  /\ Error \in Whole /\ \A v \in 0..MaxChanges : Told(v) \in Whole
BY DEF Samples, Bad, AtMostOne, Error, Told, Whole, Aggregates

(* A window that has nothing. *)
LEMMA MissingIs ==
  Missing \in Windows /\ Missing.good = {} /\ Missing.last = {}
BY SamplesAre DEF Missing, Windows, Bad

(* A sample joins a window. *)
LEMMA WindowGrows ==
  ASSUME NEW w \in Windows, NEW s \in Samples, w.good # {} => w.last # {}
  PROVE  /\ WithSample(w, s) \in Windows /\ WithSample(w, s).good = w.good \cup s
         /\ WithSample(w, s).good # {} => WithSample(w, s).last # {}
BY SamplesAre DEF WithSample, Windows

(* The aggregate of a window. *)
LEMMA AggregateIs ==
  ASSUME LoopTypes, NEW c \in Channels
  PROVE  /\ Aggregate(c) \in Whole
         /\ c \in Flags => AtMostOne(Aggregate(c).values)
         /\ c \notin Flags => Aggregate(c).values \subseteq window[c].good
<1> DEFINE w == window[c]
<1>1. w \in Windows /\ w.good \subseteq 0..MaxChanges /\ w.last \in Samples /\ w.bad \in BOOLEAN
      /\ (w.good # {} => w.last # {}) /\ w.last \subseteq 0..MaxChanges /\ AtMostOne(w.last)
  BY SamplesAre DEF LoopTypes, Windows
<1>2. CASE w.good = {}
  <2>1. Aggregate(c) = Error /\ Error.values = {}
    BY <1>2 DEF Aggregate, Error
  <2> QED BY <2>1, SamplesAre DEF AtMostOne
<1>3. CASE w.good # {}
  <2>1. Aggregate(c) = [values |-> IF c \in Flags THEN w.last ELSE w.good,
                        quality |-> IF w.bad THEN "stale" ELSE "ok"]
    BY <1>3 DEF Aggregate
  <2>2. /\ Aggregate(c).values = IF c \in Flags THEN w.last ELSE w.good
        /\ Aggregate(c).quality = IF w.bad THEN "stale" ELSE "ok"
        /\ Aggregate(c) \in [values : SUBSET (0..MaxChanges), quality : {"ok", "stale", "error"}]
    <3> HIDE DEF w
    <3> QED BY <1>1, <2>1
  <2> HIDE DEF w
  <2>3. Aggregate(c).values # {} /\ Aggregate(c).quality # "error"
    BY <1>1, <1>3, <2>2
  <2>4. Aggregate(c) \in Whole
    BY <2>2, <2>3 DEF Whole, Aggregates
  <2>5. (c \in Flags => AtMostOne(Aggregate(c).values))
        /\ (c \notin Flags => Aggregate(c).values \subseteq w.good)
    BY <1>1, <2>2
  <2> QED BY <2>4, <2>5 DEF w
<1> QED BY <1>2, <1>3

(* Who is under a command that has not dropped the window yet. *)
LEMMA UntoldStays ==
  ASSUME UNCHANGED command, NEW c PROVE Untold(c)' <=> Untold(c)
BY DEF Untold

-------------------------------------------------------------------------------
(* A sweep begins: its samples are of now, and no command is older. *)
LEMMA ReadStep ==
  ASSUME LoopInv, Read
  PROVE  LoopInv'
<1>1. PICK unread \in SUBSET Channels :
        batch' = [c \in Channels |-> IF c \in unread THEN Bad ELSE {value[c]}]
  BY DEF Read
<1>2. /\ pc = "wait" /\ pc' = "filter" /\ todo' = Channels /\ commanded' = {}
      /\ UNCHANGED <<value, nextRead, nextLog, backoff, failures, state, inHand, window,
                     statLast, command, shown, changes, raced, unconfirmed>>
  BY DEF Read, history, device, cadence
<1>3. \A c \in Channels : batch'[c] \in Samples /\ batch'[c] \subseteq {value[c]}
  BY <1>1, SamplesAre DEF LoopInv, LoopTypes
<1>4. LoopTypes'
  BY <1>1, <1>2, <1>3 DEF LoopInv, LoopTypes, Stopped
<1>5. CleanInv'
  BY <1>1, <1>2, <1>3, UntoldStays DEF LoopInv, CleanInv
<1> QED BY <1>4, <1>5 DEF LoopInv

(* The filter drops a sample older than a command, or lets it pass. *)
LEMMA FilterStep ==
  ASSUME LoopInv, NEW c \in Channels, Filter(c)
  PROVE  LoopInv'
<1>1. /\ pc = "filter" /\ c \in todo /\ todo' = todo \ {c}
      /\ UNCHANGED <<value, pc, nextRead, nextLog, backoff, failures, state, inHand, window,
                     commanded, command, changes, raced, unconfirmed>>
  BY DEF Filter, history, device, cadence, bounds
<1>2. /\ DOMAIN batch' \subseteq DOMAIN batch /\ \A b \in DOMAIN batch' : batch'[b] = batch[b]
      /\ DOMAIN batch \ {c} \subseteq DOMAIN batch' /\ (c \in DOMAIN batch' => c \notin commanded)
  <2>1. CASE TooOld(c)
    BY <2>1 DEF Filter
  <2>2. CASE ~TooOld(c)
    BY <2>2 DEF Filter, TooOld
  <2> QED BY <2>1, <2>2
<1>3. statLast' \in [Channels -> Samples] /\ shown' \in [Channels -> Whole]
  <2>1. CASE UNCHANGED <<statLast, shown>>
    BY <2>1 DEF LoopInv, LoopTypes
  <2>2. CASE ~UNCHANGED <<statLast, shown>>
    <3>1. /\ c \in Flags /\ batch[c] # Bad
          /\ statLast' = [statLast EXCEPT ![c] = batch[c]]
          /\ \E v \in batch[c] : shown' = [shown EXCEPT ![c] = Told(v)]
          /\ ~TooOld(c)
      BY <2>2 DEF Filter
    <3>2. PICK v \in batch[c] : shown' = [shown EXCEPT ![c] = Told(v)]
      BY <3>1
    <3>3. batch[c] \in Samples
      BY <1>1 DEF LoopInv, LoopTypes
    <3> QED BY <3>1, <3>2, <3>3, SamplesAre DEF LoopInv, LoopTypes
  <2> QED BY <2>1, <2>2
<1>4. LoopTypes'
  BY <1>1, <1>2, <1>3 DEF LoopInv, LoopTypes, Stopped
<1>5. CleanInv'
  <2>1. ASSUME NEW d \in Channels \ Flags, d \notin raced' \cup unconfirmed', ~Untold(d)'
        PROVE  /\ window'[d].good \subseteq {value'[d]}
               /\ d \in DOMAIN batch' /\ (d \in todo' => d \notin commanded') =>
                    batch'[d] \subseteq {value'[d]}
    <3>1. d \notin raced \cup unconfirmed /\ ~Untold(d)
      BY <1>1, <2>1, UntoldStays
    <3>2. /\ window[d].good \subseteq {value[d]}
          /\ d \in DOMAIN batch /\ (d \in todo => d \notin commanded) =>
               batch[d] \subseteq {value[d]}
      BY <3>1 DEF LoopInv, CleanInv
    <3>3. ASSUME d \in DOMAIN batch', d \in todo' => d \notin commanded'
          PROVE  batch'[d] \subseteq {value'[d]}
      <4>1. d \in DOMAIN batch /\ batch'[d] = batch[d] /\ (d \in todo => d \notin commanded)
        BY <1>1, <1>2, <3>3
      <4> QED BY <1>1, <3>2, <4>1
    <3> QED BY <1>1, <3>2, <3>3
  <2> QED BY <1>1, <2>1 DEF LoopInv, CleanInv
<1> QED BY <1>4, <1>5 DEF LoopInv

(* The samples that passed join the window. *)
LEMMA AccumulateStep ==
  ASSUME LoopInv, Accumulate
  PROVE  LoopInv'
<1>1. /\ pc = "filter" /\ todo = {} /\ pc' = "wait" /\ state' = "RUNNING" /\ backoff' = 1
      /\ failures' = 0 /\ nextRead' = Interval /\ batch' = <<>>
      /\ window' = [c \in Channels |-> IF c \in DOMAIN batch THEN WithSample(window[c], batch[c])
                                                            ELSE window[c]]
      /\ UNCHANGED <<value, nextLog, todo, inHand, commanded, statLast, command, shown, changes,
                     raced, unconfirmed>>
  BY DEF Accumulate, history, device, bounds, Recovered
<1>2. ASSUME NEW c \in Channels
      PROVE  /\ window'[c] \in Windows /\ (window'[c].good # {} => window'[c].last # {})
             /\ window'[c].good = IF c \in DOMAIN batch THEN window[c].good \cup batch[c]
                                                        ELSE window[c].good
  <2>1. window[c] \in Windows /\ (window[c].good # {} => window[c].last # {})
    BY DEF LoopInv, LoopTypes
  <2>2. CASE c \in DOMAIN batch
    <3>1. batch[c] \in Samples
      BY <2>2 DEF LoopInv, LoopTypes
    <3> QED BY <1>1, <2>1, <2>2, <3>1, WindowGrows
  <2>3. CASE c \notin DOMAIN batch
    BY <1>1, <2>1, <2>3
  <2> QED BY <2>2, <2>3
<1>3. LoopTypes'
  <2>1. DOMAIN batch' = {}
    BY <1>1
  <2>2. window' \in [Channels -> Windows]
    BY <1>1, <1>2
  <2>3. nextRead' \in 0..MaxBackoff + Interval /\ backoff' \in 1..MaxBackoff /\ failures' \in 0..2
    BY <1>1, Bounds
  <2> QED BY <1>1, <1>2, <2>1, <2>2, <2>3 DEF LoopInv, LoopTypes, Stopped
<1>4. CleanInv'
  <2>1. ASSUME NEW c \in Channels \ Flags, c \notin raced' \cup unconfirmed', ~Untold(c)'
        PROVE  window'[c].good \subseteq {value'[c]}
    <3>1. c \notin raced \cup unconfirmed /\ ~Untold(c)
      BY <1>1, <2>1, UntoldStays
    <3>2. /\ window[c].good \subseteq {value[c]}
          /\ c \in DOMAIN batch => batch[c] \subseteq {value[c]}
      BY <1>1, <3>1 DEF LoopInv, CleanInv
    <3> QED BY <1>1, <1>2, <3>2
  <2>2. DOMAIN batch' = {} /\ inHand' = Nobody
    BY <1>1 DEF LoopInv, CleanInv
  <2> QED BY <1>1, <2>1, <2>2 DEF CleanInv
<1> QED BY <1>3, <1>4 DEF LoopInv

(* A read fails: every channel is an error, and the pause grows. *)
LEMMA ReadFailsStep ==
  ASSUME LoopInv, ReadFails
  PROVE  LoopInv'
<1>1. /\ pc = "wait" /\ state' = "DEGRADED" /\ shown' = [c \in Channels |-> Error]
      /\ commanded' = {}
      /\ UNCHANGED <<value, pc, nextLog, batch, todo, inHand, window, statLast, command, changes,
                     raced, unconfirmed>>
  BY DEF ReadFails, history, device, walk, Owned
<1>2. PICK reconnected \in BOOLEAN :
        LET pause == IF reconnected THEN 1 ELSE backoff
        IN /\ failures' = IF reconnected THEN 0 ELSE Least(failures + 1, 2)
           /\ nextRead' = pause /\ backoff' = Longer(pause)
  BY DEF ReadFails
<1>3. /\ backoff \in 1..MaxBackoff /\ failures \in 0..2
  BY DEF LoopInv, LoopTypes
<1>4. nextRead' \in 0..MaxBackoff + Interval /\ failures' \in 0..2 /\ backoff' \in 1..MaxBackoff
  BY <1>2, <1>3, Bounds DEF Least, Longer
<1>5. LoopTypes'
  BY <1>1, <1>4, SamplesAre DEF LoopInv, LoopTypes, Stopped
<1>6. CleanInv'
  BY <1>1, UntoldStays DEF LoopInv, CleanInv
<1> QED BY <1>5, <1>6 DEF LoopInv

-------------------------------------------------------------------------------
(* The loop begins to walk the window. *)
LEMMA EmitBeginStep ==
  ASSUME LoopInv, EmitBegin
  PROVE  LoopInv'
<1>1. /\ pc = "wait" /\ pc' = "emit" /\ todo' \subseteq Channels
      /\ UNCHANGED <<value, nextRead, nextLog, backoff, failures, state, batch, inHand, window,
                     commanded, statLast, command, shown, changes, raced, unconfirmed>>
  BY DEF EmitBegin, history, device, cadence, bounds
<1>2. batch = <<>> /\ DOMAIN batch' = {}
  BY <1>1 DEF LoopInv, CleanInv
<1>3. LoopTypes'
  BY <1>1 DEF LoopInv, LoopTypes, Stopped
<1>4. CleanInv'
  BY <1>1, <1>2, UntoldStays DEF LoopInv, CleanInv
<1> QED BY <1>3, <1>4 DEF LoopInv

(* It takes the aggregate of a channel. *)
LEMMA EmitNextStep ==
  ASSUME LoopInv, NEW c \in Channels, EmitNext(c)
  PROVE  LoopInv'
<1>1. /\ pc = "emit" /\ inHand' = [channel |-> c, aggregate |-> Aggregate(c)]
      /\ todo' = todo \ {c} /\ raced' = IF Untold(c) THEN raced \cup {c} ELSE raced
      /\ UNCHANGED <<value, pc, nextRead, nextLog, backoff, failures, state, batch, window,
                     commanded, statLast, command, shown, changes, unconfirmed>>
  BY DEF EmitNext, device, cadence, bounds
<1>2. LoopTypes'
  <2>1. inHand' \in [channel : Channels, aggregate : Whole]
    BY <1>1, AggregateIs DEF LoopInv
  <2> QED BY <1>1, <2>1 DEF LoopInv, LoopTypes, Stopped
<1>3. ASSUME c \notin raced' \cup unconfirmed' PROVE AtMostOne(Aggregate(c).values)
  <2>1. c \notin raced \cup unconfirmed /\ ~Untold(c)
    BY <1>1, <1>3
  <2>2. CASE c \in Flags
    BY <2>2, AggregateIs DEF LoopInv
  <2>3. CASE c \notin Flags
    <3>1. window[c].good \subseteq {value[c]}
      BY <2>1, <2>3 DEF LoopInv, CleanInv
    <3> QED BY <2>3, <3>1, AggregateIs DEF LoopInv, AtMostOne
  <2> QED BY <2>2, <2>3
<1>4. inHand'.channel = c /\ inHand'.aggregate = Aggregate(c)
  BY <1>1
<1>5. batch = <<>> /\ DOMAIN batch' = {} /\ raced \subseteq raced'
  BY <1>1 DEF LoopInv, CleanInv
<1>6. CleanInv'
  BY <1>1, <1>3, <1>4, <1>5, UntoldStays DEF LoopInv, CleanInv
<1> QED BY <1>2, <1>6 DEF LoopInv

(* It publishes it, and at the end empties the window, or finds that the   *)
(* window has changed its size.                                            *)
LEMMA EmitOtherSteps ==
  ASSUME LoopInv, EmitPublish \/ EmitEnd \/ EmitRaises
  PROVE  LoopInv'
<1>1. CASE EmitPublish
  <2>1. /\ pc = "emit" /\ inHand # Nobody /\ inHand' = Nobody
        /\ shown' = [shown EXCEPT ![inHand.channel] = inHand.aggregate]
        /\ UNCHANGED <<value, pc, nextRead, nextLog, backoff, failures, state, batch, todo, window,
                       commanded, statLast, command, changes, raced, unconfirmed>>
    BY <1>1 DEF EmitPublish, history, device, cadence, bounds
  <2>2. inHand.channel \in Channels /\ inHand.aggregate \in Whole
    BY <2>1 DEF LoopInv, LoopTypes
  <2>3. LoopTypes'
    BY <2>1, <2>2 DEF LoopInv, LoopTypes, Stopped
  <2>4. CleanInv'
    BY <2>1, UntoldStays DEF LoopInv, CleanInv
  <2> QED BY <2>3, <2>4 DEF LoopInv
<1>2. CASE EmitEnd
  <2>1. /\ pc = "emit" /\ inHand = Nobody /\ todo = {} /\ window' = Emptied
        /\ nextLog' = LogInterval /\ pc' = "wait" /\ raced' = {} /\ unconfirmed' = {}
        /\ UNCHANGED <<value, nextRead, backoff, failures, state, batch, todo, inHand, commanded,
                       statLast, command, shown, changes>>
    BY <1>2 DEF EmitEnd, device, walk, bounds
  <2>2. window' \in [Channels -> Windows] /\ \A c \in Channels : window'[c] = Missing
    BY <2>1, MissingIs DEF Emptied
  <2>3. \A c \in Channels : window'[c].good = {}
    BY <2>2, MissingIs
  <2>4. LoopTypes'
    BY <2>1, <2>2, <2>3, Bounds DEF LoopInv, LoopTypes, Stopped
  <2>5. batch = <<>> /\ DOMAIN batch' = {}
    BY <2>1 DEF LoopInv, CleanInv
  <2>6. CleanInv'
    BY <2>1, <2>3, <2>5 DEF CleanInv
  <2> QED BY <2>4, <2>6 DEF LoopInv
<1>3. CASE EmitRaises
  <2>1. /\ pc = "emit" /\ inHand = Nobody /\ pc' = "dead" /\ state' = "STOPPED"
        /\ UNCHANGED <<value, nextRead, nextLog, backoff, failures, batch, todo, inHand, window,
                       commanded, statLast, command, shown, changes, raced, unconfirmed>>
    BY <1>3 DEF EmitRaises, history, device, walk, bounds
  <2>2. LoopTypes'
    BY <2>1 DEF LoopInv, LoopTypes, Stopped
  <2>3. CleanInv'
    BY <2>1, UntoldStays DEF LoopInv, CleanInv
  <2> QED BY <2>2, <2>3 DEF LoopInv
<1> QED BY <1>1, <1>2, <1>3

(* A dead service is started again, with nothing in its window. *)
LEMMA StartAgainStep ==
  ASSUME LoopInv, StartAgain
  PROVE  LoopInv'
<1>1. /\ pc = "dead" /\ pc' = "wait" /\ nextRead' = 0 /\ nextLog' = LogInterval /\ backoff' = 1
      /\ failures' = 0 /\ state' = "RUNNING" /\ window' = Emptied /\ commanded' = {}
      /\ statLast' = [c \in Channels |-> Bad] /\ todo' = {} /\ raced' = {}
      /\ unconfirmed' = {}
      /\ UNCHANGED <<value, batch, inHand, command, shown, changes>>
  BY DEF StartAgain, Fresh, device, bounds
<1>2. window' \in [Channels -> Windows] /\ \A c \in Channels : window'[c] = Missing
  BY <1>1, MissingIs DEF Emptied
<1>3. \A c \in Channels : window'[c].good = {}
  BY <1>2, MissingIs
<1>4. statLast' \in [Channels -> Samples]
  BY <1>1, SamplesAre
<1>5. LoopTypes'
  BY <1>1, <1>2, <1>3, <1>4, Bounds DEF LoopInv, LoopTypes, Stopped
<1>6. batch = <<>> /\ DOMAIN batch' = {} /\ inHand' = Nobody
  BY <1>1 DEF LoopInv, CleanInv
<1>7. CleanInv'
  BY <1>1, <1>3, <1>6 DEF CleanInv
<1> QED BY <1>5, <1>7 DEF LoopInv

(* A dead service is given up. *)
LEMMA GiveUpStep ==
  ASSUME LoopInv, GiveUp
  PROVE  LoopInv'
<1>1. /\ pc = "dead" /\ pc' = "abandoned"
      /\ UNCHANGED <<value, nextRead, nextLog, backoff, failures, state, batch, todo, inHand,
                     window, commanded, statLast, command, shown, changes, raced, unconfirmed>>
  BY DEF GiveUp, history, device, cadence, walk, bounds
<1>2. batch = <<>> /\ inHand = Nobody
  BY <1>1 DEF LoopInv, CleanInv
<1>3. LoopTypes'
  BY <1>1 DEF LoopInv, LoopTypes, Stopped
<1>4. CleanInv'
  BY <1>1, <1>2, UntoldStays DEF LoopInv, CleanInv
<1> QED BY <1>3, <1>4 DEF LoopInv

-------------------------------------------------------------------------------
(* A write: from now on the window may hold what was there before. *)
LEMMA CommandWriteStep ==
  ASSUME LoopInv, NEW c \in Channels, CommandWrite(c)
  PROVE  LoopInv'
<1>1. /\ changes < MaxChanges /\ changes' = changes + 1
      /\ value' = [value EXCEPT ![c] = changes + 1]
      /\ UNCHANGED <<pc, nextRead, nextLog, backoff, failures, state, batch, todo, inHand, window,
                     commanded, statLast, shown, raced>>
  BY DEF CommandWrite, cadence, walk
<1>2. changes + 1 \in 0..MaxChanges /\ value' \in [Channels -> 0..MaxChanges]
  BY <1>1, Bounds DEF LoopInv, LoopTypes
<1>3. /\ command = Idle
      /\ \/ /\ command' = [step |-> "drop", channel |-> c, value |-> changes + 1]
            /\ unconfirmed' = unconfirmed
         \/ command' = Idle /\ unconfirmed' = unconfirmed \cup {c}
  BY DEF CommandWrite
<1>4. LoopTypes'
  <2>1. command' = Idle \/ command' \in UnderWay
    BY <1>2, <1>3 DEF UnderWay
  <2> QED BY <1>1, <1>2, <2>1 DEF LoopInv, LoopTypes, Stopped
<1>5. ASSUME NEW d \in Channels \ Flags, ~Untold(d)', d \notin unconfirmed'
      PROVE  value'[d] = value[d] /\ ~Untold(d) /\ d \notin unconfirmed
  <2>1. ~Untold(d) /\ d \notin unconfirmed /\ d # c
    BY <1>3, <1>5 DEF Untold, Idle
  <2> QED BY <1>1, <2>1 DEF LoopInv, LoopTypes
<1>6. unconfirmed \subseteq unconfirmed'
  BY <1>3
<1>7. CleanInv'
  BY <1>1, <1>5, <1>6 DEF LoopInv, CleanInv
<1> QED BY <1>4, <1>7 DEF LoopInv

(* The command has the window dropped; an older sample is either still to  *)
(* be filtered, or a race.                                                 *)
LEMMA CommandDropStep ==
  ASSUME LoopInv, CommandDrop
  PROVE  LoopInv'
<1> DEFINE c == command.channel
<1>1. /\ command.step = "drop" /\ commanded' = commanded \cup {c}
      /\ window' = [window EXCEPT ![c] = Missing]
      /\ raced' = IF pc = "filter" /\ c \notin todo THEN raced \cup {c} ELSE raced
      /\ unconfirmed' = IF Carried(c) THEN unconfirmed ELSE unconfirmed \ {c}
      /\ command' = [command EXCEPT !.step = "show"]
      /\ UNCHANGED <<value, pc, nextRead, nextLog, backoff, failures, state, batch, todo, inHand,
                     statLast, shown, changes>>
  BY DEF CommandDrop, device, cadence, walk, bounds, Dropped
<1>2. command \in UnderWay /\ c \in Channels /\ command' \in UnderWay /\ command'.step = "show"
  BY <1>1 DEF LoopInv, LoopTypes, Idle, UnderWay
<1> HIDE DEF c
<1>3. window' \in [Channels -> Windows] /\ window'[c] = Missing
      /\ \A d \in Channels \ {c} : window'[d] = window[d]
  BY <1>1, <1>2, MissingIs DEF LoopInv, LoopTypes
<1>4. \A d \in Channels : window'[d].good # {} => window'[d].last # {}
  BY <1>3, MissingIs DEF LoopInv, LoopTypes
<1>5. LoopTypes'
  BY <1>1, <1>2, <1>3, <1>4 DEF LoopInv, LoopTypes, Stopped
<1>6. /\ raced \subseteq raced'
      /\ \A d \in Channels \ {c} : ~Untold(d) /\ (d \in unconfirmed => d \in unconfirmed')
      /\ inHand # Nobody /\ inHand.channel \in unconfirmed => inHand.channel \in unconfirmed'
  BY <1>1 DEF Untold, Carried, c
<1>7. ASSUME NEW d \in Channels \ Flags, d \notin raced' \cup unconfirmed'
      PROVE  /\ window'[d].good \subseteq {value'[d]}
             /\ d \in DOMAIN batch' /\ (d \in todo' => d \notin commanded') =>
                  batch'[d] \subseteq {value'[d]}
  <2>1. CASE d = c
    <3>1. window'[d].good = {}
      BY <1>3, <2>1, MissingIs
    <3>2. ~(c \in DOMAIN batch /\ (c \in todo => c \notin commanded'))
      <4>1. CASE pc = "filter"
        BY <1>1, <1>7, <2>1, <4>1
      <4>2. CASE pc # "filter"
        <5>1. DOMAIN batch = {}
          BY <4>2 DEF LoopInv, CleanInv
        <5> QED BY <5>1
      <4> QED BY <4>1, <4>2
    <3> QED BY <1>1, <2>1, <3>1, <3>2
  <2>2. CASE d # c
    <3>1. d \notin raced \cup unconfirmed /\ ~Untold(d) /\ window'[d] = window[d]
      BY <1>3, <1>6, <1>7, <2>2
    <3>2. d \in commanded' <=> d \in commanded
      BY <1>1, <2>2
    <3> QED BY <1>1, <3>1, <3>2 DEF LoopInv, CleanInv
  <2> QED BY <2>1, <2>2
<1>8. CleanInv'
  BY <1>1, <1>6, <1>7 DEF LoopInv, CleanInv
<1> QED BY <1>5, <1>8 DEF LoopInv

(* It publishes the value it read back. *)
LEMMA CommandShowStep ==
  ASSUME LoopInv, CommandShow
  PROVE  LoopInv'
<1> DEFINE c == command.channel
<1>1. /\ command.step = "show" /\ shown' = [shown EXCEPT ![c] = Told(command.value)]
      /\ statLast' = IF c \in Flags THEN [statLast EXCEPT ![c] = {command.value}] ELSE statLast
      /\ command' = Idle
      /\ UNCHANGED <<value, pc, nextRead, nextLog, backoff, failures, state, batch, todo, inHand,
                     window, commanded, changes, raced, unconfirmed>>
  BY DEF CommandShow, history, device, cadence, walk, bounds
<1>2. c \in Channels /\ command.value \in 0..MaxChanges
  BY <1>1 DEF LoopInv, LoopTypes, Idle, UnderWay
<1>3. {command.value} \in Samples /\ Told(command.value) \in Whole
  BY <1>2, SamplesAre
<1> HIDE DEF c
<1>4. LoopTypes'
  BY <1>1, <1>2, <1>3 DEF LoopInv, LoopTypes, Stopped
<1>5. \A d \in Channels : ~Untold(d)
  BY <1>1 DEF Untold
<1>6. CleanInv'
  BY <1>1, <1>5 DEF LoopInv, CleanInv
<1> QED BY <1>4, <1>6 DEF LoopInv

(* A status word changes, the link comes or goes, time passes. *)
LEMMA SurroundingSteps ==
  ASSUME LoopInv, LinkChanges \/ Tick \/ \E c \in Channels : StatusChanges(c)
  PROVE  LoopInv'
<1>1. CASE \E c \in Channels : StatusChanges(c)
  <2>1. PICK c \in Channels : StatusChanges(c)
    BY <1>1
  <2>2. /\ c \in Flags /\ changes < MaxChanges /\ changes' = changes + 1
        /\ value' = [value EXCEPT ![c] = changes + 1]
        /\ UNCHANGED <<pc, nextRead, nextLog, backoff, failures, state, batch, todo, inHand,
                       window, commanded, statLast, command, shown, raced, unconfirmed>>
    BY <2>1 DEF StatusChanges, history, cadence, walk
  <2>3. changes' \in 0..MaxChanges /\ value' \in [Channels -> 0..MaxChanges]
    BY <2>2, Bounds DEF LoopInv, LoopTypes
  <2>4. LoopTypes'
    BY <2>2, <2>3 DEF LoopInv, LoopTypes, Stopped
  <2>5. \A d \in Channels \ Flags : value'[d] = value[d]
    BY <2>2 DEF LoopInv, LoopTypes
  <2>6. CleanInv'
    BY <2>2, <2>5, UntoldStays DEF LoopInv, CleanInv
  <2> QED BY <2>4, <2>6 DEF LoopInv
<1>2. CASE LinkChanges
  <2>1. UNCHANGED <<value, pc, nextRead, nextLog, backoff, failures, state, batch, todo, inHand,
                    window, commanded, statLast, command, shown, changes, raced, unconfirmed>>
    BY <1>2 DEF LinkChanges, history, cadence, walk
  <2> QED BY <2>1, UntoldStays DEF LoopInv, LoopTypes, CleanInv, Stopped
<1>3. CASE Tick
  <2>1. /\ nextRead > 0 /\ nextLog > 0 /\ nextRead' = nextRead - 1 /\ nextLog' = nextLog - 1
        /\ UNCHANGED <<value, pc, backoff, failures, state, batch, todo, inHand, window, commanded,
                       statLast, command, shown, changes, raced, unconfirmed>>
    BY <1>3 DEF Tick, history, device, walk, bounds
  <2>2. nextRead' \in 0..MaxBackoff + Interval /\ nextLog' \in 0..LogInterval
    BY <2>1, Bounds DEF LoopInv, LoopTypes
  <2> QED BY <2>1, <2>2, UntoldStays DEF LoopInv, LoopTypes, CleanInv, Stopped
<1> QED BY <1>1, <1>2, <1>3

(* Before the first read. *)
LEMMA LoopInitially == Init => LoopInv
<1> SUFFICES ASSUME Init PROVE LoopInv
  OBVIOUS
<1>1. /\ value = [c \in Channels |-> 0] /\ pc = "wait" /\ nextRead = 0 /\ nextLog = LogInterval
      /\ backoff = 1 /\ failures = 0 /\ state = "RUNNING" /\ batch = <<>> /\ todo = {}
      /\ inHand = Nobody /\ window = [c \in Channels |-> Missing]
      /\ statLast = [c \in Channels |-> Bad] /\ command = Idle
      /\ shown = [c \in Channels |-> Error] /\ changes = 0
  BY DEF Init
<1>2. DOMAIN batch = {} /\ \A c \in Channels : window[c] = Missing
  BY <1>1
<1>3. LoopTypes
  <2>1. window \in [Channels -> Windows] /\ \A c \in Channels : window[c].good = {}
    BY <1>1, MissingIs
  <2>2. statLast \in [Channels -> Samples] /\ shown \in [Channels -> Whole]
    BY <1>1, SamplesAre
  <2> QED BY <1>1, <1>2, <2>1, <2>2, Bounds DEF LoopTypes, Stopped
<1>4. CleanInv
  BY <1>1, <1>2, MissingIs DEF CleanInv
<1> QED BY <1>3, <1>4 DEF LoopInv

(* Nothing happened. *)
LEMMA LoopStutters ==
  ASSUME LoopInv, UNCHANGED vars
  PROVE  LoopInv'
<1>1. UNCHANGED <<value, pc, nextRead, nextLog, backoff, failures, state, batch, todo, inHand,
                  window, commanded, statLast, command, shown, changes, raced, unconfirmed>>
  BY DEF vars, history, device, cadence, walk, bounds
<1> QED BY <1>1, UntoldStays DEF LoopInv, LoopTypes, CleanInv, Stopped

(* Every step keeps the invariant. *)
LEMMA LoopInvariant == Spec => []LoopInv
<1>1. LoopInv /\ [Next]_vars => LoopInv'
  BY ReadStep, FilterStep, AccumulateStep, ReadFailsStep, EmitBeginStep, EmitNextStep,
     EmitOtherSteps, StartAgainStep, GiveUpStep, CommandWriteStep, CommandDropStep,
     CommandShowStep, SurroundingSteps, LoopStutters DEF Next, Loop, FinishCommand
<1> QED BY <1>1, LoopInitially, PTL DEF Spec

(* The types of the loop and of what it shows. *)
THEOREM LoopTypesHold == Spec => []TypeOK
<1>1. LoopInv => TypeOK
  BY DEF LoopInv, LoopTypes, TypeOK, Whole
<1> QED BY <1>1, LoopInvariant, PTL

(* Two values have a mean. *)
LEMMA SeveralDiffer ==
  ASSUME NEW values, AtMostOne(values)
  PROVE  ~(Cardinality(values) > 1)
<1>1. CASE values = {}
  BY <1>1, FS_EmptySet
<1>2. CASE values # {}
  <2>1. PICK v : values = {v}
    BY <1>2 DEF AtMostOne
  <2> QED BY <2>1, FS_Singleton
<1> QED BY <1>1, <1>2

(* OnlyUnconfirmedOrRacingWritesMix: a mean of several values of a channel  *)
(* is published only when a write that took was refused as unconfirmed and  *)
(* the window has not been dropped since, or the command came while an      *)
(* older sample was between the filter and the window, or before it had     *)
(* dropped the window (caen.py:991-996, 889-903, 1666-1684); for any        *)
(* channels and any number of commands.                                     *)
THEOREM MixesAreUnconfirmedOrRaced == Spec => OnlyUnconfirmedOrRacingWritesMix
<1>1. LoopInv => \A c \in Channels :
        EmitPublish /\ inHand.channel = c /\ Cardinality(inHand.aggregate.values) > 1
          => c \in unconfirmed \cup raced
  BY SeveralDiffer DEF LoopInv, CleanInv, EmitPublish
<1>2. LoopInv /\ [Next]_vars => [\A c \in Channels :
        EmitPublish /\ inHand.channel = c /\ Cardinality(inHand.aggregate.values) > 1
          => c \in unconfirmed \cup raced]_vars
  BY <1>1
<1> QED BY <1>2, LoopInvariant, PTL DEF Spec, OnlyUnconfirmedOrRacingWritesMix
===============================================================================
