-------------------------- MODULE InstrumentsProofs ---------------------------
(***************************************************************************)
(* What is proved of single instruments: of the background threads of the  *)
(* cDAQ (CdaqReader), with any number of modules and readings; of the      *)
(* acquisitions of the gas analyser (RgaScan), with any number of them,    *)
(* scans, commands, crashes and failed writes; of the port of the          *)
(* temperature controller (LakeshorePort), with any settings, commands and *)
(* late answers; and of the tap on the turbo pump (TurboTap), with any     *)
(* parameters, switches of its controller, cables and garbled replies.     *)
(***************************************************************************)
EXTENDS Instruments, SequenceTheorems, FiniteSetTheorems, TLAPS

(* The background threads of the cDAQ.                                     *)

(* What read() was handed, or will be, and what the threads put on the     *)
(* list since.                                                             *)
Before == IF reader = "swap" THEN handed ELSE handed \o inHand
Passed == Before \o list

(* On that list a reading stands once, and every reading made is there or  *)
(* with its thread.                                                        *)
Accounts(passed, readings, threads) ==
  /\ \A i \in DOMAIN readings : readings[i].number = i
  /\ \A i \in DOMAIN passed : \A j \in DOMAIN passed : passed[i] = passed[j] => i = j
  /\ \A i \in DOMAIN passed : \E k \in DOMAIN readings : passed[i] = readings[k]
  /\ \A m \in Slow : threads[m].at = "got" =>
       /\ threads[m].reading.module = m
       /\ \E k \in DOMAIN readings : threads[m].reading = readings[k]
       /\ \A i \in DOMAIN passed : passed[i] # threads[m].reading
  /\ \A k \in DOMAIN readings :
       \/ \E i \in DOMAIN passed : passed[i] = readings[k]
       \/ \E m \in Slow : threads[m].at = "got" /\ threads[m].reading = readings[k]

ReaderInv ==
  /\ Accounts(Passed, made, thread)
  /\ reader = "swap" => listLock = "loop" /\ inHand = list
  /\ reader \in {"rest", "read"} => inHand = <<>>
  /\ service = "opening" => \A m \in Slow : thread[m].at = "none"

(* While the service stops no read is in progress in the loop and none     *)
(* begins in a thread; whoever reads and has not been joined has read      *)
(* as long as the service waited for it, and whoever has been, as long as  *)
(* the service waits.                                                      *)
StoppingInv ==
  /\ torn = {}
  /\ reader # "rest" => service = "running"
  /\ service = "stopping" =>
       /\ stop
       /\ \A m \in Slow : thread[m].at = "read" =>
            thread[m].ticks >= IF m \in toDo THEN waited ELSE Patience

ReadingThreads == [at : {"none", "rest", "read", "got", "end"},
                   reading : D!Readings \cup {D!NoReading}, ticks : 0..Patience]

ReaderIInv == D!TypeOK /\ ReaderInv /\ StoppingInv

(* A thread's record changes in one place.                                 *)
LEMMA ThreadMoves ==
  ASSUME D!TypeOK, NEW m \in Slow, NEW r \in ReadingThreads,
         thread' = [thread EXCEPT ![m] = r]
  PROVE  /\ thread' \in [Slow -> ReadingThreads] /\ thread'[m] = r
         /\ \A n \in Slow : n # m => thread'[n] = thread[n]
BY DEF D!TypeOK, ReadingThreads

(* The reading that comes next is a reading.                               *)
LEMMA NextReading ==
  ASSUME D!ReaderAssumption, D!TypeOK, NEW m \in Slow, Len(made) < MaxReadings
  PROVE  D!Reading(m, Len(made) + 1, m \notin failing /\ m \in tasks) \in D!Readings
<1>1. Len(made) + 1 \in 1..MaxReadings
  BY DEF D!ReaderAssumption, D!TypeOK
<1> DEFINE ok == m \notin failing /\ m \in tasks
<1>2. ok \in BOOLEAN
  OBVIOUS
<1> HIDE DEF ok
<1>3. D!Reading(m, Len(made) + 1, ok) \in D!Readings
  BY <1>1, <1>2 DEF D!Reading, D!Readings
<1> QED BY <1>3 DEF ok

(* What a thread has in hand is a reading.                                 *)
LEMMA GotIsReading ==
  ASSUME D!TypeOK, ReaderInv, NEW m \in Slow, thread[m].at = "got"
  PROVE  thread[m].reading \in D!Readings
<1>1. PICK k \in DOMAIN made : thread[m].reading = made[k]
  BY DEF ReaderInv, Accounts
<1>2. made \in Seq(D!Readings)
  BY DEF D!TypeOK
<1> QED BY <1>1, <1>2

(* What a thread does is well typed.                                       *)
LEMMA BackgroundTypes ==
  ASSUME D!ReaderAssumption, D!TypeOK, ReaderInv, NEW m \in Slow, D!Background(m)
  PROVE  D!TypeOK'
<1>1. /\ thread[m] \in ReadingThreads /\ Patience \in Nat
      /\ D!NoReading \in D!Readings \cup {D!NoReading}
  BY DEF D!TypeOK, ReadingThreads, D!ReaderAssumption
<1>2. ASSUME thread' \in [Slow -> ReadingThreads], list' \in Seq(D!Readings),
             made' \in Seq(D!Readings), listLock' = listLock, D!ThreadStep
      PROVE  D!TypeOK'
  BY <1>2 DEF D!TypeOK, ReadingThreads, D!ThreadStep, D!loop
<1>3. CASE D!BackgroundRead(m)
  <2>1. [thread[m] EXCEPT !.at = "read"] \in ReadingThreads
    BY <1>1 DEF ReadingThreads
  <2>2. thread' \in [Slow -> ReadingThreads]
    BY <1>3, <2>1, ThreadMoves DEF D!BackgroundRead
  <2> QED BY <1>2, <1>3, <2>2 DEF D!BackgroundRead, D!TypeOK
<1>4. CASE D!GotReading(m)
  <2> DEFINE r == D!Reading(m, Len(made) + 1, m \notin failing /\ m \in tasks)
  <2>1. r \in D!Readings
    BY <1>4, NextReading DEF D!GotReading
  <2>2. /\ thread' = [thread EXCEPT ![m] = [at |-> "got", reading |-> r, ticks |-> 0]]
        /\ made' = Append(made, r) /\ UNCHANGED <<listLock, list>> /\ D!ThreadStep
    BY <1>4 DEF D!GotReading
  <2> HIDE DEF r
  <2>3. [at |-> "got", reading |-> r, ticks |-> 0] \in ReadingThreads
    BY <1>1, <2>1 DEF ReadingThreads
  <2>4. thread' \in [Slow -> ReadingThreads]
    BY <2>2, <2>3, ThreadMoves
  <2>5. made' \in Seq(D!Readings) /\ list' \in Seq(D!Readings)
    BY <2>1, <2>2 DEF D!TypeOK
  <2> QED BY <1>2, <2>2, <2>4, <2>5
<1>5. CASE D!HandIn(m)
  <2> DEFINE moved == [thread[m] EXCEPT !.at = "rest", !.reading = D!NoReading]
  <2>1. moved \in ReadingThreads /\ thread' = [thread EXCEPT ![m] = moved]
    BY <1>1, <1>5 DEF ReadingThreads, D!HandIn
  <2>2. thread' \in [Slow -> ReadingThreads]
    <3> HIDE DEF moved
    <3> QED BY <2>1, ThreadMoves
  <2>3. thread[m].reading \in D!Readings
    BY <1>5, GotIsReading DEF D!HandIn
  <2>4. list' \in Seq(D!Readings) /\ made' \in Seq(D!Readings)
    BY <1>5, <2>3 DEF D!HandIn, D!TypeOK
  <2> QED BY <1>2, <1>5, <2>2, <2>4 DEF D!HandIn
<1>6. CASE D!ThreadEnds(m)
  <2>1. [thread[m] EXCEPT !.at = "end"] \in ReadingThreads
    BY <1>1 DEF ReadingThreads
  <2>2. thread' \in [Slow -> ReadingThreads]
    BY <1>6, <2>1, ThreadMoves DEF D!ThreadEnds
  <2> QED BY <1>2, <1>6, <2>2 DEF D!ThreadEnds, D!TypeOK
<1> QED BY <1>3, <1>4, <1>5, <1>6 DEF D!Background

(* Time passes: the reads that last, last longer.                          *)
LEMMA TickTypes ==
  ASSUME D!ReaderAssumption, D!TypeOK, D!Tick
  PROVE  D!TypeOK'
<1>1. Patience \in Nat
  BY DEF D!ReaderAssumption
<1>2. ASSUME NEW m \in Slow PROVE thread'[m] \in ReadingThreads
  <2>1. thread[m] \in ReadingThreads
    BY DEF D!TypeOK, ReadingThreads
  <2>2. thread'[m] = IF thread[m].at = "read" /\ thread[m].ticks < Patience
                       THEN [thread[m] EXCEPT !.ticks = @ + 1] ELSE thread[m]
    BY DEF D!Tick
  <2>3. thread[m].ticks < Patience => [thread[m] EXCEPT !.ticks = @ + 1] \in ReadingThreads
    BY <1>1, <2>1 DEF ReadingThreads
  <2> QED BY <2>1, <2>2, <2>3
<1>3. thread' \in [Slow -> ReadingThreads]
  BY <1>2 DEF D!Tick
<1>4. waited' \in 0..Patience
  BY <1>1 DEF D!Tick, D!TypeOK
<1> QED BY <1>3, <1>4 DEF D!TypeOK, ReadingThreads, D!Tick, D!loop

(* The tasks are opened, read by the loop, and closed.                     *)
LEMMA LoopTypes ==
  ASSUME D!ReaderAssumption, D!TypeOK,
         D!Open \/ D!Read \/ D!Close \/ (\E m \in D!Modules : D!Fail(m)) \/ UNCHANGED D!vars
  PROVE  D!TypeOK'
<1>1. Patience \in Nat /\ Slow \subseteq D!Modules /\ Fast \subseteq D!Modules
  BY DEF D!ReaderAssumption, D!Modules
<1>2. CASE UNCHANGED D!vars
  BY <1>2 DEF D!vars, D!loop, D!TypeOK
<1>3. CASE \E m \in D!Modules : D!Fail(m)
  BY <1>3 DEF D!Fail, D!loop, D!TypeOK
<1>4. CASE D!OpenFails \/ \E m \in D!Modules : D!OpenTask(m)
  BY <1>4 DEF D!OpenFails, D!OpenTask, D!TypeOK
<1>5. CASE D!StartBackground
  <2>1. ASSUME NEW m \in Slow PROVE thread'[m] \in ReadingThreads
    <3>1. thread[m] \in ReadingThreads /\ thread'[m] = [thread[m] EXCEPT !.at = "rest"]
      BY <1>5 DEF D!TypeOK, ReadingThreads, D!StartBackground
    <3> QED BY <3>1 DEF ReadingThreads
  <2>2. thread' \in [Slow -> ReadingThreads]
    BY <1>5, <2>1 DEF D!StartBackground
  <2> QED BY <1>5, <2>2 DEF D!StartBackground, D!TypeOK, ReadingThreads, D!loop
<1>6. CASE D!StopService \/ D!CloseTasks \/ \E m \in Slow : D!Join(m)
  <2>1. {0} \cup {waited} \subseteq 0..Patience
    BY <1>1 DEF D!TypeOK
  <2>2. CASE D!StopService
    BY <1>1, <2>1, <2>2 DEF D!StopService, D!TypeOK, D!ToJoin
  <2>3. CASE D!CloseTasks
    BY <2>3 DEF D!CloseTasks, D!TypeOK, D!loop
  <2>4. CASE \E m \in Slow : D!Join(m)
    BY <2>1, <2>4 DEF D!Join, D!TypeOK
  <2> QED BY <1>6, <2>2, <2>3, <2>4
<1>7. CASE D!Read
  <2>1. handed \o inHand \in Seq(D!Readings) /\ <<>> \in Seq(D!Readings)
    BY DEF D!TypeOK
  <2>2. CASE D!StartRead \/ D!TakeBackground \/ D!SwapBackground
    BY <1>1, <2>1, <2>2 DEF D!StartRead, D!TakeBackground, D!SwapBackground, D!LoopStep, D!TypeOK
  <2>3. CASE D!EndRead
    BY <2>1, <2>3 DEF D!EndRead, D!LoopStep, D!TypeOK
  <2>4. CASE \E m \in Fast : D!ReadFast(m)
    BY <1>1, <2>4 DEF D!ReadFast, D!LoopStep, D!TypeOK
  <2> QED BY <1>7, <2>2, <2>3, <2>4 DEF D!Read
<1> QED BY <1>2, <1>3, <1>4, <1>5, <1>6, <1>7 DEF D!Open, D!Close

(* Where nothing is read, handed on or begun, the accounts stand.          *)
LEMMA AccountsStand ==
  ASSUME Accounts(Passed, made, thread), Passed' = Passed, made' = made,
         \A m \in Slow : thread'[m].at = "got" <=> thread[m].at = "got",
         \A m \in Slow : thread[m].at = "got" => thread'[m].reading = thread[m].reading
  PROVE  Accounts(Passed', made', thread')
BY DEF Accounts

(* A reading is made: it is none of those there were.                      *)
LEMMA AccountsMade ==
  ASSUME D!TypeOK, Accounts(Passed, made, thread), NEW m \in Slow, NEW r \in D!Readings,
         thread[m].at = "read", r.module = m, r.number = Len(made) + 1, Passed \in Seq(D!Readings),
         thread'[m].at = "got", thread'[m].reading = r,
         \A n \in Slow : n # m => thread'[n] = thread[n], made' = Append(made, r)
  PROVE  Accounts(Passed, made', thread')
<1>1. /\ Len(made) \in Nat /\ DOMAIN made = 1..Len(made) /\ made \in Seq(D!Readings)
      /\ DOMAIN made' = 1..Len(made) + 1 /\ made'[Len(made) + 1] = r
      /\ \A k \in 1..Len(made) : made'[k] = made[k]
  BY DEF D!TypeOK
<1>2. \A k \in DOMAIN made : made[k] # r
  <2> SUFFICES ASSUME NEW k \in DOMAIN made, made[k] = r PROVE FALSE
    OBVIOUS
  <2>1. made[k].number = k /\ k \in 1..Len(made)
    BY <1>1 DEF Accounts
  <2> QED BY <1>1, <2>1
<1>3. \A i \in DOMAIN Passed : Passed[i] # r
  BY <1>2 DEF Accounts
<1>4. \A i \in DOMAIN made' : made'[i].number = i
  <2> TAKE i \in DOMAIN made'
  <2>1. CASE i = Len(made) + 1
    BY <1>1, <2>1
  <2>2. CASE i \in 1..Len(made)
    BY <1>1, <2>2 DEF Accounts
  <2> QED BY <1>1, <2>1, <2>2
<1>5. \A i \in DOMAIN Passed : \E k \in DOMAIN made' : Passed[i] = made'[k]
  <2> TAKE i \in DOMAIN Passed
  <2>1. PICK k \in DOMAIN made : Passed[i] = made[k]
    BY DEF Accounts
  <2>2. k \in DOMAIN made' /\ Passed[i] = made'[k]
    BY <1>1, <2>1
  <2> QED BY <2>2
<1>6. ASSUME NEW n \in Slow, thread'[n].at = "got"
      PROVE  /\ thread'[n].reading.module = n
             /\ \E k \in DOMAIN made' : thread'[n].reading = made'[k]
             /\ \A i \in DOMAIN Passed : Passed[i] # thread'[n].reading
  <2>1. CASE n = m
    <3>1. thread'[n].reading = r /\ Len(made) + 1 \in DOMAIN made'
      BY <1>1, <2>1
    <3> QED BY <1>1, <1>3, <2>1, <3>1
  <2>2. CASE n # m
    <3>1. thread[n].at = "got" /\ thread'[n].reading = thread[n].reading
      BY <1>6, <2>2
    <3>2. PICK k \in DOMAIN made : thread[n].reading = made[k]
      BY <3>1 DEF Accounts
    <3>3. k \in DOMAIN made' /\ made'[k] = made[k]
      BY <1>1, <3>2
    <3> QED BY <3>1, <3>2, <3>3 DEF Accounts
  <2> QED BY <2>1, <2>2
<1>7. ASSUME NEW k \in DOMAIN made'
      PROVE  \/ \E i \in DOMAIN Passed : Passed[i] = made'[k]
             \/ \E n \in Slow : thread'[n].at = "got" /\ thread'[n].reading = made'[k]
  <2>1. CASE k = Len(made) + 1
    BY <1>1, <2>1
  <2>2. CASE k \in 1..Len(made)
    <3>1. made'[k] = made[k] /\ k \in DOMAIN made
      BY <1>1, <2>2
    <3>2. CASE \E i \in DOMAIN Passed : Passed[i] = made[k]
      BY <3>1, <3>2
    <3>3. CASE \E n \in Slow : thread[n].at = "got" /\ thread[n].reading = made[k]
      <4>1. PICK n \in Slow : thread[n].at = "got" /\ thread[n].reading = made[k]
        BY <3>3
      <4>2. n # m
        BY <4>1
      <4> QED BY <3>1, <4>1, <4>2
    <3> QED BY <3>1, <3>2, <3>3 DEF Accounts
  <2> QED BY <1>1, <2>1, <2>2
<1>8. \A i \in DOMAIN Passed : \A j \in DOMAIN Passed : Passed[i] = Passed[j] => i = j
  BY DEF Accounts
<1> QED BY <1>4, <1>5, <1>6, <1>7, <1>8 DEF Accounts

(* A reading is put on the list.                                           *)
LEMMA AccountsPassed ==
  ASSUME Accounts(Passed, made, thread), NEW m \in Slow, thread[m].at = "got",
         thread[m].reading \in D!Readings, Passed \in Seq(D!Readings),
         thread'[m].at # "got", \A n \in Slow : n # m => thread'[n] = thread[n],
         NEW longer, longer = Append(Passed, thread[m].reading)
  PROVE  Accounts(longer, made, thread')
<1> DEFINE r == thread[m].reading
           p == Passed
<1>1. /\ Len(p) \in Nat /\ DOMAIN p = 1..Len(p)
      /\ DOMAIN longer = 1..Len(p) + 1 /\ longer[Len(p) + 1] = r
      /\ \A k \in 1..Len(p) : longer[k] = p[k]
  OBVIOUS
<1>2. /\ \A i \in DOMAIN p : p[i] # r
      /\ \E k \in DOMAIN made : r = made[k]
      /\ \A i \in DOMAIN p : \A j \in DOMAIN p : p[i] = p[j] => i = j
      /\ r.module = m
  BY DEF Accounts
<1>3. \A i \in DOMAIN made : made[i].number = i
  BY DEF Accounts
<1>4. ASSUME NEW i \in DOMAIN longer, NEW j \in DOMAIN longer, longer[i] = longer[j]
      PROVE  i = j
  <2> HIDE DEF p, r
  <2> QED BY <1>1, <1>2, <1>4
<1>5. \A i \in DOMAIN longer : \E k \in DOMAIN made : longer[i] = made[k]
  <2> TAKE i \in DOMAIN longer
  <2>1. CASE i = Len(p) + 1
    BY <1>1, <1>2, <2>1
  <2>2. CASE i \in DOMAIN p
    <3>1. longer[i] = p[i]
      BY <1>1, <2>2
    <3> QED BY <2>2, <3>1 DEF Accounts
  <2> QED BY <1>1, <2>1, <2>2
<1>6. ASSUME NEW n \in Slow, thread'[n].at = "got"
      PROVE  /\ thread'[n].reading.module = n
             /\ \E k \in DOMAIN made : thread'[n].reading = made[k]
             /\ \A i \in DOMAIN longer : longer[i] # thread'[n].reading
  <2>1. n # m /\ thread'[n] = thread[n]
    BY <1>6
  <2>2. /\ thread[n].reading.module = n
        /\ \E k \in DOMAIN made : thread[n].reading = made[k]
        /\ \A i \in DOMAIN p : p[i] # thread[n].reading
    BY <1>6, <2>1 DEF Accounts
  <2>3. r # thread[n].reading
    BY <1>2, <2>1, <2>2
  <2>4. ASSUME NEW i \in DOMAIN longer PROVE longer[i] # thread'[n].reading
    BY <1>1, <2>1, <2>2, <2>3
  <2> QED BY <2>1, <2>2, <2>4
<1>7. ASSUME NEW k \in DOMAIN made
      PROVE  \/ \E i \in DOMAIN longer : longer[i] = made[k]
             \/ \E n \in Slow : thread'[n].at = "got" /\ thread'[n].reading = made[k]
  <2>1. CASE \E i \in DOMAIN p : p[i] = made[k]
    <3>1. PICK i \in DOMAIN p : p[i] = made[k]
      BY <2>1
    <3>2. i \in DOMAIN longer /\ longer[i] = made[k]
      BY <1>1, <3>1
    <3> QED BY <3>2
  <2>2. CASE \E n \in Slow : thread[n].at = "got" /\ thread[n].reading = made[k]
    <3>1. PICK n \in Slow : thread[n].at = "got" /\ thread[n].reading = made[k]
      BY <2>2
    <3>2. CASE n = m
      <4>1. Len(p) + 1 \in DOMAIN longer /\ longer[Len(p) + 1] = made[k]
        BY <1>1, <3>1, <3>2
      <4> QED BY <4>1
    <3>3. CASE n # m
      BY <3>1, <3>3
    <3> QED BY <3>2, <3>3
  <2> QED BY <2>1, <2>2 DEF Accounts
<1> QED BY <1>3, <1>4, <1>5, <1>6, <1>7 DEF Accounts

(* What is on the list, joined in either way.                              *)
LEMMA PassedIsASequence ==
  ASSUME D!TypeOK
  PROVE  /\ Before \in Seq(D!Readings) /\ Passed \in Seq(D!Readings)
         /\ \A r \in D!Readings : Before \o Append(list, r) = Append(Passed, r)
<1>1. handed \in Seq(D!Readings) /\ inHand \in Seq(D!Readings) /\ list \in Seq(D!Readings)
  BY DEF D!TypeOK
<1>2. handed \o inHand \in Seq(D!Readings)
  BY <1>1, ConcatProperties
<1>3. Before \in Seq(D!Readings)
  BY <1>1, <1>2 DEF Before
<1> HIDE DEF Before
<1>4. Passed \in Seq(D!Readings)
  BY <1>1, <1>3, ConcatProperties DEF Passed
<1>5. ASSUME NEW r \in D!Readings PROVE Before \o Append(list, r) = Append(Passed, r)
  <2>1. /\ Append(list, r) = list \o <<r>> /\ <<r>> \in Seq(D!Readings)
        /\ Append(Passed, r) = Passed \o <<r>>
    BY <1>1, <1>4, AppendIsConcat
  <2>2. Before \o (list \o <<r>>) = (Before \o list) \o <<r>>
    BY <1>1, <1>3, <2>1, ConcatAssociative
  <2> QED BY <2>1, <2>2 DEF Passed
<1> QED BY <1>3, <1>4, <1>5

(* A step of a thread.                                                     *)
LEMMA BackgroundStep ==
  ASSUME D!ReaderAssumption, ReaderIInv, NEW m \in Slow, D!Background(m)
  PROVE  ReaderInv'
<1>1. D!TypeOK /\ Accounts(Passed, made, thread)
  BY DEF ReaderIInv, ReaderInv
<1>2. /\ UNCHANGED <<service, reader, inHand, handed, listLock>> /\ Before' = Before
      /\ service # "opening"
  <2>1. UNCHANGED <<service, reader, inHand, handed, listLock>>
    BY DEF D!Background, D!BackgroundRead, D!GotReading, D!HandIn, D!ThreadEnds, D!ThreadStep,
       D!loop
  <2>2. thread[m].at # "none"
    BY DEF D!Background, D!BackgroundRead, D!GotReading, D!HandIn, D!ThreadEnds
  <2> QED BY <2>1, <2>2 DEF Before, ReaderIInv, ReaderInv
<1>3. ASSUME Accounts(Passed', made', thread'), list' = list \/ reader # "swap"
      PROVE  ReaderInv'
  BY <1>2, <1>3 DEF ReaderIInv, ReaderInv
<1>4. CASE D!BackgroundRead(m) \/ D!ThreadEnds(m)
  <2>1. made' = made /\ list' = list
    BY <1>4 DEF D!BackgroundRead, D!ThreadEnds
  <2>2. ASSUME NEW n \in Slow
        PROVE  /\ thread'[n].at = "got" <=> thread[n].at = "got"
               /\ thread'[n].reading = thread[n].reading
    <3>1. PICK where \in {"read", "end"} :
            thread[m].at = "rest" /\ thread' = [thread EXCEPT ![m].at = where]
      BY <1>4 DEF D!BackgroundRead, D!ThreadEnds
    <3>2. thread'[n] = IF n = m THEN [thread[m] EXCEPT !.at = where] ELSE thread[n]
      BY <1>1, <3>1 DEF D!TypeOK
    <3>3. thread[m] \in ReadingThreads
      BY <1>1 DEF D!TypeOK, ReadingThreads
    <3> QED BY <3>1, <3>2, <3>3 DEF ReadingThreads
  <2>3. Passed' = Passed
    BY <1>2, <2>1 DEF Passed
  <2> QED BY <1>1, <1>3, <2>1, <2>2, <2>3, AccountsStand
<1>5. CASE D!GotReading(m)
  <2> DEFINE r == D!Reading(m, Len(made) + 1, m \notin failing /\ m \in tasks)
  <2>1. /\ thread[m].at = "read" /\ made' = Append(made, r) /\ list' = list
        /\ thread' = [thread EXCEPT ![m] = [at |-> "got", reading |-> r, ticks |-> 0]]
    BY <1>5 DEF D!GotReading
  <2>2. r \in D!Readings /\ r.module = m /\ r.number = Len(made) + 1
    BY <1>1, <1>5, NextReading DEF D!GotReading, D!Reading
  <2> HIDE DEF r
  <2>3. /\ thread'[m].at = "got" /\ thread'[m].reading = r
        /\ \A n \in Slow : n # m => thread'[n] = thread[n]
    BY <1>1, <2>1 DEF D!TypeOK
  <2>4. Passed' = Passed /\ Passed \in Seq(D!Readings)
    BY <1>1, <1>2, <2>1, PassedIsASequence DEF Passed
  <2> QED BY <1>1, <1>3, <2>1, <2>2, <2>3, <2>4, AccountsMade
<1>6. CASE D!HandIn(m)
  <2>1. /\ thread[m].at = "got" /\ made' = made /\ listLock = "free"
        /\ list' = Append(list, thread[m].reading)
        /\ thread' = [thread EXCEPT ![m].at = "rest", ![m].reading = D!NoReading]
    BY <1>6 DEF D!HandIn, D!LockFree
  <2>2. thread[m].reading \in D!Readings
    BY <1>1, <2>1, GotIsReading DEF ReaderIInv
  <2>3. thread'[m].at # "got" /\ \A n \in Slow : n # m => thread'[n] = thread[n]
    BY <1>1, <2>1 DEF D!TypeOK
  <2>4. Passed' = Append(Passed, thread[m].reading) /\ Passed \in Seq(D!Readings)
    BY <1>1, <1>2, <2>1, <2>2, PassedIsASequence DEF Passed
  <2>5. Accounts(Passed', made, thread')
    BY <1>1, <2>1, <2>2, <2>3, <2>4, AccountsPassed
  <2>6. reader # "swap"
    BY <2>1 DEF ReaderIInv, ReaderInv
  <2> QED BY <1>3, <2>1, <2>5, <2>6
<1> QED BY <1>4, <1>5, <1>6 DEF D!Background

(* A step of the loop: it passes the list on, and loses nothing of it.     *)
LEMMA ReadStep ==
  ASSUME ReaderIInv, D!Read
  PROVE  ReaderInv'
<1>1. /\ D!TypeOK /\ Accounts(Passed, made, thread) /\ UNCHANGED <<service, thread, made>>
      /\ handed \in Seq(D!Readings) /\ inHand \in Seq(D!Readings) /\ list \in Seq(D!Readings)
  BY DEF ReaderIInv, ReaderInv, D!TypeOK, D!Read, D!StartRead, D!ReadFast, D!TakeBackground,
         D!SwapBackground, D!EndRead, D!LoopStep
<1>2. ASSUME Passed' = Passed,
             reader' = "swap" => listLock' = "loop" /\ inHand' = list',
             reader' \in {"rest", "read"} => inHand' = <<>>
      PROVE  ReaderInv'
  <2>1. Accounts(Passed', made', thread')
    BY <1>1, <1>2, AccountsStand
  <2> QED BY <1>1, <1>2, <2>1 DEF ReaderIInv, ReaderInv
<1>3. CASE D!StartRead \/ \E m \in Fast : D!ReadFast(m)
  <2>1. /\ reader \in {"rest", "read"} /\ reader' \in {"rest", "read"}
        /\ UNCHANGED <<inHand, list, handed>>
    BY <1>3 DEF D!StartRead, D!ReadFast
  <2>2. Passed' = Passed /\ inHand = <<>>
    BY <2>1 DEF Passed, Before, ReaderIInv, ReaderInv
  <2> QED BY <1>2, <2>1, <2>2
<1>4. CASE D!TakeBackground
  <2>1. /\ reader = "read" /\ reader' = "swap" /\ listLock' = "loop" /\ inHand' = list
        /\ UNCHANGED <<list, handed>>
    BY <1>4 DEF D!TakeBackground
  <2>2. inHand = <<>>
    BY <2>1 DEF ReaderIInv, ReaderInv
  <2>3. Before = handed /\ Before' = handed
    BY <1>1, <2>1, <2>2, ConcatEmptySeq DEF Before
  <2> QED BY <1>2, <2>1, <2>3 DEF Passed
<1>5. CASE D!SwapBackground
  <2>1. /\ reader = "swap" /\ reader' = "hand" /\ list' = <<>>
        /\ UNCHANGED <<inHand, handed>>
    BY <1>5 DEF D!SwapBackground
  <2>2. inHand = list
    BY <2>1 DEF ReaderIInv, ReaderInv
  <2>3. Before = handed /\ Before' = handed \o list
    BY <2>1, <2>2 DEF Before
  <2>4. handed \o list \in Seq(D!Readings)
    BY <1>1, ConcatProperties
  <2>5. (handed \o list) \o <<>> = handed \o list
    BY <2>4, ConcatEmptySeq
  <2>6. Passed' = Passed
    BY <2>1, <2>3, <2>5 DEF Passed
  <2> QED BY <1>2, <2>1, <2>6
<1>6. CASE D!EndRead
  <2>1. /\ reader = "hand" /\ reader' = "rest" /\ handed' = handed \o inHand /\ inHand' = <<>>
        /\ list' = list
    BY <1>6 DEF D!EndRead
  <2>2. handed \o inHand \in Seq(D!Readings)
    BY <1>1, ConcatProperties
  <2>3. (handed \o inHand) \o <<>> = handed \o inHand
    BY <2>2, ConcatEmptySeq
  <2>4. Before' = Before
    BY <2>1, <2>3 DEF Before
  <2> QED BY <1>2, <2>1, <2>4 DEF Passed
<1> QED BY <1>3, <1>4, <1>5, <1>6 DEF D!Read

(* Nothing else touches a reading.                                         *)
LEMMA OtherReaderStep ==
  ASSUME ReaderIInv,
         D!Open \/ D!Close \/ D!Tick \/ (\E m \in D!Modules : D!Fail(m)) \/ UNCHANGED D!vars
  PROVE  ReaderInv'
<1>1. D!TypeOK /\ Accounts(Passed, made, thread)
  BY DEF ReaderIInv, ReaderInv
<1>2. UNCHANGED <<listLock, list, reader, inHand, made, handed>>
  BY DEF D!Open, D!OpenTask, D!OpenFails, D!StartBackground, D!Close, D!StopService, D!Join,
     D!CloseTasks, D!Tick, D!Fail, D!vars, D!loop
<1>3. Passed' = Passed
  BY <1>2 DEF Passed, Before
<1>4. /\ \A m \in Slow : thread'[m].at = "got" <=> thread[m].at = "got"
      /\ \A m \in Slow : thread[m].at = "got" => thread'[m].reading = thread[m].reading
      /\ service' = "opening" => service = "opening" /\ thread' = thread
  <2>1. CASE D!StartBackground
    <3>1. \A m \in Slow : thread[m].at = "none"
      BY <2>1 DEF D!StartBackground, ReaderIInv, ReaderInv
    <3>2. service' # "opening" /\ \A m \in Slow : thread'[m].at = "rest"
      BY <1>1, <2>1 DEF D!StartBackground, D!TypeOK
    <3> QED BY <3>1, <3>2
  <2>2. CASE D!Tick
    <3>1. \A m \in Slow : thread'[m].at = thread[m].at /\ thread'[m].reading = thread[m].reading
      BY <1>1, <2>2 DEF D!Tick, D!TypeOK
    <3>2. service' # "opening"
      BY <2>2 DEF D!Tick
    <3> QED BY <3>1, <3>2
  <2>3. CASE UNCHANGED thread
    <3>1. service' = "opening" => service = "opening"
      BY DEF D!Open, D!OpenTask, D!OpenFails, D!StartBackground, D!Close, D!StopService, D!Join,
         D!CloseTasks, D!Tick, D!Fail, D!vars
    <3> QED BY <2>3, <3>1
  <2>4. UNCHANGED thread \/ D!StartBackground \/ D!Tick
    BY DEF D!Open, D!OpenTask, D!OpenFails, D!Close, D!StopService, D!Join, D!CloseTasks,
       D!Fail, D!vars
  <2> QED BY <2>1, <2>2, <2>3, <2>4
<1>5. Accounts(Passed', made', thread')
  BY <1>1, <1>2, <1>3, <1>4, AccountsStand
<1> QED BY <1>2, <1>4, <1>5 DEF ReaderIInv, ReaderInv

(* A step while the service stops.                                         *)
LEMMA StoppingStep ==
  ASSUME D!ReaderAssumption, ReaderIInv, [D!Next]_(D!vars), D!TypeOK'
  PROVE  StoppingInv'
<1>1. Patience \in Nat /\ waited \in 0..Patience /\ D!TypeOK /\ StoppingInv
  BY DEF D!ReaderAssumption, ReaderIInv, D!TypeOK
<1>2. \A m \in Slow : thread[m].ticks \in 0..Patience
  BY <1>1 DEF D!TypeOK
<1>3. CASE D!StopService
  <2>1. /\ torn' = torn /\ stop' /\ waited' = 0 /\ UNCHANGED <<thread, reader>> /\ reader = "rest"
        /\ \A m \in Slow : thread[m].at = "read" => m \in toDo'
    BY <1>3 DEF D!StopService, D!ToJoin
  <2> QED BY <1>1, <1>2, <2>1 DEF StoppingInv
<1>4. CASE \E m \in Slow : D!Join(m)
  <2>1. PICK m \in Slow : D!Join(m)
    BY <1>4
  <2>2. /\ UNCHANGED <<torn, stop, thread, service, reader>> /\ waited' = 0 /\ toDo' = toDo \ {m}
        /\ thread[m].at = "end" \/ waited = Patience
        /\ service = "stopping" /\ m \in toDo
    BY <2>1 DEF D!Join
  <2>3. ASSUME NEW n \in Slow, thread[n].at = "read", service = "stopping"
        PROVE  thread[n].ticks >= IF n \in toDo' THEN 0 ELSE Patience
    <3>1. CASE n = m
      BY <1>1, <1>2, <2>2, <2>3, <3>1 DEF StoppingInv
    <3>2. CASE n # m
      BY <1>1, <1>2, <2>2, <2>3, <3>2 DEF StoppingInv
    <3> QED BY <3>1, <3>2
  <2> QED BY <1>1, <2>2, <2>3 DEF StoppingInv
<1>5. CASE D!CloseTasks
  <2>1. \A m \in Slow : thread[m].at = "read" => ~(thread[m].ticks < Patience)
    BY <1>1, <1>2, <1>5 DEF D!CloseTasks, StoppingInv
  <2> QED BY <1>1, <1>5, <2>1 DEF D!CloseTasks, StoppingInv, D!loop
<1>6. CASE D!Tick
  <2>1. /\ UNCHANGED <<torn, stop, service, toDo, reader>>
        /\ service = "stopping" => waited < Patience /\ waited' = waited + 1
        /\ \A m \in Slow : thread'[m] = IF thread[m].at = "read" /\ thread[m].ticks < Patience
                                           THEN [thread[m] EXCEPT !.ticks = @ + 1] ELSE thread[m]
    BY <1>6 DEF D!Tick, D!loop
  <2>2. ASSUME NEW m \in Slow, thread'[m].at = "read", service = "stopping"
        PROVE  thread'[m].ticks >= IF m \in toDo THEN waited + 1 ELSE Patience
    <3>1. /\ thread[m].at = "read"
          /\ thread'[m].ticks = IF thread[m].ticks < Patience THEN thread[m].ticks + 1
                                                               ELSE thread[m].ticks
      BY <1>1, <2>1, <2>2 DEF D!TypeOK
    <3>2. thread[m].ticks >= IF m \in toDo THEN waited ELSE Patience
      BY <1>1, <2>2, <3>1 DEF StoppingInv
    <3> QED BY <1>1, <1>2, <2>1, <2>2, <3>1, <3>2
  <2> QED BY <1>1, <2>1, <2>2 DEF StoppingInv
<1>7. CASE \E m \in Slow : D!Background(m)
  <2>1. PICK m \in Slow : D!Background(m)
    BY <1>7
  <2>2. UNCHANGED <<torn, stop, service, toDo, waited, reader>>
    BY <2>1 DEF D!Background, D!BackgroundRead, D!GotReading, D!HandIn, D!ThreadEnds,
       D!ThreadStep, D!loop
  <2>3. ASSUME stop, NEW n \in Slow, thread'[n].at = "read"
        PROVE  thread[n].at = "read" /\ thread'[n].ticks = thread[n].ticks
    <3>1. thread \in [Slow -> ReadingThreads]
      BY <1>1 DEF D!TypeOK, ReadingThreads
    <3>2. ~D!BackgroundRead(m)
      BY <2>3 DEF D!BackgroundRead
    <3>3. CASE D!GotReading(m)
      BY <2>3, <3>1, <3>3 DEF D!GotReading
    <3>4. CASE D!HandIn(m)
      BY <2>3, <3>1, <3>4 DEF D!HandIn, ReadingThreads
    <3>5. CASE D!ThreadEnds(m)
      BY <2>3, <3>1, <3>5 DEF D!ThreadEnds, ReadingThreads
    <3> QED BY <2>1, <3>2, <3>3, <3>4, <3>5 DEF D!Background
  <2> QED BY <1>1, <2>2, <2>3 DEF StoppingInv
<1>8. CASE D!Open
  BY <1>1, <1>8 DEF D!Open, D!OpenTask, D!OpenFails, D!StartBackground, StoppingInv
<1>9. CASE D!Read
  <2>1. UNCHANGED <<torn, stop, service, thread, waited>>
    BY <1>9 DEF D!Read, D!StartRead, D!ReadFast, D!TakeBackground, D!SwapBackground, D!EndRead,
       D!LoopStep
  <2>2. service = "running"
    BY <1>1, <1>9 DEF D!Read, D!StartRead, D!ReadFast, D!TakeBackground, D!SwapBackground,
       D!EndRead, StoppingInv
  <2> QED BY <1>1, <2>1, <2>2 DEF StoppingInv
<1>10. CASE (\E m \in D!Modules : D!Fail(m)) \/ UNCHANGED D!vars
  BY <1>1, <1>10 DEF D!Fail, D!vars, D!loop, StoppingInv
<1> QED BY <1>3, <1>4, <1>5, <1>6, <1>7, <1>8, <1>9, <1>10 DEF D!Next, D!Close

(* Nothing is read yet.                                                    *)
LEMMA ReaderInitially == D!ReaderAssumption /\ D!Init => ReaderIInv
<1> SUFFICES ASSUME D!ReaderAssumption, D!Init PROVE ReaderIInv
  OBVIOUS
<1>1. D!TypeOK
  <2>1. Patience \in Nat /\ <<>> \in Seq(D!Readings)
    BY DEF D!ReaderAssumption
  <2>2. [at |-> "none", reading |-> D!NoReading, ticks |-> 0] \in ReadingThreads
    BY <2>1 DEF ReadingThreads
  <2>3. thread \in [Slow -> ReadingThreads]
    BY <2>2 DEF D!Init
  <2>4. waited \in 0..Patience
    BY <2>1 DEF D!Init
  <2>5. /\ list \in Seq(D!Readings) /\ inHand \in Seq(D!Readings)
        /\ made \in Seq(D!Readings) /\ handed \in Seq(D!Readings)
    BY <2>1 DEF D!Init
  <2>6. /\ service \in {"opening"} /\ tasks \subseteq D!Modules /\ toDo \subseteq D!Modules
        /\ stop \in BOOLEAN /\ listLock \in {"free"} /\ reader \in {"rest"}
        /\ failing \subseteq D!Modules /\ torn \subseteq Slow
    BY DEF D!Init
  <2> QED BY <2>3, <2>4, <2>5, <2>6 DEF D!TypeOK, ReadingThreads
<1>2. Passed = <<>> /\ made = <<>> /\ \A m \in Slow : thread[m].at = "none"
  BY DEF D!Init, Passed, Before
<1>3. Accounts(Passed, made, thread)
  BY <1>2 DEF Accounts
<1>4. ReaderInv
  BY <1>2, <1>3 DEF D!Init, ReaderInv
<1>5. StoppingInv
  BY DEF D!Init, StoppingInv
<1> QED BY <1>1, <1>4, <1>5 DEF ReaderIInv

(* Every step keeps the invariant of the cDAQ.                             *)
LEMMA ReaderStep ==
  ASSUME D!ReaderAssumption, ReaderIInv, [D!Next]_(D!vars)
  PROVE  ReaderIInv'
<1>1. D!TypeOK'
  BY BackgroundTypes, TickTypes, LoopTypes DEF D!Next, ReaderIInv
<1>2. ReaderInv'
  BY BackgroundStep, ReadStep, OtherReaderStep DEF D!Next
<1> QED BY <1>1, <1>2, StoppingStep DEF ReaderIInv

(* It holds in every behaviour.                                            *)
LEMMA ReaderInvariant ==
  ASSUME D!ReaderAssumption
  PROVE  D!Spec => []ReaderIInv
<1>1. D!Init => ReaderIInv
  BY ReaderInitially
<1>2. ReaderIInv /\ [D!Next]_(D!vars) => ReaderIInv'
  BY ReaderStep
<1> QED BY <1>1, <1>2, PTL DEF D!Spec

(* A sequence that holds nothing twice is as long as what it holds.        *)
LEMMA AsLongAsItHolds ==
  ASSUME NEW S, NEW s \in Seq(S),
         \A i \in DOMAIN s : \A j \in DOMAIN s : s[i] = s[j] => i = j
  PROVE  Cardinality({s[i] : i \in DOMAIN s}) = Len(s)
<1> DEFINE n == Len(s)
           held == {s[i] : i \in DOMAIN s}
<1>1. n \in Nat /\ DOMAIN s = 1..n
  OBVIOUS
<1> HIDE DEF n
<1>2. IsFiniteSet(1..n) /\ Cardinality(1..n) = n
  BY <1>1, FS_Interval
<1>3. s \in Bijection(1..n, held)
  BY <1>1 DEF Bijection, Injection, Surjection, IsInjective
<1>4. Cardinality(held) = Cardinality(1..n)
  BY <1>2, <1>3, FS_Bijection DEF ExistsBijection
<1> QED BY <1>2, <1>4 DEF n

(* The module counts with an instance of FiniteSets of its own.            *)
LEMMA SameCount == \A S : D!Cardinality(S) = Cardinality(S)
BY DEF D!Cardinality, Cardinality

(* Every reading made is accounted for, and none stands there twice.       *)
LEMMA AccountsMeanOnce == ReaderIInv => D!HandedOnce
<1> SUFFICES ASSUME ReaderIInv PROVE D!HandedOnce
  OBVIOUS
<1>1. Passed \in Seq(D!Readings) /\ Accounts(Passed, made, thread) /\ made \in Seq(D!Readings)
  BY PassedIsASequence DEF ReaderIInv, ReaderInv, D!TypeOK
<1>2. Cardinality(D!Elements(Passed)) = Len(Passed)
  BY <1>1, AsLongAsItHolds DEF Accounts, D!Elements
<1> DEFINE waiting == UNION {D!Waiting(m) : m \in Slow}
<1>3. ASSUME NEW r \in D!Elements(made) PROVE r \in D!Elements(Passed) \cup waiting
  <2>1. PICK k \in DOMAIN made : r = made[k]
    BY <1>3 DEF D!Elements
  <2>2. CASE \E i \in DOMAIN Passed : Passed[i] = made[k]
    BY <2>1, <2>2 DEF D!Elements
  <2>3. CASE \E m \in Slow : thread[m].at = "got" /\ thread[m].reading = made[k]
    BY <2>1, <2>3 DEF D!Waiting
  <2> QED BY <1>1, <2>2, <2>3 DEF Accounts
<1>4. ASSUME NEW r \in D!Elements(Passed) PROVE r \in D!Elements(made)
  BY <1>1 DEF Accounts, D!Elements
<1>5. ASSUME NEW r \in waiting PROVE r \in D!Elements(made)
  <2>1. PICK m \in Slow : r \in D!Waiting(m)
    BY <1>5
  <2>2. thread[m].at = "got" /\ r = thread[m].reading
    BY <2>1 DEF D!Waiting
  <2> QED BY <1>1, <2>2 DEF Accounts, D!Elements
<1>6. D!Elements(made) = D!Elements(Passed) \cup waiting
  BY <1>3, <1>4, <1>5
<1> QED BY <1>2, <1>6, SameCount DEF D!HandedOnce, Passed, Before

(* TypeOK of CdaqReader, whatever the modules and their patience.          *)
THEOREM ReaderTypesHold == D!Spec => []D!TypeOK
<1>1. D!ReaderAssumption
  BY InstrumentsAssumption
<1>2. ReaderIInv => D!TypeOK
  BY DEF ReaderIInv
<1> QED BY <1>1, <1>2, ReaderInvariant, PTL

(* HandedOnce: every reading of a background thread is handed to one       *)
(* read() and to none twice, whoever holds the list when                   *)
(* (_background_loop, _take_background).                                   *)
THEOREM ReadingsGoOnce == D!Spec => []HandedOnce
<1>1. D!ReaderAssumption
  BY InstrumentsAssumption
<1>2. ReaderIInv => HandedOnce
  BY AccountsMeanOnce DEF HandedOnce
<1> QED BY <1>1, <1>2, ReaderInvariant, PTL

(* ClosedUnderNobody: no task is closed in the middle of a read shorter    *)
(* than the time the service waits for it (_stop_background,               *)
(* _close_tasks).                                                          *)
THEOREM NobodyIsTorn == D!Spec => []ClosedUnderNobody
<1>1. D!ReaderAssumption
  BY InstrumentsAssumption
<1>2. ReaderIInv => ClosedUnderNobody
  BY DEF ReaderIInv, StoppingInv, ClosedUnderNobody, D!ClosedUnderNobody
<1> QED BY <1>1, <1>2, ReaderInvariant, PTL

-------------------------------------------------------------------------------
(* The acquisitions of the gas analyser.                                   *)

ScanStates == {"none", "scanning", "done", "stopped", "failed"}
Scans == UNION {[1..n -> R!Acquisitions] : n \in 0..Count}
AcqNumbers == R!Acquisitions \cup {R!None}
Memories == [state : ScanStates, scans : Scans, saved : BOOLEAN]
Collecting == [at : {"rest", "ask", "publish", "finish", "persist"},
               of : AcqNumbers, end : ScanStates]
Working == [at : {"idle", "stop", "finish", "persist", "start", "begin", "copy", "write", "mark",
                  "unlink", "announce"}, of : AcqNumbers, scans : Scans]
OnDisk == [of : AcqNumbers, state : ScanStates, scans : Scans, saved : BOOLEAN]
SavedFiles == [is : {"none", "whole", "partial"}, scans : Scans]
Analysers == [left : 0..Count, of : R!Acquisitions, unread : Seq(R!Acquisitions)]

ScanTypes ==
  /\ up \in BOOLEAN /\ acq \in AcqNumbers /\ young \in BOOLEAN
  /\ memory \in [R!Acquisitions -> Memories] /\ main \in Collecting /\ worker \in Working
  /\ pending \in OnDisk /\ unkept \in BOOLEAN /\ files \in [R!Acquisitions -> SavedFiles]
  /\ analyser \in Analysers
  /\ announced \in [R!Acquisitions -> Seq(Scans)] /\ begun \in 0..Acquired

(* Whose turn it is: the command thread works on the acquisition in        *)
(* memory, or on the one it is about to begin; the loop on the same, or on *)
(* one that was replaced meanwhile and no longer scans.                    *)
TurnInv ==
  /\ ~up => acq = R!None /\ main = R!Resting /\ worker = R!Idle
  /\ acq <= begun /\ pending.of <= begun /\ main.of <= begun
  /\ \A a \in R!Acquisitions : memory[a].state = "scanning" => a = acq
  /\ \A a \in R!Acquisitions : a > begun => announced[a] = <<>> /\ files[a] = R!NoFile
  /\ main.at # "rest" => main.of # R!None
  /\ worker.at # "idle" => worker.of # R!None
  /\ worker.at \in {"start", "begin"} => worker.of = begun + 1 /\ ~R!Scanning
  /\ worker.at \notin {"idle", "start", "begin"} => worker.of = acq

(* An acquisition scans until it has its scans.                            *)
LengthInv ==
  /\ \A a \in R!Acquisitions : memory[a].state = "scanning" /\ Len(memory[a].scans) >= Count =>
       main.at \in {"publish", "finish"} /\ main.of = a /\ main.end = "done"
  /\ main.at = "ask" => Len(memory[main.of].scans) < Count
  /\ main.at \in {"finish", "persist"} => main.end \in {"done", "stopped", "failed"}
  /\ main.at = "publish" => main.end = "done" \/ Len(memory[main.of].scans) < Count

(* A file written by a save stands until it is announced.                  *)
SavedInv ==
  /\ R!AnnouncedAsSaved
  /\ worker.at \in {"mark", "unlink", "announce"} =>
       files[worker.of] = R!Whole(worker.scans) /\ announced[worker.of] = <<>>

Begins(front, whole) ==
  Len(front) <= Len(whole) /\ \A i \in 1..Len(front) : front[i] = whole[i]

(* What pending.json holds of the acquisition in memory is what it began   *)
(* with, and all of it when nobody is to write it.                         *)
PendingInv ==
  /\ acq # R!None /\ pending.of = acq => Begins(pending.scans, memory[acq].scans)
  /\ acq # R!None /\ main.at # "rest" /\ main.of # acq => memory[acq].scans = <<>>
  /\ acq # R!None /\ main.of = acq /\ main.at \in {"ask", "publish", "finish"} =>
       memory[acq].state \in {"scanning", "stopped"}
  /\ worker.at \in {"unlink", "announce"} => memory[worker.of].saved
  /\ acq # R!None /\ memory[acq].scans # <<>> /\ ~memory[acq].saved /\ ~unkept
     /\ main.at \notin {"publish", "persist"} /\ worker.at # "persist"
     /\ memory[acq].state # "stopped" => pending.of = acq /\ pending.scans = memory[acq].scans
  /\ pending.of = R!None => pending.scans = <<>>

ScanIInv == ScanTypes /\ TurnInv /\ LengthInv /\ SavedInv /\ PendingInv

(* The scans of an acquisition: at most Count, each an acquisition's.      *)
LEMMA ScansAre ==
  ASSUME R!ScanAssumption
  PROVE  \A s : s \in Scans <=> s \in Seq(R!Acquisitions) /\ Len(s) \in 0..Count
<1>1. Count \in Nat
  BY DEF R!ScanAssumption
<1>2. ASSUME NEW s, s \in Scans PROVE s \in Seq(R!Acquisitions) /\ Len(s) \in 0..Count
  <2>1. PICK n \in 0..Count : s \in [1..n -> R!Acquisitions]
    BY <1>2 DEF Scans
  <2>2. n \in Nat
    BY <1>1, <2>1
  <2> QED BY <2>1, <2>2
<1>3. ASSUME NEW s, s \in Seq(R!Acquisitions), Len(s) \in 0..Count PROVE s \in Scans
  <2>1. s \in [1..Len(s) -> R!Acquisitions]
    BY <1>3
  <2> QED BY <1>3, <2>1 DEF Scans
<1> QED BY <1>2, <1>3

(* A scan more, as long as there is room for one.                          *)
LEMMA OneMoreScan ==
  ASSUME R!ScanAssumption, NEW s \in Scans, Len(s) < Count, NEW a \in R!Acquisitions
  PROVE  /\ Append(s, a) \in Scans /\ Len(Append(s, a)) = Len(s) + 1
         /\ \A i \in 1..Len(s) : Append(s, a)[i] = s[i]
<1>1. Count \in Nat /\ s \in Seq(R!Acquisitions) /\ Len(s) \in 0..Count
  BY ScansAre DEF R!ScanAssumption
<1>2. /\ Append(s, a) \in Seq(R!Acquisitions) /\ Len(Append(s, a)) = Len(s) + 1
      /\ \A i \in 1..Len(s) : Append(s, a)[i] = s[i]
  BY <1>1, AppendProperties
<1> DEFINE longer == Append(s, a)
<1> HIDE DEF longer
<1>3. longer \in Seq(R!Acquisitions) /\ Len(longer) = Len(s) + 1
  BY <1>2 DEF longer
<1>4. longer \in Scans
  <2>1. Len(longer) \in 0..Count
    BY <1>1, <1>3
  <2> QED BY <1>3, <2>1, ScansAre
<1> QED BY <1>2, <1>4 DEF longer

(* Acquisitions are numbered from one; none is numbered zero.              *)
LEMMA NumbersAre ==
  ASSUME R!ScanAssumption
  PROVE  /\ Acquired \in Nat /\ Acquired >= 1 /\ Count \in Nat /\ Count >= 1
         /\ R!None \notin R!Acquisitions /\ R!None \in Nat /\ R!Acquisitions \subseteq Nat
         /\ \A a \in Nat : a \in R!Acquisitions <=> a # R!None /\ a <= Acquired
         /\ <<>> \in Scans /\ Len(<<>>) = 0
<1>1. Acquired \in Nat \ {0} /\ Count \in Nat \ {0}
  BY DEF R!ScanAssumption
<1>2. <<>> \in Scans /\ Len(<<>>) = 0
  <2>1. <<>> \in Seq(R!Acquisitions) /\ Len(<<>>) = 0
    OBVIOUS
  <2>2. Len(<<>>) \in 0..Count
    BY <1>1, <2>1
  <2> QED BY <2>1, <2>2, ScansAre
<1> QED BY <1>1, <1>2 DEF R!Acquisitions, R!None

(* The loop, as long as it records, finishes and keeps nothing.            *)
LEMMA CollectMoves ==
  ASSUME R!ScanAssumption, ScanIInv,
         UNCHANGED <<up, acq, memory, worker, pending, unkept, files, announced, begun>>,
         young' \in BOOLEAN, main' \in Collecting, analyser' \in Analysers,
         \/ main' = main
         \/ up /\ main.at = "ask" /\ main' = R!Resting
         \/ /\ up /\ main.at = "rest" /\ R!Scanning
            /\ main'.at = "ask" /\ main'.of = acq
         \/ /\ up /\ main.at = "ask" /\ main'.at = "finish" /\ main'.of = main.of
            /\ main'.end \in {"stopped", "failed"}
  PROVE  ScanIInv'
<1>1. ScanTypes'
  BY DEF ScanIInv, ScanTypes
<1>2. TurnInv'
  <2>1. acq \in Nat /\ begun \in Nat /\ R!None \in Nat /\ R!None <= begun
    BY NumbersAre DEF ScanIInv, ScanTypes, AcqNumbers, R!None
  <2>2. /\ ~up' => main' = R!Resting
        /\ main'.of <= begun /\ (main'.at # "rest" => main'.of # R!None)
    BY <2>1 DEF ScanIInv, TurnInv, R!Resting, R!Scanning, R!InState
  <2> QED BY <2>2 DEF ScanIInv, TurnInv, R!Scanning, R!InState
<1>3. LengthInv'
  <2>1. CASE main' = main
    BY <2>1 DEF ScanIInv, LengthInv
  <2>2. CASE main.at = "ask"
    BY <2>2 DEF ScanIInv, LengthInv, R!Resting
  <2>3. CASE main.at = "rest" /\ R!Scanning /\ main'.at = "ask" /\ main'.of = acq
    <3>1. acq \in R!Acquisitions /\ memory[acq].state = "scanning"
      BY <2>3 DEF R!Scanning, R!InState, ScanIInv, ScanTypes, AcqNumbers
    <3>2. memory[acq].scans \in Scans
      BY <3>1 DEF ScanIInv, ScanTypes, Memories
    <3>3. Len(memory[acq].scans) \in Nat /\ Count \in Nat
      BY <3>2, ScansAre DEF R!ScanAssumption
    <3>4. ~(Len(memory[acq].scans) >= Count)
      BY <2>3, <3>1 DEF ScanIInv, LengthInv
    <3>5. Len(memory[acq].scans) < Count
      BY <3>3, <3>4
    <3> QED BY <2>3, <3>5 DEF ScanIInv, LengthInv
  <2> QED BY <2>1, <2>2, <2>3
<1>4. SavedInv'
  BY DEF ScanIInv, SavedInv, R!AnnouncedAsSaved
<1>5. PendingInv'
  BY DEF ScanIInv, PendingInv, R!Resting, R!Scanning, R!InState
<1> QED BY <1>1, <1>2, <1>3, <1>4, <1>5 DEF ScanIInv

(* The command thread, as long as it changes nothing but where it is.      *)
LEMMA WorkerMoves ==
  ASSUME R!ScanAssumption, ScanIInv, up, worker' \in Working,
         UNCHANGED <<up, acq, memory, young, main, pending, unkept, files, announced, begun>>,
         analyser' \in Analysers,
         \/ worker.at # "persist" /\ worker' = R!Idle
         \/ /\ worker.at = "idle" /\ worker'.at \in {"stop", "copy"} /\ worker'.of = acq
            /\ acq # R!None
         \/ /\ worker.at = "idle" /\ worker'.at = "start" /\ worker'.of = begun + 1 /\ ~R!Scanning
         \/ /\ <<worker.at, worker'.at>> \in {<<"stop", "finish">>, <<"start", "begin">>,
                                              <<"copy", "write">>}
            /\ worker'.of = worker.of
  PROVE  ScanIInv'
<1>1. ScanTypes'
  BY DEF ScanIInv, ScanTypes
<1>2. TurnInv'
  <2>1. begun \in Nat /\ begun + 1 # R!None
    BY NumbersAre DEF ScanIInv, ScanTypes, R!None
  <2> QED BY <2>1 DEF ScanIInv, TurnInv, R!Idle, R!Scanning, R!InState
<1>3. LengthInv'
  BY DEF ScanIInv, LengthInv
<1>4. SavedInv'
  BY DEF ScanIInv, SavedInv, R!AnnouncedAsSaved, R!Idle
<1>5. PendingInv'
  BY DEF ScanIInv, PendingInv, R!Idle
<1> QED BY <1>1, <1>2, <1>3, <1>4, <1>5 DEF ScanIInv

(* What is there when nothing is: a resting loop, an idle worker, no file. *)
LEMMA AtRest ==
  ASSUME R!ScanAssumption
  PROVE  /\ R!Resting \in Collecting /\ R!Idle \in Working
         /\ R!NotBegun \in Memories /\ R!NoPending \in OnDisk
         /\ R!NoFile \in SavedFiles /\ R!Partial \in SavedFiles
         /\ \A s \in Scans : R!Whole(s) \in SavedFiles
BY NumbersAre DEF R!Resting, R!Idle, R!NotBegun, R!NoPending, R!NoFile, R!Partial, R!Whole,
   Collecting, Working, Memories, OnDisk, SavedFiles, AcqNumbers, ScanStates

(* The analyser, and what the loop asks of it.                             *)
LEMMA AnalyserStep ==
  ASSUME R!ScanAssumption, ScanIInv, R!Analyser \/ UNCHANGED R!vars
  PROVE  ScanIInv'
<1>1. /\ UNCHANGED <<up, acq, memory, main, worker, pending, unkept, files, announced, begun>>
      /\ young' \in BOOLEAN
  BY DEF R!Analyser, R!TakeScan, R!StoppedByOthers, R!Grow, R!vars, R!disk, R!bounds, ScanIInv,
     ScanTypes
<1>2. analyser \in Analysers /\ Count \in Nat
  BY DEF ScanIInv, ScanTypes, R!ScanAssumption
<1>3. CASE R!TakeScan
  <2>1. /\ analyser.left > 0
        /\ analyser' = [analyser EXCEPT !.left = @ - 1, !.unread = Append(@, analyser.of)]
    BY <1>3 DEF R!TakeScan
  <2>2. /\ analyser.left - 1 \in 0..Count
        /\ Append(analyser.unread, analyser.of) \in Seq(R!Acquisitions)
    BY <1>2, <2>1 DEF Analysers
  <2>3. analyser' \in Analysers
    BY <1>2, <2>1, <2>2 DEF Analysers
  <2> QED BY <1>1, <2>3, CollectMoves DEF ScanIInv, ScanTypes
<1>4. CASE R!StoppedByOthers
  <2>1. analyser' \in Analysers
    BY <1>2, <1>4 DEF R!StoppedByOthers, R!Stopped, Analysers
  <2> QED BY <1>1, <2>1, CollectMoves DEF ScanIInv, ScanTypes
<1>5. CASE R!Grow \/ UNCHANGED R!vars
  <2>1. analyser' \in Analysers
    BY <1>2, <1>5 DEF R!Grow, R!vars
  <2> QED BY <1>1, <2>1, CollectMoves DEF ScanIInv, ScanTypes
<1> QED BY <1>3, <1>4, <1>5 DEF R!Analyser

(* What the loop does without a scan to keep.                              *)
LEMMA QuietLoopStep ==
  ASSUME R!ScanAssumption, ScanIInv, R!CollectStart \/ R!NothingUnread \/ R!RefuseOdd \/ R!ReplyLost
  PROVE  ScanIInv'
<1>1. /\ UNCHANGED <<up, acq, memory, young, worker, pending, unkept, files, announced, begun>>
      /\ up /\ young \in BOOLEAN /\ main \in Collecting /\ acq \in AcqNumbers
  BY DEF R!CollectStart, R!NothingUnread, R!RefuseOdd, R!ReplyLost, R!MainStep, ScanIInv,
     ScanTypes
<1>2. analyser' \in Analysers
  <2>1. analyser \in Analysers
    BY DEF ScanIInv, ScanTypes
  <2>2. CASE R!NextUnread
    <3>1. /\ analyser.unread \in Seq(R!Acquisitions) /\ analyser.unread # <<>>
          /\ analyser' = [analyser EXCEPT !.unread = Tail(@)]
      BY <2>1, <2>2 DEF R!NextUnread, Analysers
    <3>2. Tail(analyser.unread) \in Seq(R!Acquisitions)
      BY <3>1, HeadTailProperties
    <3> QED BY <2>1, <3>1, <3>2 DEF Analysers
  <2>3. CASE UNCHANGED analyser
    BY <2>1, <2>3
  <2> QED BY <2>2, <2>3 DEF R!CollectStart, R!NothingUnread, R!RefuseOdd, R!ReplyLost
<1>3. /\ main' \in Collecting
      /\ \/ main.at = "ask" /\ main' = R!Resting
         \/ main.at = "rest" /\ R!Scanning /\ main'.at = "ask" /\ main'.of = acq
         \/ /\ main.at = "ask" /\ main'.at = "finish" /\ main'.of = main.of
            /\ main'.end \in {"stopped", "failed"}
  <2>1. R!Resting \in Collecting
    BY AtRest
  <2>2. CASE R!CollectStart
    BY <1>1, <2>2 DEF R!CollectStart, Collecting, ScanStates
  <2>3. CASE R!NothingUnread
    BY <1>1, <2>1, <2>3 DEF R!NothingUnread, Collecting, ScanStates
  <2>4. CASE R!RefuseOdd
    BY <1>1, <2>4 DEF R!RefuseOdd, R!NextUnread, Collecting, ScanStates
  <2>5. CASE R!ReplyLost
    BY <1>1, <2>1, <2>5 DEF R!ReplyLost, R!NextUnread
  <2> QED BY <2>2, <2>3, <2>4, <2>5
<1> QED BY <1>1, <1>2, <1>3, CollectMoves

(* What the command thread does before it changes the acquisition.         *)
LEMMA QuietWorkerStep ==
  ASSUME R!ScanAssumption, ScanIInv,
         \/ R!AcceptStop \/ R!StopAnalyser \/ R!AcceptStart
         \/ R!SetUpScan \/ R!AcceptSave \/ R!CopyScans
  PROVE  ScanIInv'
<1>1. /\ UNCHANGED <<up, acq, memory, young, main, pending, unkept, files, announced, begun>>
      /\ up /\ worker \in Working /\ acq \in AcqNumbers /\ begun \in 0..Acquired
      /\ analyser \in Analysers /\ memory \in [R!Acquisitions -> Memories]
  BY DEF R!AcceptStop, R!StopAnalyser, R!AcceptStart, R!SetUpScan, R!AcceptSave, R!CopyScans,
     R!Accept, R!WorkerStep, R!disk, ScanIInv, ScanTypes
<1>2. worker.of \in AcqNumbers /\ worker.scans \in Scans /\ R!Idle \in Working
  BY <1>1, AtRest DEF Working
<1>3. CASE R!AcceptStop \/ R!AcceptSave
  <2>1. /\ worker.at = "idle" /\ acq # R!None /\ UNCHANGED analyser
        /\ \/ worker' = [at |-> "stop", of |-> acq, scans |-> <<>>]
           \/ worker' = [at |-> "copy", of |-> acq, scans |-> <<>>]
    BY <1>3 DEF R!AcceptStop, R!AcceptSave, R!Accept, R!Scanning, R!InState, R!Savable
  <2>2. worker' \in Working
    BY <1>1, <2>1, NumbersAre DEF Working
  <2> QED BY <1>1, <2>1, <2>2, WorkerMoves
<1>4. CASE R!AcceptStart
  <2>1. /\ worker.at = "idle" /\ ~R!Scanning /\ begun < Acquired /\ UNCHANGED analyser
        /\ worker' = [at |-> "start", of |-> begun + 1, scans |-> <<>>]
    BY <1>4 DEF R!AcceptStart, R!Accept
  <2>2. begun + 1 \in AcqNumbers
    BY <1>1, <2>1, NumbersAre DEF AcqNumbers, R!Acquisitions
  <2>3. worker' \in Working
    BY <2>1, <2>2, NumbersAre DEF Working
  <2> QED BY <1>1, <2>1, <2>3, WorkerMoves
<1>5. CASE R!StopAnalyser
  <2>1. analyser' \in Analysers
    BY <1>1, <1>5, NumbersAre DEF R!StopAnalyser, R!Stopped, Analysers
  <2>2. /\ worker.at = "stop"
        /\ worker' = R!Idle \/ worker' = [worker EXCEPT !.at = "finish"]
    BY <1>5 DEF R!StopAnalyser, R!Goes, R!Refused
  <2>3. worker' \in Working
    BY <1>1, <1>2, <2>2 DEF Working
  <2>4. worker' = R!Idle \/ (worker'.at = "finish" /\ worker'.of = worker.of)
    BY <1>1, <2>2 DEF Working
  <2> QED BY <1>1, <2>1, <2>2, <2>3, <2>4, WorkerMoves
<1>6. CASE R!SetUpScan
  <2>1. /\ worker.at = "start" /\ worker.of \in R!Acquisitions
        /\ worker' = R!Idle \/ worker' = [worker EXCEPT !.at = "begin"]
    BY <1>2, <1>6 DEF R!SetUpScan, R!Goes, R!Refused, ScanIInv, TurnInv, AcqNumbers
  <2>2. analyser' \in Analysers
    <3>1. \/ analyser' = [left |-> Count, of |-> worker.of, unread |-> <<>>]
          \/ analyser' = [analyser EXCEPT !.left = 0]
      BY <1>6 DEF R!SetUpScan, R!Stopped
    <3>2. Count \in 0..Count /\ 0 \in 0..Count /\ <<>> \in Seq(R!Acquisitions)
      BY NumbersAre
    <3>3. CASE analyser' = [left |-> Count, of |-> worker.of, unread |-> <<>>]
      BY <2>1, <3>2, <3>3 DEF Analysers
    <3>4. CASE analyser' = [analyser EXCEPT !.left = 0]
      BY <1>1, <3>2, <3>4 DEF Analysers
    <3> QED BY <3>1, <3>3, <3>4
  <2>3. worker' \in Working
    BY <1>1, <1>2, <2>1 DEF Working
  <2>4. worker' = R!Idle \/ (worker'.at = "begin" /\ worker'.of = worker.of)
    BY <1>1, <2>1 DEF Working
  <2> QED BY <1>1, <2>1, <2>2, <2>3, <2>4, WorkerMoves
<1>7. CASE R!CopyScans
  <2>1. /\ worker.at = "copy" /\ worker.of \in R!Acquisitions /\ UNCHANGED analyser
        /\ \/ worker' = R!Idle
           \/ worker' = [worker EXCEPT !.at = "write", !.scans = memory[worker.of].scans]
    BY <1>2, <1>7 DEF R!CopyScans, R!Refused, ScanIInv, TurnInv, AcqNumbers
  <2>2. memory[worker.of].scans \in Scans
    BY <1>1, <2>1 DEF Memories
  <2>3. worker' \in Working
    BY <1>1, <1>2, <2>1, <2>2 DEF Working
  <2>4. worker' = R!Idle \/ (worker'.at = "write" /\ worker'.of = worker.of)
    BY <1>1, <2>1 DEF Working
  <2> QED BY <1>1, <2>1, <2>3, <2>4, WorkerMoves
<1> QED BY <1>3, <1>4, <1>5, <1>6, <1>7

(* A scan is recorded.                                                     *)
LEMMA NewScanStep ==
  ASSUME R!ScanAssumption, ScanIInv, R!Record
  PROVE  ScanIInv'
<1> DEFINE b == main.of
           longer == Append(memory[b].scans, Head(analyser.unread))
<1>1. /\ UNCHANGED <<up, acq, young, worker, pending, unkept, files, announced, begun>>
      /\ up /\ main.at = "ask" /\ analyser.unread # <<>>
      /\ analyser' = [analyser EXCEPT !.unread = Tail(@)]
      /\ memory' = [memory EXCEPT ![b].scans = longer]
      /\ main' = [main EXCEPT !.at = "publish",
                              !.end = IF Len(memory[b].scans) + 1 >= Count THEN "done" ELSE "none"]
  BY DEF R!Record, R!NextUnread, R!MainStep
<1>2. /\ b \in R!Acquisitions /\ memory \in [R!Acquisitions -> Memories]
      /\ memory[b].scans \in Scans
      /\ memory[b] \in Memories /\ main \in Collecting /\ analyser \in Analysers
      /\ Len(memory[b].scans) < Count
  BY <1>1 DEF ScanIInv, ScanTypes, TurnInv, LengthInv, Collecting, AcqNumbers, Memories
<1>3. Head(analyser.unread) \in R!Acquisitions /\ analyser' \in Analysers
  <2>1. analyser.unread \in Seq(R!Acquisitions)
    BY <1>2 DEF Analysers
  <2>2. Head(analyser.unread) \in R!Acquisitions /\ Tail(analyser.unread) \in Seq(R!Acquisitions)
    BY <1>1, <2>1, HeadTailProperties
  <2> QED BY <1>1, <1>2, <2>2 DEF Analysers
<1>4. /\ longer \in Scans /\ Len(longer) = Len(memory[b].scans) + 1
      /\ \A i \in 1..Len(memory[b].scans) : longer[i] = memory[b].scans[i]
  BY <1>2, <1>3, OneMoreScan
<1>5. /\ main'.at = "publish" /\ main'.of = b
      /\ main' \in Collecting /\ main'.end \in {"done", "none"}
      /\ main'.end = "done" \/ ~(Len(longer) >= Count)
  BY <1>1, <1>2, <1>4 DEF Collecting, ScanStates
<1> HIDE DEF longer
<1>6. /\ \A a \in R!Acquisitions : memory'[a].state = memory[a].state
      /\ \A a \in R!Acquisitions : memory'[a].saved = memory[a].saved
      /\ \A a \in R!Acquisitions : a # b => memory'[a] = memory[a]
      /\ memory'[b].scans = longer
      /\ memory' \in [R!Acquisitions -> Memories]
  BY <1>1, <1>2, <1>4 DEF Memories
<1>7. Len(longer) \in Nat /\ Len(memory[b].scans) \in Nat /\ Count \in Nat
  BY <1>2, <1>4, ScansAre DEF R!ScanAssumption
<1>8. ScanTypes'
  BY <1>1, <1>3, <1>5, <1>6 DEF ScanIInv, ScanTypes
<1>9. TurnInv'
  <2>1. R!Scanning' => R!Scanning
    BY <1>1, <1>2, <1>6 DEF R!Scanning, R!InState, ScanIInv, ScanTypes, AcqNumbers
  <2> QED BY <1>1, <1>5, <1>6, <2>1 DEF ScanIInv, TurnInv
<1>10. LengthInv'
  <2>1. ASSUME NEW a \in R!Acquisitions, memory'[a].state = "scanning",
               Len(memory'[a].scans) >= Count
        PROVE  a = b /\ main'.end = "done"
    BY <1>1, <1>5, <1>6, <2>1 DEF ScanIInv, LengthInv
  <2>2. main'.end = "done" \/ Len(memory'[b].scans) < Count
    BY <1>5, <1>6, <1>7
  <2> QED BY <1>5, <2>1, <2>2 DEF LengthInv
<1>11. SavedInv'
  BY <1>1 DEF ScanIInv, SavedInv, R!AnnouncedAsSaved
<1>12. PendingInv'
  <2>1. acq # R!None /\ pending.of = acq => Begins(pending.scans, memory'[acq].scans)
    <3> SUFFICES ASSUME acq # R!None, pending.of = acq
                 PROVE  Begins(pending.scans, memory'[acq].scans)
      OBVIOUS
    <3>1. Begins(pending.scans, memory[acq].scans) /\ acq \in R!Acquisitions
      BY DEF ScanIInv, PendingInv, ScanTypes, AcqNumbers
    <3>2. pending.scans \in Scans
      BY DEF ScanIInv, ScanTypes, OnDisk
    <3>3. Len(pending.scans) \in Nat
      BY <3>2, ScansAre DEF R!ScanAssumption
    <3>4. CASE acq = b
      <4>1. /\ Len(pending.scans) <= Len(memory[b].scans)
            /\ \A i \in 1..Len(pending.scans) : pending.scans[i] = memory[b].scans[i]
        BY <3>1, <3>4 DEF Begins
      <4>2. \A i \in 1..Len(pending.scans) : i \in 1..Len(memory[b].scans)
        BY <1>7, <3>3, <4>1
      <4>3. Len(pending.scans) <= Len(longer)
        BY <1>4, <1>7, <3>3, <4>1
      <4>4. \A i \in 1..Len(pending.scans) : pending.scans[i] = longer[i]
        BY <1>4, <4>1, <4>2
      <4> QED BY <1>6, <3>4, <4>3, <4>4 DEF Begins
    <3>5. CASE acq # b
      BY <1>6, <3>1, <3>5
    <3> QED BY <3>4, <3>5
  <2>2. acq # R!None => acq \in R!Acquisitions
    BY DEF ScanIInv, ScanTypes, AcqNumbers
  <2>3. worker.at \in {"unlink", "announce"} => worker.of \in R!Acquisitions
    BY <2>2 DEF ScanIInv, TurnInv
  <2> QED BY <1>1, <1>5, <1>6, <2>1, <2>2, <2>3 DEF ScanIInv, PendingInv
<1> QED BY <1>8, <1>9, <1>10, <1>11, <1>12 DEF ScanIInv

(* What a write of pending.json can do.                                    *)
LEMMA Persists ==
  ASSUME ScanIInv, NEW a \in R!Acquisitions, R!Persist(a)
  PROVE  /\ pending' \in OnDisk /\ unkept' \in BOOLEAN
         /\ \/ ~unkept' /\ pending'.of = a /\ pending'.scans = memory[a].scans
            \/ unkept' /\ pending' = pending
<1>1. memory[a] \in Memories /\ pending \in OnDisk
  BY DEF ScanIInv, ScanTypes
<1> DEFINE kept == [of |-> a, state |-> memory[a].state, scans |-> memory[a].scans,
                    saved |-> memory[a].saved]
<1>2. kept \in OnDisk /\ kept.of = a /\ kept.scans = memory[a].scans
  BY <1>1 DEF OnDisk, Memories, AcqNumbers
<1>3. (pending' = kept /\ unkept' = FALSE) \/ (unkept' = TRUE /\ pending' = pending)
  BY DEF R!Persist
<1> HIDE DEF kept
<1>4. CASE pending' = kept /\ unkept' = FALSE
  BY <1>2, <1>4
<1>5. CASE unkept' = TRUE /\ pending' = pending
  BY <1>1, <1>5
<1> QED BY <1>3, <1>4, <1>5

(* A sequence begins with itself.                                          *)
LEMMA BeginsItself ==
  ASSUME R!ScanAssumption, NEW s \in Scans
  PROVE  Begins(s, s)
<1>1. Len(s) \in Nat
  BY ScansAre DEF R!ScanAssumption
<1> QED BY <1>1 DEF Begins

(* The loop keeps a scan, or what it finished, on disk.                    *)
LEMMA LoopKeepsStep ==
  ASSUME R!ScanAssumption, ScanIInv, R!PublishScan \/ R!FinishPersist
  PROVE  ScanIInv'
<1> DEFINE b == main.of
<1>1. /\ UNCHANGED <<up, acq, memory, young, worker, analyser, files, announced, begun>>
      /\ up /\ main.at \in {"publish", "persist"}
  BY DEF R!PublishScan, R!FinishPersist, R!MainStep
<1>2. b \in R!Acquisitions /\ main \in Collecting /\ b <= begun /\ memory[b].scans \in Scans
  BY <1>1 DEF ScanIInv, ScanTypes, TurnInv, Collecting, AcqNumbers, Memories
<1>3. \/ /\ main.at = "publish" /\ main'.at = "finish" /\ main'.of = b /\ main'.end = main.end
         /\ main.end = "done"
      \/ main.at = "publish" /\ main'.at = "ask" /\ main'.of = b /\ main.end # "done"
      \/ main.at = "persist" /\ main' = R!Resting
  BY <1>1, <1>2 DEF R!PublishScan, R!FinishPersist, Collecting
<1>4. main' \in Collecting
  BY <1>2, AtRest DEF R!PublishScan, R!FinishPersist, Collecting
<1>5. /\ pending' \in OnDisk /\ unkept' \in BOOLEAN
      /\ \/ ~unkept' /\ pending'.of = b /\ pending'.scans = memory[b].scans
         \/ unkept' /\ pending' = pending
         \/ /\ UNCHANGED <<pending, unkept>> /\ main.at = "publish"
            /\ memory[b].state # "scanning"
  <2>1. pending \in OnDisk /\ unkept \in BOOLEAN
    BY DEF ScanIInv, ScanTypes
  <2>2. CASE R!Persist(b)
    BY <1>2, <2>2, Persists
  <2>3. CASE R!PublishScan /\ ~R!PublishKeeps
    <3>1. b # R!None
      BY <1>2, NumbersAre
    <3> QED BY <2>1, <2>3, <3>1 DEF R!PublishScan, R!PublishKeeps, R!InState
  <2> QED BY <2>2, <2>3 DEF R!PublishScan, R!FinishPersist
<1>6. ScanTypes'
  BY <1>1, <1>4, <1>5 DEF ScanIInv, ScanTypes
<1>7. TurnInv'
  <2>1. pending'.of <= begun /\ main'.of <= begun /\ (main'.at # "rest" => main'.of # R!None)
    <3>1. R!None <= begun /\ b # R!None
      BY <1>2, NumbersAre DEF ScanIInv, ScanTypes, R!None
    <3> QED BY <1>2, <1>3, <1>5, <3>1 DEF ScanIInv, TurnInv, R!Resting
  <2> QED BY <1>1, <2>1 DEF ScanIInv, TurnInv, R!Scanning, R!InState
<1>8. LengthInv'
  <2>1. main.at = "publish" /\ main.end # "done" => Len(memory[b].scans) < Count
    BY DEF ScanIInv, LengthInv
  <2>2. ASSUME NEW a \in R!Acquisitions, memory[a].state = "scanning", Len(memory[a].scans) >= Count
        PROVE  main'.at = "finish" /\ main'.of = a /\ main'.end = "done"
    <3>1. main.at = "publish" /\ b = a /\ main.end = "done"
      BY <1>1, <2>2 DEF ScanIInv, LengthInv
    <3> QED BY <1>3, <3>1
  <2>3. main'.at = "finish" => main'.end = "done"
    BY <1>3 DEF R!Resting
  <2>4. main'.at \notin {"publish", "persist"}
    BY <1>3 DEF R!Resting
  <2>5. main'.at = "ask" => Len(memory[b].scans) < Count /\ main'.of = b
    BY <1>3, <2>1 DEF R!Resting
  <2> QED BY <1>1, <2>2, <2>3, <2>4, <2>5 DEF LengthInv
<1>9. SavedInv'
  BY <1>1 DEF ScanIInv, SavedInv, R!AnnouncedAsSaved
<1>10. PendingInv'
  <2>1. acq # R!None => acq \in R!Acquisitions
    BY DEF ScanIInv, ScanTypes, AcqNumbers
  <2>2. acq # R!None /\ pending'.of = acq => Begins(pending'.scans, memory[acq].scans)
    BY <1>2, <1>5, BeginsItself DEF ScanIInv, PendingInv
  <2>3. main'.at # "rest" => main'.of = b /\ main.at = "publish"
    BY <1>3 DEF R!Resting
  <2>4. acq # R!None /\ b # acq => memory[acq].scans = <<>>
    BY <1>1 DEF ScanIInv, PendingInv
  <2>5. acq # R!None /\ b = acq /\ main.at = "publish" =>
          memory[acq].state \in {"scanning", "stopped"}
    BY DEF ScanIInv, PendingInv
  <2>6. ASSUME acq # R!None, memory[acq].scans # <<>>, ~unkept', memory[acq].state # "stopped"
        PROVE  pending'.of = acq /\ pending'.scans = memory[acq].scans
    BY <1>5, <2>4, <2>5, <2>6
  <2>7. pending'.of = R!None => pending'.scans = <<>>
    BY <1>2, <1>5, NumbersAre DEF ScanIInv, PendingInv
  <2>8. worker.at \in {"unlink", "announce"} => memory[worker.of].saved
    BY DEF ScanIInv, PendingInv
  <2>9. acq # R!None /\ main'.of = acq /\ main'.at \in {"ask", "publish", "finish"} =>
          memory[acq].state \in {"scanning", "stopped"}
    BY <2>3, <2>5
  <2> QED BY <1>1, <2>2, <2>3, <2>4, <2>6, <2>7, <2>8, <2>9 DEF PendingInv
<1> QED BY <1>6, <1>7, <1>8, <1>9, <1>10 DEF ScanIInv

(* The loop, or a command, ends the acquisition.                           *)
LEMMA FinishStep ==
  ASSUME R!ScanAssumption, ScanIInv, R!Finish \/ R!WorkerFinish
  PROVE  ScanIInv'
<1>1. UNCHANGED <<up, acq, young, analyser, pending, unkept, files, announced, begun>> /\ up
  BY DEF R!Finish, R!WorkerFinish, R!MainStep, R!WorkerStep, R!disk
<1>2. PICK b \in R!Acquisitions, s \in {"done", "stopped", "failed"} :
        /\ memory' = [memory EXCEPT ![b].state = s]
        /\ \/ /\ main.at = "finish" /\ main.of = b /\ main.end = s /\ UNCHANGED worker
              /\ main' = [main EXCEPT !.at = "persist"]
           \/ /\ worker.at = "finish" /\ worker.of = b /\ s = "stopped" /\ UNCHANGED main
              /\ worker' = [worker EXCEPT !.at = "persist"]
  <2>1. CASE R!Finish
    <3>1. /\ main.at = "finish" /\ memory' = [memory EXCEPT ![main.of].state = main.end]
          /\ main' = [main EXCEPT !.at = "persist"] /\ UNCHANGED worker
      BY <2>1 DEF R!Finish, R!SetState, R!MainStep
    <3>2. main.of \in R!Acquisitions /\ main.end \in {"done", "stopped", "failed"}
      BY <3>1 DEF ScanIInv, ScanTypes, TurnInv, LengthInv, Collecting, AcqNumbers
    <3> QED BY <3>1, <3>2
  <2>2. CASE R!WorkerFinish
    <3>1. /\ worker.at = "finish" /\ memory' = [memory EXCEPT ![worker.of].state = "stopped"]
          /\ worker' = [worker EXCEPT !.at = "persist"] /\ UNCHANGED main
      BY <2>2 DEF R!WorkerFinish, R!SetState, R!WorkerStep, R!Goes
    <3>2. worker.of \in R!Acquisitions
      BY <3>1 DEF ScanIInv, ScanTypes, TurnInv, Working, AcqNumbers
    <3> QED BY <3>1, <3>2
  <2> QED BY <2>1, <2>2
<1>3. memory \in [R!Acquisitions -> Memories] /\ main \in Collecting /\ worker \in Working
  BY DEF ScanIInv, ScanTypes
<1>4. /\ memory' \in [R!Acquisitions -> Memories] /\ memory'[b].state = s
      /\ \A a \in R!Acquisitions : memory'[a].scans = memory[a].scans
      /\ \A a \in R!Acquisitions : memory'[a].saved = memory[a].saved
      /\ \A a \in R!Acquisitions : a # b => memory'[a] = memory[a]
  BY <1>2, <1>3 DEF Memories, ScanStates
<1>5. /\ main' \in Collecting /\ main'.of = main.of /\ main'.end = main.end
      /\ main'.at = main.at \/ (main.at = "finish" /\ main'.at = "persist" /\ main.of = b)
      /\ main'.at = main.at => main' = main
  BY <1>2, <1>3 DEF Collecting
<1>6. /\ worker' \in Working /\ worker'.of = worker.of
      /\ worker'.at = worker.at \/ (worker.at = "finish" /\ worker'.at = "persist" /\ worker.of = b)
      /\ worker'.at = worker.at => worker' = worker
  BY <1>2, <1>3 DEF Working
<1>7. ScanTypes'
  BY <1>1, <1>4, <1>5, <1>6 DEF ScanIInv, ScanTypes
<1>8. TurnInv'
  <2>1. acq # R!None => acq \in R!Acquisitions
    BY DEF ScanIInv, ScanTypes, AcqNumbers
  <2>2. \A a \in R!Acquisitions : memory'[a].state = "scanning" => memory[a].state = "scanning"
    BY <1>2, <1>4
  <2>3. R!Scanning' => R!Scanning
    BY <1>1, <2>1, <2>2 DEF R!Scanning, R!InState
  <2> QED BY <1>1, <1>5, <1>6, <2>2, <2>3 DEF ScanIInv, TurnInv
<1>9. LengthInv'
  <2>1. ASSUME NEW a \in R!Acquisitions,
               memory'[a].state = "scanning", Len(memory'[a].scans) >= Count
        PROVE  main'.at \in {"publish", "finish"} /\ main'.of = a /\ main'.end = "done"
    <3>1. a # b
      BY <1>2, <1>4, <2>1
    <3>2. main.at \in {"publish", "finish"} /\ main.of = a /\ main.end = "done"
      BY <1>4, <2>1, <3>1 DEF ScanIInv, LengthInv
    <3> QED BY <1>5, <3>1, <3>2
  <2>2. main.at \in {"ask", "publish"} => main.of \in R!Acquisitions
    BY <1>3 DEF ScanIInv, TurnInv, Collecting, AcqNumbers
  <2> QED BY <1>4, <1>5, <2>1, <2>2 DEF ScanIInv, LengthInv
<1>10. SavedInv'
  BY <1>1, <1>6 DEF ScanIInv, SavedInv, R!AnnouncedAsSaved
<1>11. PendingInv'
  <2>1. acq # R!None => acq \in R!Acquisitions
    BY DEF ScanIInv, ScanTypes, AcqNumbers
  <2>2. acq # R!None /\ pending.of = acq => Begins(pending.scans, memory'[acq].scans)
    BY <1>4, <2>1 DEF ScanIInv, PendingInv
  <2>3. acq # R!None /\ main'.at # "rest" /\ main'.of # acq => memory'[acq].scans = <<>>
    BY <1>4, <1>5, <2>1 DEF ScanIInv, PendingInv
  <2>4. ASSUME acq # R!None, main'.of = acq, main'.at \in {"ask", "publish", "finish"}
        PROVE  memory'[acq].state \in {"scanning", "stopped"}
    <3>1. main' = main /\ memory[acq].state \in {"scanning", "stopped"}
      BY <1>5, <2>4 DEF ScanIInv, PendingInv
    <3>2. acq = b => s = "stopped"
      BY <1>2, <1>3, <2>4, <3>1 DEF Collecting
    <3> QED BY <1>4, <2>1, <2>4, <3>1, <3>2
  <2>5. worker'.at \in {"unlink", "announce"} => memory'[worker'.of].saved
    <3> SUFFICES ASSUME worker'.at \in {"unlink", "announce"} PROVE memory'[worker'.of].saved
      OBVIOUS
    <3>1. worker' = worker /\ memory[worker.of].saved /\ worker.of \in R!Acquisitions
      BY <1>3, <1>6 DEF ScanIInv, PendingInv, TurnInv, Working, AcqNumbers
    <3> QED BY <1>4, <3>1
  <2>6. ASSUME acq # R!None, memory'[acq].scans # <<>>, ~memory'[acq].saved, ~unkept,
               main'.at \notin {"publish", "persist"}, worker'.at # "persist",
               memory'[acq].state # "stopped"
        PROVE  pending.of = acq /\ pending.scans = memory'[acq].scans
    <3>1. main' = main /\ worker' = worker
      BY <1>5, <1>6, <2>6
    <3>2. FALSE
      BY <1>2, <1>3, <2>6, <3>1 DEF Collecting, Working
    <3> QED BY <3>2
  <2>7. pending.of = R!None => pending.scans = <<>>
    BY DEF ScanIInv, PendingInv
  <2> QED BY <1>1, <2>2, <2>3, <2>4, <2>5, <2>6, <2>7 DEF PendingInv
<1> QED BY <1>7, <1>8, <1>9, <1>10, <1>11 DEF ScanIInv

(* The command thread writes pending.json, or removes it after a save.     *)
LEMMA WorkerKeepsStep ==
  ASSUME R!ScanAssumption, ScanIInv, R!WorkerPersist \/ R!Unlink
  PROVE  ScanIInv'
<1> DEFINE b == worker.of
<1>1. /\ UNCHANGED <<up, acq, memory, young, main, analyser, files, announced, begun>> /\ up
      /\ b = acq /\ b \in R!Acquisitions /\ worker \in Working
  BY DEF R!WorkerPersist, R!Unlink, R!WorkerStep, ScanIInv, ScanTypes, TurnInv, Working,
     AcqNumbers
<1>2. /\ worker' \in Working
      /\ \/ worker' = R!Idle
         \/ /\ worker.at = "unlink" /\ worker'.at = "announce" /\ worker'.of = b
            /\ worker'.scans = worker.scans
  BY <1>1, AtRest DEF R!WorkerPersist, R!Unlink, R!Refused, R!Goes, Working
<1>3. /\ memory[b] \in Memories /\ memory[b].scans \in Scans
      /\ pending \in OnDisk /\ unkept \in BOOLEAN
  BY <1>1 DEF ScanIInv, ScanTypes, Memories
<1>4. /\ pending' \in OnDisk /\ unkept' \in BOOLEAN
      /\ \/ ~unkept' /\ pending'.of = b /\ pending'.scans = memory[b].scans
         \/ unkept' /\ pending' = pending
         \/ memory[b].saved /\ (pending' = R!NoPending \/ pending' = pending)
  <2>1. CASE R!WorkerPersist
    BY <1>1, <2>1, Persists DEF R!WorkerPersist
  <2>2. CASE R!Unlink
    <3>1. memory[b].saved
      BY <2>2 DEF R!Unlink, ScanIInv, PendingInv
    <3> QED BY <1>3, <2>2, <3>1, AtRest DEF R!Unlink
  <2> QED BY <2>1, <2>2
<1>5. ScanTypes'
  BY <1>1, <1>2, <1>4 DEF ScanIInv, ScanTypes
<1>6. TurnInv'
  <2>1. R!None <= begun
    BY NumbersAre DEF ScanIInv, ScanTypes, R!None
  <2>2. pending'.of <= begun
    BY <1>1, <1>4, <2>1 DEF ScanIInv, TurnInv, R!NoPending
  <2> QED BY <1>1, <1>2, <2>2 DEF ScanIInv, TurnInv, R!Idle, R!Scanning, R!InState
<1>7. LengthInv'
  BY <1>1 DEF ScanIInv, LengthInv
<1>8. SavedInv'
  BY <1>1, <1>2 DEF ScanIInv, SavedInv, R!AnnouncedAsSaved, R!Idle
<1>9. PendingInv'
  <2>1. acq # R!None /\ pending'.of = acq => Begins(pending'.scans, memory[acq].scans)
    BY <1>1, <1>3, <1>4, BeginsItself DEF ScanIInv, PendingInv, R!NoPending
  <2>2. worker'.at \in {"unlink", "announce"} => memory[worker'.of].saved
    <3>1. worker.at = "unlink" => memory[b].saved
      BY DEF ScanIInv, PendingInv
    <3> QED BY <1>2, <3>1 DEF R!Idle
  <2>3. ~unkept' /\ ~memory[acq].saved => pending'.of = acq /\ pending'.scans = memory[acq].scans
    BY <1>1, <1>4
  <2>4. pending'.of = R!None => pending'.scans = <<>>
    BY <1>1, <1>4, NumbersAre DEF ScanIInv, PendingInv, R!NoPending
  <2> QED BY <1>1, <2>1, <2>2, <2>3, <2>4 DEF ScanIInv, PendingInv
<1> QED BY <1>5, <1>6, <1>7, <1>8, <1>9 DEF ScanIInv

(* A new acquisition takes the place of the one there was.                 *)
LEMMA BeginStep ==
  ASSUME R!ScanAssumption, ScanIInv, R!Begin
  PROVE  ScanIInv'
<1> DEFINE b == worker.of
           fresh == [R!NotBegun EXCEPT !.state = "scanning"]
<1>1. /\ UNCHANGED <<up, main, analyser, pending, unkept, files, announced>> /\ up
      /\ worker.at = "begin" /\ worker' = R!Idle /\ acq' = b /\ begun' = b /\ young' = TRUE
      /\ memory' = [memory EXCEPT ![b] = fresh]
  BY DEF R!Begin, R!WorkerStep, R!Refused, R!disk
<1>2. /\ b \in R!Acquisitions /\ b = begun + 1 /\ ~R!Scanning /\ begun \in Nat
      /\ main \in Collecting /\ pending \in OnDisk /\ memory \in [R!Acquisitions -> Memories]
  BY <1>1 DEF ScanIInv, ScanTypes, TurnInv, Working, AcqNumbers
<1>3. /\ fresh \in Memories /\ fresh.state = "scanning" /\ fresh.scans = <<>>
  BY NumbersAre DEF R!NotBegun, Memories, ScanStates
<1> HIDE DEF fresh
<1>4. /\ memory' \in [R!Acquisitions -> Memories] /\ memory'[b] = fresh
      /\ \A a \in R!Acquisitions : a # b => memory'[a] = memory[a]
  BY <1>1, <1>2, <1>3
<1>5. main.of # b /\ pending.of # b /\ acq # b /\ acq \in AcqNumbers
  <2>1. main.of <= begun /\ pending.of <= begun /\ acq <= begun /\ acq \in AcqNumbers
    BY DEF ScanIInv, TurnInv, ScanTypes
  <2> QED BY <1>2, <2>1
<1>6. ScanTypes'
  <2>1. b \in 0..Acquired /\ b \in AcqNumbers /\ R!Idle \in Working
    BY <1>2, NumbersAre, AtRest DEF R!Acquisitions, AcqNumbers
  <2> QED BY <1>1, <1>4, <2>1 DEF ScanIInv, ScanTypes
<1>7. TurnInv'
  <2>1. \A a \in R!Acquisitions : memory[a].state # "scanning"
    <3>1. \A a \in R!Acquisitions : memory[a].state = "scanning" => a = acq
      BY DEF ScanIInv, TurnInv
    <3>2. \A a \in R!Acquisitions : a # R!None
      BY NumbersAre
    <3> QED BY <1>2, <3>1, <3>2 DEF R!Scanning, R!InState
  <2>2. \A a \in R!Acquisitions : memory'[a].state = "scanning" => a = b
    BY <1>4, <2>1
  <2>3. b <= b /\ pending.of <= b /\ main.of <= b
    <3>1. main.of <= begun /\ pending.of <= begun /\ main.of \in Nat /\ pending.of \in Nat
      BY <1>2, NumbersAre DEF ScanIInv, TurnInv, Collecting, OnDisk, AcqNumbers
    <3> QED BY <1>2, <3>1
  <2>4. \A a \in R!Acquisitions : a > b => announced[a] = <<>> /\ files[a] = R!NoFile
    <3>1. \A a \in R!Acquisitions : a > b => a > begun
      BY <1>2, NumbersAre
    <3> QED BY <3>1 DEF ScanIInv, TurnInv
  <2> QED BY <1>1, <2>2, <2>3, <2>4 DEF ScanIInv, TurnInv, R!Idle
<1>8. LengthInv'
  <2>1. Len(memory'[b].scans) < Count /\ ~(Len(memory'[b].scans) >= Count)
    BY <1>3, <1>4, NumbersAre
  <2>2. main.at \in {"ask", "publish"} => main.of \in R!Acquisitions
    BY <1>2 DEF ScanIInv, TurnInv, Collecting, AcqNumbers
  <2>3. main.at \in {"ask", "publish"} => memory'[main.of] = memory[main.of]
    BY <1>4, <1>5, <2>2
  <2> QED BY <1>1, <1>4, <2>1, <2>3 DEF ScanIInv, LengthInv
<1>9. SavedInv'
  BY <1>1 DEF ScanIInv, SavedInv, R!AnnouncedAsSaved, R!Idle
<1>10. PendingInv'
  <2>1. memory'[b].scans = <<>>
    BY <1>3, <1>4
  <2> QED BY <1>1, <1>5, <2>1 DEF ScanIInv, PendingInv, R!Idle
<1> QED BY <1>6, <1>7, <1>8, <1>9, <1>10 DEF ScanIInv

(* The file is written, marked and announced.                              *)
LEMMA SaveStep ==
  ASSUME R!ScanAssumption, ScanIInv, R!WriteFile \/ R!MarkSaved \/ R!Announce
  PROVE  ScanIInv'
<1> DEFINE b == worker.of
<1>1. /\ UNCHANGED <<up, acq, young, main, analyser, pending, unkept, begun>> /\ up
      /\ worker.at \in {"write", "mark", "announce"}
  BY DEF R!WriteFile, R!MarkSaved, R!Announce, R!WorkerStep, R!disk
<1>2. /\ b = acq /\ b \in R!Acquisitions /\ worker \in Working /\ worker.scans \in Scans
      /\ files \in [R!Acquisitions -> SavedFiles] /\ announced \in [R!Acquisitions -> Seq(Scans)]
      /\ memory \in [R!Acquisitions -> Memories] /\ b <= begun /\ b \in Nat /\ begun \in Nat
  BY <1>1, NumbersAre DEF ScanIInv, ScanTypes, TurnInv, Working, AcqNumbers
<1>3. \/ worker' = R!Idle
      \/ worker.at = "write" /\ worker' = [worker EXCEPT !.at = "mark"]
      \/ worker.at = "mark" /\ worker' = [worker EXCEPT !.at = "unlink"]
  BY DEF R!WriteFile, R!MarkSaved, R!Announce, R!Refused, R!Goes
<1>4. /\ worker' \in Working
      /\ \/ worker' = R!Idle
         \/ /\ worker'.of = b /\ worker'.scans = worker.scans
            /\ <<worker.at, worker'.at>> \in {<<"write", "mark">>, <<"mark", "unlink">>}
  BY <1>2, <1>3, AtRest DEF Working
<1>5. /\ memory' \in [R!Acquisitions -> Memories]
      /\ \A a \in R!Acquisitions : memory'[a].state = memory[a].state
      /\ \A a \in R!Acquisitions : memory'[a].scans = memory[a].scans
      /\ \A a \in R!Acquisitions : memory[a].saved => memory'[a].saved
      /\ worker'.at = "unlink" => memory'[b].saved
  <2>1. CASE R!MarkSaved
    <3>1. memory' = [memory EXCEPT ![b].saved = TRUE]
      BY <2>1 DEF R!MarkSaved
    <3>2. memory' \in [R!Acquisitions -> Memories]
      BY <1>2, <3>1 DEF Memories
    <3>3. \A a \in R!Acquisitions : memory'[a] = IF a = b THEN [memory[b] EXCEPT !.saved = TRUE]
                                                          ELSE memory[a]
      BY <1>2, <3>1
    <3>4. [memory[b] EXCEPT !.saved = TRUE].saved = TRUE
      BY <1>2 DEF Memories
    <3>5. /\ [memory[b] EXCEPT !.saved = TRUE].state = memory[b].state
          /\ [memory[b] EXCEPT !.saved = TRUE].scans = memory[b].scans
      BY <1>2 DEF Memories
    <3> QED BY <1>2, <3>2, <3>3, <3>4, <3>5
  <2>2. CASE R!WriteFile \/ R!Announce
    <3>1. memory' = memory /\ worker'.at # "unlink"
      BY <1>4, <2>2 DEF R!WriteFile, R!Announce, R!Idle
    <3> QED BY <1>2, <3>1
  <2> QED BY <2>1, <2>2
<1>6. /\ files' \in [R!Acquisitions -> SavedFiles] /\ announced' \in [R!Acquisitions -> Seq(Scans)]
      /\ \A a \in R!Acquisitions : a # b => files'[a] = files[a] /\ announced'[a] = announced[a]
      /\ announced'[b] # <<>> => Len(announced'[b]) = 1 /\ files'[b] = R!Whole(announced'[b][1])
      /\ worker'.at \in {"mark", "unlink", "announce"} =>
           files'[b] = R!Whole(worker.scans) /\ announced'[b] = <<>>
  <2>1. announced[b] # <<>> => Len(announced[b]) = 1 /\ files[b] = R!Whole(announced[b][1])
    BY <1>2 DEF ScanIInv, SavedInv, R!AnnouncedAsSaved
  <2>2. worker.at \in {"mark", "announce"} =>
          files[b] = R!Whole(worker.scans) /\ announced[b] = <<>>
    BY DEF ScanIInv, SavedInv
  <2>3. CASE R!WriteFile
    <3>1. UNCHANGED announced /\ worker.at = "write"
      BY <2>3 DEF R!WriteFile
    <3>2. CASE files[b].is = "none"
      <4>1. announced[b] = <<>>
        BY <2>1, <3>2 DEF R!Whole
      <4>2. \/ worker' = R!Idle /\ files' \in {files, [files EXCEPT ![b] = R!Partial]}
            \/ files' = [files EXCEPT ![b] = R!Whole(worker.scans)]
        BY <2>3, <3>2 DEF R!WriteFile, R!MayWrite, R!Refused
      <4>3. R!Whole(worker.scans) \in SavedFiles /\ R!Partial \in SavedFiles
        BY <1>2, AtRest
      <4>4. CASE worker' = R!Idle /\ files' \in {files, [files EXCEPT ![b] = R!Partial]}
        BY <1>2, <3>1, <4>1, <4>3, <4>4 DEF R!Idle
      <4>5. CASE files' = [files EXCEPT ![b] = R!Whole(worker.scans)]
        BY <1>2, <3>1, <4>1, <4>3, <4>5
      <4> QED BY <4>2, <4>4, <4>5
    <3>3. CASE files[b].is # "none"
      <4>1. UNCHANGED files /\ worker' = R!Idle
        BY <2>3, <3>3 DEF R!WriteFile, R!MayWrite, R!Refused
      <4> QED BY <1>2, <2>1, <3>1, <4>1 DEF R!Idle
    <3> QED BY <3>2, <3>3
  <2>4. CASE R!MarkSaved
    <3>1. UNCHANGED <<files, announced>> /\ worker.at = "mark"
      BY <2>4 DEF R!MarkSaved, R!disk
    <3> QED BY <1>2, <2>1, <2>2, <3>1
  <2>5. CASE R!Announce
    <3>1. /\ UNCHANGED files /\ worker.at = "announce" /\ worker' = R!Idle
          /\ announced' = [announced EXCEPT ![b] = Append(@, worker.scans)]
      BY <2>5 DEF R!Announce, R!Refused, R!Summarised, R!disk
    <3>2. Append(announced[b], worker.scans) = <<worker.scans>>
      <4>1. announced[b] = <<>>
        BY <2>2, <3>1
      <4>2. <<>> \in Seq(Scans) /\ <<>> \o <<worker.scans>> = <<worker.scans>>
        BY <1>2, ConcatEmptySeq
      <4>3. Append(<<>>, worker.scans) = <<>> \o <<worker.scans>>
        BY <1>2, <4>2, AppendIsConcat
      <4> QED BY <4>1, <4>2, <4>3
    <3>3. /\ <<worker.scans>> \in Seq(Scans) /\ Len(<<worker.scans>>) = 1
          /\ <<worker.scans>>[1] = worker.scans
      BY <1>2
    <3>4. announced' = [announced EXCEPT ![b] = <<worker.scans>>]
      BY <3>1, <3>2
    <3>5. announced' \in [R!Acquisitions -> Seq(Scans)] /\ announced'[b] = <<worker.scans>>
      BY <1>2, <3>3, <3>4
    <3>6. \A a \in R!Acquisitions : a # b => announced'[a] = announced[a]
      BY <1>2, <3>4
    <3> QED BY <1>2, <2>2, <3>1, <3>3, <3>5, <3>6 DEF R!Idle
  <2> QED BY <2>3, <2>4, <2>5
<1>7. ScanTypes'
  BY <1>1, <1>4, <1>5, <1>6 DEF ScanIInv, ScanTypes
<1>8. TurnInv'
  <2>1. R!Scanning' => R!Scanning
    BY <1>1, <1>2, <1>5 DEF R!Scanning, R!InState
  <2>2. \A a \in R!Acquisitions : a > begun => a # b
    BY <1>2, NumbersAre
  <2>3. \A a \in R!Acquisitions : a > begun => announced'[a] = <<>> /\ files'[a] = R!NoFile
    BY <1>6, <2>2 DEF ScanIInv, TurnInv
  <2>4. worker'.at \notin {"idle"} => worker'.of = b /\ worker'.at \in {"mark", "unlink"}
    BY <1>4 DEF R!Idle
  <2>5. b # R!None
    BY <1>2, NumbersAre
  <2>6. \A a \in R!Acquisitions : memory'[a].state = "scanning" => a = acq
    BY <1>5 DEF ScanIInv, TurnInv
  <2> QED BY <1>1, <1>2, <2>3, <2>4, <2>5, <2>6 DEF ScanIInv, TurnInv
<1>9. LengthInv'
  <2>1. main.at \in {"ask", "publish"} => main.of \in R!Acquisitions
    BY DEF ScanIInv, ScanTypes, TurnInv, Collecting, AcqNumbers
  <2> QED BY <1>1, <1>5, <2>1 DEF ScanIInv, LengthInv
<1>10. SavedInv'
  <2>1. worker'.at \in {"mark", "unlink", "announce"} =>
          worker'.of = b /\ worker'.scans = worker.scans
    BY <1>4 DEF R!Idle
  <2> QED BY <1>6, <2>1 DEF ScanIInv, SavedInv, R!AnnouncedAsSaved
<1>11. PendingInv'
  <2>1. worker'.at \in {"unlink", "announce"} => memory'[worker'.of].saved
    BY <1>4, <1>5 DEF R!Idle
  <2>2. memory'[acq].scans = memory[acq].scans /\ memory'[acq].state = memory[acq].state
        /\ (memory[acq].saved => memory'[acq].saved)
    BY <1>2, <1>5
  <2>3. worker.at # "persist" /\ worker'.at # "persist"
    BY <1>1, <1>4 DEF R!Idle
  <2> QED BY <1>1, <2>1, <2>2, <2>3 DEF ScanIInv, PendingInv
<1> QED BY <1>7, <1>8, <1>9, <1>10, <1>11 DEF ScanIInv

(* The service goes, and comes back with what pending.json holds.          *)
LEMMA RestartStep ==
  ASSUME R!ScanAssumption, ScanIInv, R!Crash \/ R!Close \/ R!Start
  PROVE  ScanIInv'
<1>1. /\ UNCHANGED <<pending, unkept, files, announced, begun>>
      /\ main' = R!Resting /\ worker' = R!Idle
      /\ up' \in BOOLEAN /\ young' \in BOOLEAN
  BY DEF R!Crash, R!Close, R!Gone, R!Start, R!disk, R!bounds, ScanIInv, ScanTypes, TurnInv
<1>2. pending \in OnDisk /\ pending.scans \in Scans /\ pending.state \in ScanStates
  BY DEF ScanIInv, ScanTypes, OnDisk
<1>3. R!Resting \in Collecting /\ R!Idle \in Working /\ R!NotBegun \in Memories
  BY AtRest
<1>4. analyser' \in Analysers
  <2>1. analyser \in Analysers /\ 0 \in 0..Count
    BY NumbersAre DEF ScanIInv, ScanTypes
  <2> QED BY <2>1 DEF R!Crash, R!Close, R!Start, R!Stopped, Analysers
<1>5. /\ memory' \in [R!Acquisitions -> Memories] /\ acq' \in AcqNumbers /\ acq' <= begun
      /\ \A a \in R!Acquisitions : memory'[a].state # "scanning"
      /\ acq' # R!None => pending.of = acq' /\ pending.scans = memory'[acq'].scans
      /\ ~up' => acq' = R!None
  <2>1. R!None \in AcqNumbers /\ R!None <= begun
    BY NumbersAre DEF AcqNumbers, ScanIInv, ScanTypes, R!None
  <2>2. CASE R!Gone
    <3>1. /\ memory' = [a \in R!Acquisitions |-> R!NotBegun] /\ acq' = R!None
          /\ R!NotBegun.state # "scanning"
      BY <2>2 DEF R!Gone, R!NotBegun
    <3> QED BY <1>3, <2>1, <3>1
  <2>3. CASE R!Start
    <3>1. /\ up' /\ ~up /\ acq = R!None /\ R!Restore /\ memory \in [R!Acquisitions -> Memories]
      BY <2>3 DEF R!Start, ScanIInv, TurnInv, ScanTypes
    <3>2. \A a \in R!Acquisitions : memory[a].state # "scanning"
      BY <3>1, NumbersAre DEF ScanIInv, TurnInv
    <3>3. CASE pending.saved \/ pending.scans = <<>>
      BY <2>1, <3>1, <3>2, <3>3 DEF R!Restore
    <3>4. CASE ~(pending.saved \/ pending.scans = <<>>)
      <4> DEFINE kept == [state |-> IF pending.state = "scanning" THEN "stopped" ELSE pending.state,
                          scans |-> pending.scans, saved |-> FALSE]
      <4>1. acq' = pending.of /\ memory' = [memory EXCEPT ![pending.of] = kept]
        BY <3>1, <3>4 DEF R!Restore
      <4>2. pending.of \in R!Acquisitions /\ pending.of <= begun
        BY <1>2, <3>4 DEF ScanIInv, PendingInv, TurnInv, OnDisk, AcqNumbers
      <4>3. kept \in Memories /\ kept.state # "scanning" /\ kept.scans = pending.scans
        BY <1>2 DEF Memories, ScanStates
      <4> HIDE DEF kept
      <4> QED BY <3>1, <3>2, <4>1, <4>2, <4>3 DEF AcqNumbers
    <3> QED BY <3>3, <3>4
  <2> QED BY <2>2, <2>3 DEF R!Crash, R!Close
<1>6. ScanTypes'
  BY <1>1, <1>3, <1>4, <1>5 DEF ScanIInv, ScanTypes
<1>7. TurnInv'
  <2>1. R!None <= begun
    BY NumbersAre DEF ScanIInv, ScanTypes, R!None
  <2> QED BY <1>1, <1>5, <2>1 DEF ScanIInv, TurnInv, R!Resting, R!Idle
<1>8. LengthInv'
  BY <1>1, <1>5 DEF LengthInv, R!Resting
<1>9. SavedInv'
  BY <1>1 DEF ScanIInv, SavedInv, R!AnnouncedAsSaved, R!Idle
<1>10. PendingInv'
  <2>1. acq' # R!None => Begins(pending.scans, memory'[acq'].scans)
    BY <1>2, <1>5, BeginsItself
  <2> QED BY <1>1, <1>5, <2>1 DEF ScanIInv, PendingInv, R!Resting, R!Idle
<1> QED BY <1>6, <1>7, <1>8, <1>9, <1>10 DEF ScanIInv

(* Nothing is scanned yet.                                                 *)
LEMMA ScanInitially ==
  ASSUME R!ScanAssumption, R!Init
  PROVE  ScanIInv
<1>1. /\ acq = R!None /\ main = R!Resting /\ worker = R!Idle /\ pending = R!NoPending /\ begun = 0
      /\ memory = [a \in R!Acquisitions |-> R!NotBegun] /\ up = TRUE /\ young = FALSE
      /\ files = [a \in R!Acquisitions |-> R!NoFile] /\ announced = [a \in R!Acquisitions |-> <<>>]
      /\ analyser = [left |-> 0, of |-> 1, unread |-> <<>>] /\ unkept = FALSE
  BY DEF R!Init
<1>2. ScanTypes
  <2>1. analyser \in Analysers
    <3>1. 0 \in 0..Count /\ 1 \in R!Acquisitions /\ <<>> \in Seq(R!Acquisitions)
      BY NumbersAre DEF R!Acquisitions
    <3> QED BY <1>1, <3>1 DEF Analysers
  <2>2. announced \in [R!Acquisitions -> Seq(Scans)]
    BY <1>1
  <2>3. begun \in 0..Acquired /\ acq \in AcqNumbers
    BY <1>1, NumbersAre DEF AcqNumbers
  <2> QED BY <1>1, <2>1, <2>2, <2>3, AtRest DEF ScanTypes
<1>3. R!NotBegun.state = "none" /\ \A a \in R!Acquisitions : memory[a].state = "none"
  BY <1>1 DEF R!NotBegun
<1>4. TurnInv
  BY <1>1, <1>3 DEF TurnInv, R!Resting, R!Idle, R!NoPending, R!None
<1>5. LengthInv
  BY <1>1, <1>3 DEF LengthInv, R!Resting
<1>6. SavedInv
  BY <1>1 DEF SavedInv, R!AnnouncedAsSaved, R!Idle
<1>7. PendingInv
  BY <1>1 DEF PendingInv, R!NoPending, R!Idle
<1> QED BY <1>2, <1>4, <1>5, <1>6, <1>7 DEF ScanIInv

(* Every step keeps the invariant of the analyser.                         *)
LEMMA ScanStep ==
  ASSUME R!ScanAssumption, ScanIInv, [R!Next]_(R!vars)
  PROVE  ScanIInv'
<1>1. CASE R!Analyser \/ UNCHANGED R!vars
  BY <1>1, AnalyserStep
<1>2. CASE R!MainLoop
  BY <1>2, QuietLoopStep, NewScanStep, LoopKeepsStep, FinishStep DEF R!MainLoop
<1>3. CASE R!Worker
  BY <1>3, QuietWorkerStep, WorkerKeepsStep, FinishStep, BeginStep, SaveStep DEF R!Worker
<1>4. CASE R!Crash \/ R!Close \/ R!Start
  BY <1>4, RestartStep
<1> QED BY <1>1, <1>2, <1>3, <1>4 DEF R!Next

(* It holds in every behaviour.                                            *)
LEMMA ScanInvariant ==
  ASSUME R!ScanAssumption
  PROVE  R!Spec => []ScanIInv
<1>1. R!Init => ScanIInv
  BY ScanInitially
<1>2. ScanIInv /\ [R!Next]_(R!vars) => ScanIInv'
  BY ScanStep
<1> QED BY <1>1, <1>2, PTL DEF R!Spec

(* The types of the invariant are those of the run.                        *)
LEMMA ScanIsTyped == ScanIInv => R!TypeOK
BY DEF ScanIInv, ScanTypes, R!TypeOK, ScanStates, Scans, AcqNumbers, Memories, Collecting,
   Working, OnDisk, SavedFiles

(* What begins a sequence is the front of it.                              *)
LEMMA BeginsIsFront ==
  ASSUME NEW S, NEW p \in Seq(S), NEW s \in Seq(S), Begins(p, s)
  PROVE  p = SubSeq(s, 1, Len(p))
<1> DEFINE front == SubSeq(s, 1, Len(p))
<1>1. Len(p) \in Nat /\ Len(s) \in Nat /\ Len(p) <= Len(s)
      /\ \A i \in 1..Len(p) : p[i] = s[i]
  BY DEF Begins
<1>2. \A i \in 1..Len(p) : s[i] \in S
  BY <1>1
<1>3. /\ front \in Seq(S) /\ Len(front) = IF 1 <= Len(p) THEN Len(p) - 1 + 1 ELSE 0
      /\ \A i \in 1..Len(p) - 1 + 1 : front[i] = s[1 + i - 1]
  BY <1>1, <1>2, SubSeqProperties
<1> HIDE DEF front
<1>4. Len(front) = Len(p)
  BY <1>1, <1>3
<1>5. \A i \in 1..Len(p) : front[i] = p[i]
  BY <1>1, <1>3
<1>6. p = front
  BY <1>3, <1>4, <1>5, SeqEqual
<1> QED BY <1>6 DEF front

(* What pending.json holds is as much as the run asks for.                 *)
LEMMA PendingIsKept ==
  ASSUME R!ScanAssumption, ScanIInv
  PROVE  R!PendingKeepsUp
<1> SUFFICES ASSUME up, acq # R!None, memory[acq].scans # <<>>, ~memory[acq].saved, ~unkept
             PROVE  IF (main.at \in {"publish", "persist"} \/ worker.at = "persist")
                       \/ R!InState(acq, "stopped")
                      THEN pending.of = acq =>
                             pending.scans = SubSeq(memory[acq].scans, 1, Len(pending.scans))
                      ELSE pending.of = acq /\ pending.scans = memory[acq].scans
  BY DEF R!PendingKeepsUp
<1>1. acq \in R!Acquisitions /\ memory[acq].scans \in Seq(R!Acquisitions)
      /\ pending.scans \in Seq(R!Acquisitions)
  BY ScansAre DEF ScanIInv, ScanTypes, AcqNumbers, Memories, OnDisk
<1>2. pending.of = acq => pending.scans = SubSeq(memory[acq].scans, 1, Len(pending.scans))
  BY <1>1, BeginsIsFront DEF ScanIInv, PendingInv
<1> QED BY <1>2 DEF ScanIInv, PendingInv, R!InState

(* TypeOK of RgaScan, for any number of acquisitions and scans.            *)
THEOREM ScanTypesHold == R!Spec => []R!TypeOK
<1>1. R!ScanAssumption
  BY InstrumentsAssumption
<1> QED BY <1>1, ScanIsTyped, ScanInvariant, PTL

(* AnnouncedAsSaved: a measurement is announced once at most, with the     *)
(* scans its file holds whole, across stops, crashes and failed writes,    *)
(* and while the loop goes on recording (_handle_save).                    *)
THEOREM AnnouncementsAreTrue == R!Spec => []AnnouncedAsSaved
<1>1. R!ScanAssumption
  BY InstrumentsAssumption
<1>2. ScanIInv => AnnouncedAsSaved
  BY DEF ScanIInv, SavedInv, AnnouncedAsSaved
<1> QED BY <1>1, <1>2, ScanInvariant, PTL

(* PendingKeepsUp: the scans of the acquisition in memory, until it is     *)
(* saved, are in pending.json, all of them when nobody is about to write   *)
(* it (_collect_scans, _publish_scan, _persist).                           *)
THEOREM UnsavedIsOnDisk == R!Spec => []PendingKeepsUp
<1>1. R!ScanAssumption
  BY InstrumentsAssumption
<1>2. ScanIInv => PendingKeepsUp
  BY <1>1, PendingIsKept DEF PendingKeepsUp
<1> QED BY <1>1, <1>2, ScanInvariant, PTL

-------------------------------------------------------------------------------
(* The port of the temperature controller.                                 *)

PortStates == [is : {"none", "closed", "open"}, object : Nat]
LoopStates == [at : {"rest", "ask", "take", "judge", "identify", "open"},
               query : 1..Len(L!Asks) + 1, failed : 0..Len(L!Asks), reads : 0..ReadsToReconnect]
CommandStates == [at : {"idle", "checked", "enter", "before", "send", "after", "readback",
                        "answer"},
                  object : Nat, wanted : Settings \cup {L!None}, got : L!Replies, held : BOOLEAN]

PortTypes ==
  /\ port \in PortStates /\ portLock \in {"free", "loop", "command"} /\ setting \in Settings
  /\ buffer \in Seq(L!Replies) /\ late \in Seq(L!Replies)
  /\ portLoop \in LoopStates /\ portCommand \in CommandStates
  /\ received \in Nat /\ answered \in Nat /\ okAnswers \in Nat

(* Whoever uses an open port holds its lock: the loop while it waits for   *)
(* an answer, the command from its first question to its last answer, as   *)
(* long as the object it works with is in place.                           *)
LockInv ==
  /\ port.is # "open" => buffer = <<>>
  /\ portCommand.object <= port.object
  /\ portLoop.at = "identify" => port.is = "none"
  /\ portLoop.at = "open" => port.is = "closed"
  /\ portLoop.at = "take" /\ port.is = "open" => portLock = "loop"
  /\ portCommand.at \in {"before", "send", "after", "readback", "answer"} /\ L!InPlace =>
       portLock = "command"
  /\ portCommand.at \in {"after", "readback"} /\ L!InPlace => port.is = "open"

(* An answer in time to the last question is what the instrument held when *)
(* it was asked.                                                           *)
ReadBackInv ==
  /\ \A i \in DOMAIN late : late[i].late
  /\ portCommand.at # "idle" => portCommand.wanted \in Settings
  /\ portCommand.at # "answer" => portCommand.got = L!NoReply
  /\ portCommand.at = "readback" /\ L!Mine /\ buffer # <<>> =>
       buffer[1].late \/ (buffer[1].value = portCommand.wanted => portCommand.held)
  /\ portCommand.at = "answer" /\ L!Confirmed => portCommand.held \/ portCommand.got.late

(* Queries are counted while the loop asks.                                *)
QueryInv ==
  portLoop.at \in {"ask", "take"} =>
    portLoop.query <= Len(L!Asks) /\ portLoop.failed < portLoop.query

PortIInv == PortTypes /\ LockInv /\ ReadBackInv /\ QueryInv

(* The types of the invariant are those of the module.                     *)
LEMMA PortIsTyped == PortTypes => L!TypeOK
BY DEF PortTypes, L!TypeOK, PortStates, LoopStates, CommandStates

(* One read asks two questions.                                            *)
LEMMA AskedFor == Len(L!Asks) = 2 /\ L!Asks[1] = "reading" /\ L!Asks[2] = "setting"
BY DEF L!Asks

(* Which replies there are; none of them is the reply of silence.          *)
LEMMA RepliesAre ==
  ASSUME L!PortAssumption
  PROVE  /\ L!NoReply \in L!Replies /\ L!NoReply.value = L!None /\ L!None \notin Settings
         /\ \A v \in Settings : \A isLate \in BOOLEAN :
              /\ L!Reply(v, isLate) \in L!Replies /\ L!Reply(v, isLate).value = v
              /\ L!Reply(v, isLate).late = isLate
         /\ L!NoCommand \in CommandStates /\ ReadsToReconnect \in Nat \ {0}
BY DEF L!PortAssumption, L!NoReply, L!Reply, L!Replies, L!None, L!NoCommand, CommandStates

(* A question: one answer is there in time, or none.                       *)
LEMMA QuestionAsked ==
  ASSUME L!PortAssumption, NEW answers \in SUBSET Settings, L!Question(answers),
         buffer \in Seq(L!Replies), late \in Seq(L!Replies), \A i \in DOMAIN late : late[i].late
  PROVE  /\ buffer' \in Seq(L!Replies) /\ late' \in Seq(L!Replies)
         /\ \A i \in DOMAIN late' : late'[i].late
         /\ buffer' = <<>> \/ \E v \in answers : buffer' = <<L!Reply(v, FALSE)>>
<1>1. PICK v \in answers :
        \/ buffer' = <<L!Reply(v, FALSE)>> /\ late' = late
        \/ buffer' = <<>> /\ late' = Append(late, L!Reply(v, TRUE))
        \/ buffer' = <<>> /\ late' = late
  BY DEF L!Question
<1> DEFINE inTime == L!Reply(v, FALSE)
           tooLate == L!Reply(v, TRUE)
<1>2. inTime \in L!Replies /\ tooLate \in L!Replies /\ tooLate.late = TRUE
  BY RepliesAre
<1>3. /\ buffer' = <<>> \/ buffer' = <<inTime>>
      /\ late' = late \/ late' = Append(late, tooLate)
  BY <1>1
<1>4. buffer' = <<inTime>> => \E w \in answers : buffer' = <<L!Reply(w, FALSE)>>
  OBVIOUS
<1> HIDE DEF inTime, tooLate
<1>5. buffer' \in Seq(L!Replies)
  <2>1. <<>> \in Seq(L!Replies) /\ <<inTime>> \in Seq(L!Replies)
    BY <1>2
  <2> QED BY <1>3, <2>1
<1>6. CASE late' = late
  BY <1>3, <1>4, <1>5, <1>6
<1>7. CASE late' = Append(late, tooLate)
  <2>1. late' \in Seq(L!Replies) /\ Len(late') = Len(late) + 1 /\ late'[Len(late) + 1] = tooLate
        /\ (\A i \in 1..Len(late) : late'[i] = late[i]) /\ Len(late) \in Nat
        /\ DOMAIN late = 1..Len(late)
    BY <1>2, <1>7, AppendProperties
  <2>2. DOMAIN late' = 1..Len(late) + 1
    BY <2>1
  <2>3. ASSUME NEW i \in DOMAIN late' PROVE late'[i].late
    <3>1. CASE i = Len(late) + 1
      BY <1>2, <2>1, <3>1
    <3>2. CASE i \in 1..Len(late)
      BY <2>1, <3>2
    <3> QED BY <2>1, <2>2, <3>1, <3>2
  <2> QED BY <1>3, <1>4, <1>5, <2>1, <2>3
<1> QED BY <1>3, <1>6, <1>7

(* An answer is taken off the buffer.                                      *)
LEMMA TakenOff ==
  ASSUME PortTypes, L!Taken
  PROVE  buffer' \in Seq(L!Replies) /\ (buffer = <<>> => buffer' = <<>>)
<1>1. CASE buffer = <<>>
  BY <1>1 DEF L!Taken, PortTypes
<1>2. CASE buffer # <<>>
  BY <1>2, HeadTailProperties DEF L!Taken, PortTypes
<1> QED BY <1>1, <1>2

(* A late answer arrives: it is behind those that are there.               *)
LEMMA ArriveStep ==
  ASSUME L!PortAssumption, PortIInv, L!Arrive
  PROVE  PortIInv'
<1>1. /\ late # <<>> /\ late' = Tail(late)
      /\ buffer' = IF port.is = "open" THEN Append(buffer, Head(late)) ELSE buffer
      /\ UNCHANGED <<port, portLock, setting, portLoop, portCommand, received, answered, okAnswers>>
  BY DEF L!Arrive
<1>2. late \in Seq(L!Replies) /\ buffer \in Seq(L!Replies) /\ \A i \in DOMAIN late : late[i].late
  BY DEF PortIInv, PortTypes, ReadBackInv
<1>3. /\ Head(late) \in L!Replies /\ late' \in Seq(L!Replies) /\ Len(late') = Len(late) - 1
      /\ \A i \in 1..Len(late') : late'[i] = late[i + 1]
      /\ Len(late) \in Nat /\ DOMAIN late = 1..Len(late) /\ DOMAIN late' = 1..Len(late')
  BY <1>1, <1>2, HeadTailProperties, LenProperties
<1>4. Head(late) = late[1] /\ Len(late) >= 1
  BY <1>1, <1>2
<1>5. Head(late).late /\ \A i \in DOMAIN late' : late'[i].late
  <2>1. 1 \in DOMAIN late /\ \A i \in DOMAIN late' : i + 1 \in DOMAIN late
    BY <1>3, <1>4
  <2> QED BY <1>2, <1>3, <1>4, <2>1
<1>6. PortTypes'
  <2>1. buffer' \in Seq(L!Replies)
    BY <1>1, <1>2, <1>3, AppendProperties
  <2> QED BY <1>1, <1>3, <2>1 DEF PortIInv, PortTypes
<1>7. LockInv'
  BY <1>1 DEF PortIInv, LockInv, L!InPlace
<1>8. ReadBackInv'
  <2>1. L!Mine /\ buffer' # <<>> =>
          buffer'[1] = Head(late) \/ (buffer # <<>> /\ buffer'[1] = buffer[1])
    BY <1>1, <1>2, <1>3, AppendProperties DEF L!Mine
  <2>2. ASSUME portCommand.at = "readback", L!Mine, buffer' # <<>>
        PROVE  buffer'[1].late \/ (buffer'[1].value = portCommand.wanted => portCommand.held)
    BY <1>5, <2>1, <2>2 DEF PortIInv, ReadBackInv
  <2> QED BY <1>1, <1>5, <2>2 DEF PortIInv, ReadBackInv, L!Mine, L!InPlace, L!Confirmed
<1>9. QueryInv'
  BY <1>1 DEF PortIInv, QueryInv
<1> QED BY <1>6, <1>7, <1>8, <1>9 DEF PortIInv

(* The loop takes the lock of an open port, so no command is at work.      *)
LEMMA LoopAskStep ==
  ASSUME L!PortAssumption, PortIInv, L!LoopAsk
  PROVE  PortIInv'
<1>1. /\ portLoop.at = "ask" /\ portLoop' = [portLoop EXCEPT !.at = "take"]
      /\ UNCHANGED <<port, setting, portCommand, received, answered, okAnswers>>
      /\ portLoop \in LoopStates
  BY DEF L!LoopAsk, L!LoopStep, PortIInv, PortTypes
<1>2. /\ portLoop' \in LoopStates /\ portLoop'.at = "take" /\ portLoop'.query = portLoop.query
      /\ portLoop'.failed = portLoop.failed
  BY <1>1 DEF LoopStates
<1>3. CASE port.is = "open"
  <2>1. PICK answers \in SUBSET Settings : L!Question(answers)
    <3>1. {setting} \in SUBSET Settings /\ Settings \in SUBSET Settings
      BY DEF PortIInv, PortTypes
    <3> QED BY <1>3, <3>1 DEF L!LoopAsk
  <2>2. portLock = "free" /\ portLock' = "loop"
    BY <1>3 DEF L!LoopAsk
  <2>3. /\ buffer' \in Seq(L!Replies) /\ late' \in Seq(L!Replies)
        /\ \A i \in DOMAIN late' : late'[i].late
    BY <2>1, QuestionAsked DEF PortIInv, PortTypes, ReadBackInv
  <2>4. ~(portCommand.at \in {"before", "send", "after", "readback", "answer"} /\ L!InPlace)
    BY <2>2 DEF PortIInv, LockInv
  <2>5. PortTypes'
    BY <1>1, <1>2, <2>2, <2>3 DEF PortIInv, PortTypes
  <2>6. LockInv'
    BY <1>1, <1>2, <1>3, <2>2, <2>4 DEF PortIInv, LockInv, L!InPlace
  <2>7. ReadBackInv'
    BY <1>1, <2>3, <2>4 DEF PortIInv, ReadBackInv, L!Mine, L!InPlace, L!Confirmed
  <2>8. QueryInv'
    BY <1>1, <1>2 DEF PortIInv, QueryInv
  <2> QED BY <2>5, <2>6, <2>7, <2>8 DEF PortIInv
<1>4. CASE port.is # "open"
  <2>1. UNCHANGED <<portLock, buffer, late>>
    BY <1>4 DEF L!LoopAsk
  <2>2. PortTypes'
    BY <1>1, <1>2, <2>1 DEF PortIInv, PortTypes
  <2>3. LockInv'
    BY <1>1, <1>2, <1>4, <2>1 DEF PortIInv, LockInv, L!InPlace
  <2>4. ReadBackInv'
    BY <1>1, <2>1 DEF PortIInv, ReadBackInv, L!Mine, L!InPlace, L!Confirmed
  <2>5. QueryInv'
    BY <1>1, <1>2 DEF PortIInv, QueryInv
  <2> QED BY <2>2, <2>3, <2>4, <2>5 DEF PortIInv
<1> QED BY <1>3, <1>4

(* The loop takes its answer, or gives up.                                 *)
LEMMA LoopTakeStep ==
  ASSUME L!PortAssumption, PortIInv, L!LoopTake
  PROVE  PortIInv'
<1>1. /\ portLoop.at = "take" /\ portLoop \in LoopStates
      /\ portLoop.query <= 2 /\ portLoop.failed < portLoop.query
      /\ portLock' = IF portLock = "loop" THEN "free" ELSE portLock
      /\ L!Taken /\ UNCHANGED <<port, late, setting, portCommand, received, answered, okAnswers>>
  BY AskedFor DEF L!LoopTake, L!LoopStep, L!Released, PortIInv, PortTypes, QueryInv
<1>2. /\ portLoop' \in LoopStates /\ portLoop'.at \in {"judge", "ask"}
      /\ portLoop'.at = "ask" => portLoop'.query <= 2 /\ portLoop'.failed < portLoop'.query
  <2>1. PICK f \in {portLoop.failed, portLoop.failed + 1}, a \in {"judge", "ask"} :
          /\ portLoop' = [portLoop EXCEPT !.failed = f, !.query = @ + 1, !.at = a]
          /\ a = "ask" => portLoop.query # 2
    BY AskedFor DEF L!LoopTake
  <2>2. portLoop.query \in 1..3 /\ portLoop.failed \in 0..2
    BY <1>1, AskedFor DEF LoopStates
  <2>3. /\ portLoop.query + 1 \in 1..Len(L!Asks) + 1
        /\ f \in 0..Len(L!Asks) /\ f < portLoop.query + 1
        /\ portLoop.query + 1 \in 1..3
    BY <1>1, <2>2, AskedFor
  <2>4. /\ portLoop'.query = portLoop.query + 1 /\ portLoop'.failed = f
        /\ portLoop'.at = a /\ portLoop' \in LoopStates
    BY <1>1, <2>1, <2>3 DEF LoopStates
  <2> QED BY <1>1, <2>1, <2>2, <2>3, <2>4
<1>3. buffer' \in Seq(L!Replies) /\ (buffer = <<>> => buffer' = <<>>)
  BY <1>1, TakenOff DEF PortIInv
<1>4. portCommand.at = "readback" /\ L!Mine => FALSE
  BY <1>1 DEF PortIInv, LockInv, L!Mine
<1>5. PortTypes'
  BY <1>1, <1>2, <1>3 DEF PortIInv, PortTypes
<1>6. LockInv'
  BY <1>1, <1>2, <1>3 DEF PortIInv, LockInv, L!InPlace
<1>7. ReadBackInv'
  BY <1>1, <1>4 DEF PortIInv, ReadBackInv, L!Mine, L!InPlace, L!Confirmed
<1>8. QueryInv'
  BY <1>2, AskedFor DEF QueryInv
<1> QED BY <1>5, <1>6, <1>7, <1>8 DEF PortIInv

(* The loop judges its read, and may drop the object and put another in    *)
(* its place.                                                              *)
LEMMA LoopOtherStep ==
  ASSUME L!PortAssumption, PortIInv,
         L!StartRead \/ L!ReadOk \/ L!ReadFails \/ L!Identify \/ L!OpenPort
  PROVE  PortIInv'
<1>1. /\ UNCHANGED <<late, setting, portCommand, received, answered, okAnswers>>
      /\ portLoop \in LoopStates /\ port \in PortStates /\ port.object \in Nat
      /\ portCommand.object \in Nat /\ portCommand.object <= port.object
      /\ ReadsToReconnect \in Nat \ {0}
  BY RepliesAre DEF L!StartRead, L!ReadOk, L!ReadFails, L!Identify, L!OpenPort, L!LoopStep,
     PortIInv, PortTypes, LockInv, PortStates, CommandStates
<1>2. /\ portLoop' \in LoopStates
      /\ portLoop'.at = "ask" => portLoop'.query = 1 /\ portLoop'.failed = 0
      /\ portLoop'.at # "take"
  <2>1. portLoop.reads \in 0..ReadsToReconnect
    BY <1>1 DEF LoopStates
  <2>2. /\ ReadsToReconnect - 1 \in 0..ReadsToReconnect /\ 0 \in 0..ReadsToReconnect
        /\ portLoop.reads + 1 < ReadsToReconnect => portLoop.reads + 1 \in 0..ReadsToReconnect
    BY <1>1, <2>1
  <2>3. 1 \in 1..Len(L!Asks) + 1 /\ 0 \in 0..Len(L!Asks)
    BY AskedFor
  <2>4. CASE L!StartRead
    BY <1>1, <2>3, <2>4 DEF L!StartRead, LoopStates
  <2>5. CASE L!ReadOk
    BY <1>1, <2>2, <2>5 DEF L!ReadOk, LoopStates
  <2>6. CASE L!ReadFails
    BY <1>1, <2>2, <2>6 DEF L!ReadFails, LoopStates
  <2>7. CASE L!Identify
    BY <1>1, <2>7 DEF L!Identify, LoopStates
  <2>8. CASE L!OpenPort
    BY <1>1, <2>2, <2>8 DEF L!OpenPort, LoopStates
  <2> QED BY <2>4, <2>5, <2>6, <2>7, <2>8
<1>3. \/ /\ UNCHANGED <<port, portLock, buffer>> /\ portLoop'.at \notin {"identify", "open", "take"}
      \/ /\ port'.is = "none" /\ port'.object = port.object /\ port' \in PortStates
         /\ portLock' = "free" /\ buffer' = <<>> /\ portLoop'.at = "identify"
      \/ /\ port' = [is |-> "closed", object |-> port.object + 1] /\ port' \in PortStates
         /\ port.is = "none" /\ portLoop'.at = "open" /\ UNCHANGED <<portLock, buffer>>
      \/ /\ port'.is = "open" /\ port'.object = port.object /\ port' \in PortStates
         /\ port.is = "closed" /\ portLoop'.at = "rest" /\ UNCHANGED <<portLock, buffer>>
  <2>1. CASE L!StartRead \/ L!ReadOk
    BY <1>1, <2>1 DEF L!StartRead, L!ReadOk, LoopStates
  <2>2. CASE L!ReadFails
    BY <1>1, <2>2 DEF L!ReadFails, LoopStates, PortStates
  <2>3. CASE L!Identify
    BY <1>1, <2>3 DEF L!Identify, LoopStates, PortStates, PortIInv, LockInv
  <2>4. CASE L!OpenPort
    BY <1>1, <2>4 DEF L!OpenPort, LoopStates, PortStates, PortIInv, LockInv
  <2> QED BY <2>1, <2>2, <2>3, <2>4
<1>4. PortTypes'
  <2>1. <<>> \in Seq(L!Replies)
    OBVIOUS
  <2> QED BY <1>1, <1>2, <1>3, <2>1 DEF PortIInv, PortTypes
<1>5. LockInv'
  BY <1>1, <1>2, <1>3 DEF PortIInv, LockInv, L!InPlace
<1>6. ReadBackInv'
  <2>1. ASSUME portCommand.at = "readback", L!Mine'
        PROVE  L!Mine /\ buffer' = buffer
    BY <1>1, <1>3, <2>1 DEF L!Mine, L!InPlace, PortIInv, LockInv
  <2> QED BY <1>1, <2>1 DEF PortIInv, ReadBackInv, L!Confirmed
<1>7. QueryInv'
  BY <1>2, AskedFor DEF QueryInv
<1> QED BY <1>4, <1>5, <1>6, <1>7 DEF PortIInv

(* The command thread, before it is at work on the port.                   *)
LEMMA CommandStartStep ==
  ASSUME L!PortAssumption, PortIInv,
         (\E v \in Settings : L!Receive(v)) \/ L!PickDevice \/ L!DeviceGone
  PROVE  PortIInv'
<1>1. UNCHANGED <<port, portLoop, portLock, setting, buffer, late, answered, okAnswers>>
  BY DEF L!Receive, L!PickDevice, L!DeviceGone, L!CommandStep
<1>2. /\ port \in PortStates /\ portCommand \in CommandStates
      /\ received \in Nat /\ port.object \in Nat
  BY DEF PortIInv, PortTypes, PortStates
<1>3. /\ portCommand' \in CommandStates /\ portCommand'.object <= port.object
      /\ portCommand'.at \in {"idle", "checked", "enter"} /\ portCommand'.got = L!NoReply
      /\ portCommand'.at # "idle" => portCommand'.wanted \in Settings
      /\ received' \in Nat
  <2>1. CASE \E v \in Settings : L!Receive(v)
    <3>1. PICK v \in Settings : L!Receive(v)
      BY <2>1
    <3>2. /\ portCommand' = [L!NoCommand EXCEPT !.at = "checked", !.wanted = v]
          /\ received' = received + 1
      BY <3>1 DEF L!Receive
    <3>3. portCommand' = [at |-> "checked", object |-> 0, wanted |-> v, got |-> L!NoReply,
                          held |-> FALSE]
      BY <3>2 DEF L!NoCommand
    <3>4. L!NoReply \in L!Replies /\ 0 <= port.object /\ received' \in Nat
      BY <1>2, <3>2, RepliesAre
    <3>5. portCommand' \in CommandStates
      BY <3>3, <3>4 DEF CommandStates
    <3> QED BY <3>3, <3>4, <3>5
  <2>2. CASE L!PickDevice
    <3>1. /\ portCommand.at = "checked" /\ UNCHANGED received
          /\ portCommand' = [portCommand EXCEPT !.at = "enter", !.object = port.object]
      BY <2>2 DEF L!PickDevice
    <3>2. portCommand.got = L!NoReply /\ portCommand.wanted \in Settings
      BY <3>1 DEF PortIInv, ReadBackInv
    <3>3. portCommand' \in CommandStates
      BY <1>2, <3>1 DEF CommandStates
    <3>4. /\ portCommand'.object = port.object /\ portCommand'.at = "enter"
          /\ portCommand'.got = portCommand.got /\ portCommand'.wanted = portCommand.wanted
      BY <1>2, <3>1 DEF CommandStates
    <3> QED BY <1>2, <3>1, <3>2, <3>3, <3>4
  <2>3. CASE L!DeviceGone
    <3>1. portCommand' = L!NoCommand /\ UNCHANGED received
      BY <2>3 DEF L!DeviceGone
    <3> QED BY <1>2, <3>1, RepliesAre DEF L!NoCommand
  <2> QED BY <2>1, <2>2, <2>3
<1>4. PortTypes'
  BY <1>1, <1>3 DEF PortIInv, PortTypes
<1>5. LockInv'
  BY <1>1, <1>3 DEF PortIInv, LockInv
<1>6. ReadBackInv'
  BY <1>1, <1>3 DEF PortIInv, ReadBackInv
<1>7. QueryInv'
  BY <1>1 DEF PortIInv, QueryInv
<1> QED BY <1>4, <1>5, <1>6, <1>7 DEF PortIInv

(* The command thread at work: it keeps the lock, and what it read back    *)
(* in time is what the instrument held.                                    *)
LEMMA CommandWorkStep ==
  ASSUME L!PortAssumption, PortIInv, L!Enter \/ L!TakeBefore \/ L!Send \/ L!AskAfter
  PROVE  PortIInv'
<1>1. /\ UNCHANGED <<port, portLoop, received, answered, okAnswers>>
      /\ portCommand \in CommandStates /\ port \in PortStates /\ setting \in Settings
      /\ buffer \in Seq(L!Replies) /\ late \in Seq(L!Replies) /\ <<>> \in Seq(L!Replies)
      /\ portCommand.at \in {"enter", "before", "send", "after"}
  BY DEF L!Enter, L!TakeBefore, L!Send, L!AskAfter, L!CommandStep, PortIInv, PortTypes
<1>2. PICK held \in BOOLEAN, where \in {"before", "send", "after", "readback", "answer"} :
        /\ portCommand' = [portCommand EXCEPT !.at = where, !.held = held]
        /\ <<portCommand.at, where>> \in {<<"enter", "before">>, <<"before", "send">>,
              <<"send", "after">>, <<"send", "answer">>, <<"after", "readback">>}
        /\ where = "readback" => held = (setting = portCommand.wanted)
        /\ where = "after" => L!Mine
  <2>1. CASE L!Enter \/ L!TakeBefore \/ L!Send
    <3>1. portCommand.held \in BOOLEAN
      BY <1>1 DEF CommandStates
    <3>2. \A w : [portCommand EXCEPT !.at = w]
                  = [portCommand EXCEPT !.at = w, !.held = portCommand.held]
      BY <1>1 DEF CommandStates
    <3>3. PICK where \in {"before", "send", "after", "answer"} :
            /\ portCommand' = [portCommand EXCEPT !.at = where]
            /\ <<portCommand.at, where>> \in {<<"enter", "before">>, <<"before", "send">>,
                  <<"send", "after">>, <<"send", "answer">>}
            /\ where = "after" => L!Mine
      BY <2>1 DEF L!Enter, L!TakeBefore, L!Send, L!Goes
    <3> QED BY <3>1, <3>2, <3>3
  <2>2. CASE L!AskAfter
    <3>1. /\ portCommand.at = "after"
          /\ portCommand' = [portCommand EXCEPT !.at = "readback",
                                                !.held = (setting = portCommand.wanted)]
      BY <2>2 DEF L!AskAfter
    <3>2. (setting = portCommand.wanted) \in BOOLEAN
      OBVIOUS
    <3> QED BY <3>1, <3>2
  <2> QED BY <2>1, <2>2
<1>3. /\ portCommand' \in CommandStates /\ portCommand'.at = where /\ portCommand'.held = held
      /\ portCommand'.object = portCommand.object /\ portCommand'.wanted = portCommand.wanted
      /\ portCommand'.got = portCommand.got
  BY <1>1, <1>2 DEF CommandStates
<1>4. L!InPlace' <=> L!InPlace
  BY <1>1, <1>3 DEF L!InPlace
<1>5. /\ portCommand.got = L!NoReply /\ portCommand.wanted \in Settings /\ L!NoReply.value = L!None
      /\ portCommand.wanted # L!None
  <2>1. portCommand.got = L!NoReply /\ portCommand.wanted \in Settings
    BY <1>1 DEF PortIInv, ReadBackInv
  <2> QED BY <2>1, RepliesAre
<1>6. /\ setting' \in Settings /\ portLock' \in {"free", "loop", "command"}
      /\ buffer' \in Seq(L!Replies) /\ late' \in Seq(L!Replies)
      /\ \A i \in DOMAIN late' : late'[i].late
      /\ ~L!Mine => buffer' = buffer
      /\ portCommand.at = "after" /\ L!Mine =>
           buffer' = <<>> \/ buffer' = <<L!Reply(setting, FALSE)>>
  <2>1. /\ {setting} \in SUBSET Settings /\ \A i \in DOMAIN late : late[i].late
        /\ portLock \in {"free", "loop", "command"}
    BY <1>1 DEF PortIInv, PortTypes, ReadBackInv
  <2>2. L!Question({setting}) =>
          /\ buffer' \in Seq(L!Replies) /\ late' \in Seq(L!Replies)
          /\ \A i \in DOMAIN late' : late'[i].late
          /\ buffer' = <<>> \/ buffer' = <<L!Reply(setting, FALSE)>>
    BY <1>1, <2>1, QuestionAsked
  <2>3. CASE L!Enter
    BY <1>1, <2>1, <2>2, <2>3 DEF L!Enter, L!TakeLock
  <2>4. CASE L!TakeBefore
    BY <1>1, <2>1, <2>4, TakenOff DEF L!TakeBefore, PortIInv
  <2>5. CASE L!Send
    BY <1>1, <1>5, <2>1, <2>5 DEF L!Send
  <2>6. CASE L!AskAfter
    BY <1>1, <2>1, <2>2, <2>6 DEF L!AskAfter
  <2> QED BY <2>3, <2>4, <2>5, <2>6
<1>7. /\ portLock = "command" => portLock' = "command"
      /\ portLock' # portLock => portLock = "free" /\ portLock' = "command"
      /\ where = "before" /\ L!InPlace => portLock' = "command"
  BY <1>1, <1>2 DEF L!Enter, L!TakeBefore, L!Send, L!AskAfter, L!TakeLock
<1>8. PortTypes'
  BY <1>1, <1>3, <1>6 DEF PortIInv, PortTypes
<1>9. LockInv'
  <2>1. where # "before" /\ L!InPlace => portLock = "command"
    BY <1>2 DEF PortIInv, LockInv
  <2>2. where \in {"after", "readback"} /\ L!InPlace => port.is = "open"
    BY <1>2 DEF PortIInv, LockInv, L!Mine
  <2>3. portLoop.at = "take" /\ port.is = "open" => portLock' = "loop"
    BY <1>7 DEF PortIInv, LockInv
  <2>4. port.is # "open" => buffer' = <<>>
    BY <1>6 DEF PortIInv, LockInv, L!Mine
  <2> QED BY <1>1, <1>3, <1>4, <1>7, <2>1, <2>2, <2>3, <2>4 DEF PortIInv, LockInv
<1>10. ReadBackInv'
  <2>1. where = "readback" /\ L!Mine /\ buffer' # <<>> /\ buffer'[1].value = portCommand.wanted
          => held
    <3>1. L!Reply(setting, FALSE).value = setting
      BY <1>1, RepliesAre
    <3>2. <<L!Reply(setting, FALSE)>>[1] = L!Reply(setting, FALSE)
      OBVIOUS
    <3> QED BY <1>2, <1>6, <3>1, <3>2
  <2>2. L!Mine' <=> L!Mine
    BY <1>1, <1>4 DEF L!Mine
  <2>3. ~L!Confirmed'
    BY <1>3, <1>5 DEF L!Confirmed
  <2> QED BY <1>3, <1>5, <1>6, <2>1, <2>2, <2>3 DEF ReadBackInv
<1>11. QueryInv'
  BY <1>1 DEF PortIInv, QueryInv
<1> QED BY <1>8, <1>9, <1>10, <1>11 DEF PortIInv

(* The answer is read back, and given.                                     *)
LEMMA CommandEndStep ==
  ASSUME L!PortAssumption, PortIInv, L!TakeAfter \/ L!GiveAnswer
  PROVE  PortIInv'
<1>1. /\ UNCHANGED <<port, portLoop, setting, late, received>>
      /\ portCommand \in CommandStates /\ port \in PortStates
      /\ buffer \in Seq(L!Replies) /\ portLock \in {"free", "loop", "command"}
      /\ answered \in Nat /\ okAnswers \in Nat
  BY DEF L!TakeAfter, L!GiveAnswer, L!CommandStep, PortIInv, PortTypes
<1>2. CASE L!TakeAfter
  <2> DEFINE got == IF L!Mine THEN L!Answer ELSE L!NoReply
  <2>1. /\ portCommand.at = "readback"
        /\ portCommand' = [portCommand EXCEPT !.at = "answer", !.got = got]
        /\ UNCHANGED <<portLock, answered, okAnswers>>
    BY <1>2 DEF L!TakeAfter
  <2>2. got = L!NoReply \/ (L!Mine /\ buffer # <<>> /\ got = buffer[1] /\ got \in L!Replies)
    <3>1. buffer # <<>> => Head(buffer) = buffer[1] /\ buffer[1] \in L!Replies
      BY <1>1
    <3> QED BY <3>1 DEF L!Answer
  <2> HIDE DEF got
  <2>3. L!NoReply \in L!Replies /\ L!NoReply.value = L!None /\ portCommand.wanted \in Settings
        /\ portCommand.wanted # L!None
    BY <2>1, RepliesAre DEF PortIInv, ReadBackInv
  <2>4. /\ portCommand' \in CommandStates /\ portCommand'.at = "answer" /\ portCommand'.got = got
        /\ portCommand'.wanted = portCommand.wanted /\ portCommand'.held = portCommand.held
        /\ portCommand'.object = portCommand.object
    BY <1>1, <2>1, <2>2, <2>3 DEF CommandStates
  <2>5. buffer' \in Seq(L!Replies) /\ (buffer = <<>> => buffer' = <<>>)
    BY <1>1, <1>2, TakenOff DEF L!TakeAfter, PortIInv
  <2>6. PortTypes'
    BY <1>1, <2>1, <2>4, <2>5 DEF PortIInv, PortTypes
  <2>7. LockInv'
    BY <1>1, <2>1, <2>4, <2>5 DEF PortIInv, LockInv, L!InPlace
  <2>8. got.value = portCommand.wanted => portCommand.held \/ got.late
    BY <2>1, <2>2, <2>3 DEF PortIInv, ReadBackInv
  <2>9. ReadBackInv'
    BY <1>1, <2>3, <2>4, <2>8 DEF PortIInv, ReadBackInv, L!Confirmed
  <2>10. QueryInv'
    BY <1>1 DEF PortIInv, QueryInv
  <2> QED BY <2>6, <2>7, <2>9, <2>10 DEF PortIInv
<1>3. CASE L!GiveAnswer
  <2>1. /\ portCommand' = L!NoCommand /\ answered' = answered + 1 /\ UNCHANGED buffer
        /\ okAnswers' \in {okAnswers, okAnswers + 1}
        /\ portLock' = IF portLock = "command" THEN "free" ELSE portLock
    BY <1>3 DEF L!GiveAnswer
  <2>2. /\ L!NoCommand \in CommandStates /\ L!NoCommand.at = "idle" /\ L!NoCommand.object = 0
        /\ L!NoCommand.got = L!NoReply
    BY RepliesAre DEF L!NoCommand
  <2>3. PortTypes'
    BY <1>1, <2>1, <2>2 DEF PortIInv, PortTypes
  <2>4. LockInv'
    <3>1. 0 <= port.object
      BY <1>1 DEF PortStates
    <3> QED BY <1>1, <2>1, <2>2, <3>1 DEF PortIInv, LockInv
  <2>5. ReadBackInv'
    BY <1>1, <2>1, <2>2 DEF PortIInv, ReadBackInv
  <2>6. QueryInv'
    BY <1>1 DEF PortIInv, QueryInv
  <2> QED BY <2>3, <2>4, <2>5, <2>6 DEF PortIInv
<1> QED BY <1>2, <1>3

(* Nobody has asked anything yet.                                          *)
LEMMA PortInitially ==
  ASSUME L!PortAssumption, L!Init
  PROVE  PortIInv
<1>1. /\ port = [is |-> "open", object |-> 0] /\ portLock = "free" /\ setting \in Settings
      /\ buffer = <<>> /\ late = <<>> /\ portCommand = L!NoCommand
      /\ portLoop = [at |-> "rest", query |-> 1, failed |-> 0, reads |-> 0]
      /\ received = 0 /\ answered = 0 /\ okAnswers = 0
  BY DEF L!Init
<1>2. /\ L!NoCommand \in CommandStates /\ L!NoCommand.at = "idle" /\ L!NoCommand.object = 0
      /\ L!NoCommand.got = L!NoReply /\ ReadsToReconnect \in Nat
  BY RepliesAre DEF L!NoCommand
<1>3. PortTypes
  <2>1. portLoop \in LoopStates
    BY <1>1, <1>2, AskedFor DEF LoopStates
  <2>2. <<>> \in Seq(L!Replies) /\ port \in PortStates
    BY <1>1 DEF PortStates
  <2> QED BY <1>1, <1>2, <2>1, <2>2 DEF PortTypes
<1>4. LockInv /\ QueryInv
  BY <1>1, <1>2 DEF LockInv, QueryInv
<1>5. ReadBackInv
  BY <1>1, <1>2 DEF ReadBackInv
<1> QED BY <1>3, <1>4, <1>5 DEF PortIInv

(* Every step keeps the invariant of the port.                             *)
LEMMA PortStep ==
  ASSUME L!PortAssumption, PortIInv, [L!Next]_(L!vars)
  PROVE  PortIInv'
<1>1. CASE UNCHANGED L!vars
  BY <1>1 DEF L!vars, PortIInv, PortTypes, LockInv, ReadBackInv, QueryInv, L!InPlace, L!Mine,
     L!Confirmed
<1>2. CASE \E v \in Settings : L!FrontPanel(v)
  BY <1>2 DEF L!FrontPanel, PortIInv, PortTypes, LockInv, ReadBackInv, QueryInv, L!InPlace,
     L!Mine, L!Confirmed
<1>3. CASE L!Arrive \/ L!Loop \/ L!Command \/ \E v \in Settings : L!Receive(v)
  BY <1>3, ArriveStep, LoopAskStep, LoopTakeStep, LoopOtherStep, CommandStartStep,
     CommandWorkStep, CommandEndStep DEF L!Loop, L!Command
<1> QED BY <1>1, <1>2, <1>3 DEF L!Next

(* It holds in every behaviour.                                            *)
LEMMA PortInvariant ==
  ASSUME L!PortAssumption
  PROVE  L!Spec => []PortIInv
<1>1. L!Init => PortIInv
  BY PortInitially
<1>2. PortIInv /\ [L!Next]_(L!vars) => PortIInv'
  BY PortStep
<1> QED BY <1>1, <1>2, PTL DEF L!Spec

(* Only an answer is counted as ok, and it is one that was confirmed.      *)
LEMMA OkIsConfirmed ==
  ASSUME PortIInv, [L!Next]_(L!vars)
  PROVE  okAnswers' = okAnswers + 1 => portCommand.held \/ portCommand.got.late
<1>1. okAnswers \in Nat
  BY DEF PortIInv, PortTypes
<1>2. CASE L!GiveAnswer
  BY <1>1, <1>2 DEF L!GiveAnswer, PortIInv, ReadBackInv
<1>3. ~L!GiveAnswer => okAnswers' = okAnswers
  BY DEF L!Next, L!Arrive, L!Loop, L!Command, L!FrontPanel, L!Receive, L!StartRead, L!LoopAsk,
     L!LoopTake, L!ReadOk, L!ReadFails, L!Identify, L!OpenPort, L!LoopStep, L!PickDevice,
     L!DeviceGone, L!Enter, L!TakeBefore, L!Send, L!AskAfter, L!TakeAfter, L!vars
<1> QED BY <1>1, <1>2, <1>3

(* TypeOK of LakeshorePort.                                                *)
THEOREM PortTypesHold == L!Spec => []L!TypeOK
<1>1. L!PortAssumption
  BY InstrumentsAssumption
<1>2. PortIInv => L!TypeOK
  BY PortIsTyped DEF PortIInv
<1> QED BY <1>1, <1>2, PortInvariant, PTL

(* OkMeansHeld: a command is answered ok only when the instrument held the *)
(* value it asked for when it was read back, or when the answer that said  *)
(* so was a late one to an earlier question (transaction,                  *)
(* _handle_setpoint, _handle_range).                                       *)
THEOREM OkIsHonest == L!Spec => OkMeansHeld
<1>1. L!PortAssumption
  BY InstrumentsAssumption
<1>2. PortIInv /\ [L!Next]_(L!vars) =>
        [okAnswers' = okAnswers + 1 => portCommand.held \/ portCommand.got.late]_(L!vars)
  BY OkIsConfirmed
<1> QED BY <1>1, <1>2, PortInvariant, PTL DEF L!Spec, OkMeansHeld, L!OkMeansHeld

-------------------------------------------------------------------------------
(* The tap on the turbo pump.                                              *)

(* Ages never go beyond Horizon, no pause is longer than MaxPause, and the *)
(* DCU asks for nothing twice in a turn.                                   *)
TapTypes ==
  /\ asking \in Seq(Params) /\ T!IsInjective(asking)
  /\ heard \in [Params -> 0..T!Horizon] /\ latest \in [Params -> 0..T!Horizon]
  /\ tapBuffer \subseteq Params /\ plugged \in BOOLEAN /\ tapPort \in BOOLEAN
  /\ at \in {"listen", "read", "lost", "stopped"}
  /\ left \in 0..Listening /\ due \in 0..MaxPause
  /\ shown \in [Params -> {"none", "ok", "error"}]

(* What waits in the buffer came since the last poll; what was polled was  *)
(* on the bus a pause before that at most; and what is shown as ok has     *)
(* not become too old before the loop goes on.                             *)
AgeInv ==
  /\ at = "lost" => tapBuffer = {}
  /\ T!HasPort => \A p \in tapBuffer : heard[p] + due <= MaxPause
  /\ \A p \in Params : latest[p] # T!Never => heard[p] <= latest[p] + MaxPause
  /\ \A p \in Params : shown[p] = "ok" =>
       at = "read" /\ latest[p] + due <= MaxAge + MaxPause

(* While the DCU asks for all of them in turn and nothing is lost, a       *)
(* parameter that has had its turn since the port was opened waits in the  *)
(* buffer or was polled since that turn, and one that has not is unknown.  *)
Since(i) == Len(asking) - i + 1     \* ticks since asking[i] had its turn

InTurnInv ==
  calm =>
    /\ tapPort /\ Params \subseteq T!Asked
    /\ T!HasPort => \A i \in DOMAIN asking :
         IF at = "listen" /\ Since(i) > Listening - left
           THEN asking[i] \notin tapBuffer /\ latest[asking[i]] = T!Never
           ELSE asking[i] \in tapBuffer \/ latest[asking[i]] <= Since(i)

TapInv == TapTypes /\ AgeInv /\ InTurnInv

(* The module has instances of its own of the operators of its libraries.  *)
LEMMA TapOperators ==
  /\ \A S : T!Cardinality(S) = Cardinality(S)
  /\ \A S : T!IsFiniteSet(S) <=> IsFiniteSet(S)
  /\ \A f : T!IsInjective(f) <=> IsInjective(f)
BY DEF T!Cardinality, Cardinality, T!IsFiniteSet, IsFiniteSet, T!IsInjective, IsInjective

(* What the constants are. *)
LEMMA TapConstants ==
  ASSUME T!TapAssumption
  PROVE  /\ MaxPause \in Nat \ {0} /\ MaxAge \in Nat /\ Listening \in Nat
         /\ T!Horizon = MaxAge + 2 * MaxPause + 1 /\ T!Horizon \in Nat /\ T!Never = T!Horizon
         /\ IsFiniteSet(Params) /\ Cardinality(Params) \in Nat /\ Params # {}
         /\ Cardinality(Params) <= MaxAge /\ Cardinality(Params) <= Listening
<1>1. IsFiniteSet(Params) /\ Params # {} /\ MaxPause \in Nat \ {0} /\ MaxAge \in Nat
      /\ Listening \in Nat /\ MaxAge >= Cardinality(Params) + MaxPause
      /\ Listening >= Cardinality(Params)
  BY TapOperators DEF T!TapAssumption
<1>2. Cardinality(Params) \in Nat
  BY <1>1, FS_CardinalityType
<1>3. T!Horizon = MaxAge + 2 * MaxPause + 1 /\ T!Horizon \in Nat /\ T!Never = T!Horizon
  BY <1>1 DEF T!Horizon, T!Never
<1>4. Cardinality(Params) <= MaxAge /\ Cardinality(Params) <= Listening
  BY <1>1, <1>2
<1> QED BY <1>1, <1>2, <1>3, <1>4

(* Ages. *)
LEMMA Ages ==
  ASSUME T!TapAssumption
  PROVE  /\ \A a \in 0..T!Horizon : T!Older(a) \in 0..T!Horizon /\ T!Older(a) <= a + 1
         /\ \A a \in 0..T!Horizon : T!Older(a) # T!Never => a # T!Never /\ T!Older(a) = a + 1
         /\ T!Older(T!Never) = T!Never /\ 0 \in 0..T!Horizon /\ T!Never \in 0..T!Horizon
         /\ T!Never # 0
BY TapConstants DEF T!Older

(* What was polled. *)
LEMMA PolledIs ==
  ASSUME T!TapAssumption, TapTypes
  PROVE  /\ T!Polled \in [Params -> 0..T!Horizon]
         /\ \A p \in tapBuffer : T!Polled[p] = 0
         /\ \A p \in Params \ tapBuffer : T!Polled[p] = latest[p]
BY Ages DEF TapTypes, T!Polled

(* A turn: the sequence goes round. *)
LEMMA TurnIs ==
  ASSUME TapTypes, asking # <<>>
  PROVE  /\ T!Turn \in Seq(Params) /\ Len(T!Turn) = Len(asking) /\ Len(asking) \in Nat \ {0}
         /\ \A i \in 1..Len(asking) :
              T!Turn[i] = IF i = Len(asking) THEN asking[1] ELSE asking[i + 1]
         /\ Head(asking) = asking[1] /\ asking[1] \in Params
         /\ DOMAIN asking = 1..Len(asking) /\ DOMAIN T!Turn = 1..Len(asking)
<1> DEFINE n == Len(asking)
           rest == Tail(asking)
<1>1. asking \in Seq(Params) /\ n \in Nat \ {0} /\ DOMAIN asking = 1..n
  BY EmptySeq, LenProperties DEF TapTypes
<1>2. /\ Head(asking) = asking[1] /\ rest \in Seq(Params) /\ Len(rest) = n - 1
      /\ \A i \in 1..Len(rest) : rest[i] = asking[i + 1]
  BY <1>1, HeadTailProperties
<1>3. asking[1] \in Params
  BY <1>1
<1> HIDE DEF rest
<1>4. T!Turn = Append(rest, asking[1])
  BY <1>2 DEF T!Turn, rest
<1>5. /\ T!Turn \in Seq(Params) /\ Len(T!Turn) = Len(rest) + 1
      /\ \A i \in 1..Len(rest) : T!Turn[i] = rest[i]
      /\ T!Turn[Len(rest) + 1] = asking[1]
  BY <1>2, <1>3, <1>4, AppendProperties
<1>6. Len(rest) + 1 = n /\ DOMAIN T!Turn = 1..n
  BY <1>1, <1>2, <1>5
<1>7. ASSUME NEW i \in 1..n PROVE T!Turn[i] = IF i = n THEN asking[1] ELSE asking[i + 1]
  <2>1. CASE i = n
    BY <1>5, <1>6, <2>1
  <2>2. CASE i # n
    <3>1. i \in 1..Len(rest)
      <4>1. i \in 1..n /\ n \in Nat /\ Len(rest) = n - 1
        BY <1>1, <1>2, <1>7
      <4> HIDE DEF n
      <4> QED BY <2>2, <4>1
    <3> QED BY <1>2, <1>5, <2>2, <3>1
  <2> QED BY <2>1, <2>2
<1> QED BY <1>1, <1>2, <1>3, <1>5, <1>6, <1>7

(* All parameters in turn: as many as there are. *)
LEMMA AsManyAsParams ==
  ASSUME T!TapAssumption, TapTypes, Params \subseteq T!Asked
  PROVE  Len(asking) = Cardinality(Params) /\ asking # <<>>
<1>1. asking \in Seq(Params)
  BY DEF TapTypes
<1>2. \A i \in DOMAIN asking : \A j \in DOMAIN asking : asking[i] = asking[j] => i = j
  BY DEF TapTypes, T!IsInjective
<1>3. Cardinality({asking[i] : i \in DOMAIN asking}) = Len(asking)
  BY <1>1, <1>2, AsLongAsItHolds
<1>4. {asking[i] : i \in DOMAIN asking} = Params
  BY <1>1 DEF T!Asked, T!ToSet
<1>5. asking # <<>>
  BY <1>4, TapConstants
<1> QED BY <1>3, <1>4, <1>5

(* Somebody sets the DCU: nothing stands twice in its turn. *)
LEMMA SetDcuStep ==
  ASSUME T!TapAssumption, TapInv, T!SetDcu
  PROVE  TapInv'
<1>1. /\ asking \in Seq(Params) /\ DOMAIN asking = 1..Len(asking) /\ Len(asking) \in Nat
      /\ \A i \in DOMAIN asking : \A j \in DOMAIN asking : asking[i] = asking[j] => i = j
  BY DEF TapInv, TapTypes, T!IsInjective
<1>2. asking' \in Seq(Params) /\ T!IsInjective(asking')
  <2>1. CASE \E p \in Params \ T!Asked : asking' = Append(asking, p)
    <3>1. PICK p \in Params \ T!Asked : asking' = Append(asking, p)
      BY <2>1
    <3>2. \A i \in DOMAIN asking : asking[i] # p
      BY <3>1 DEF T!Asked, T!ToSet
    <3>3. /\ asking' \in Seq(Params) /\ Len(asking') = Len(asking) + 1
          /\ \A i \in 1..Len(asking) : asking'[i] = asking[i]
          /\ asking'[Len(asking) + 1] = p
      BY <1>1, <3>1, AppendProperties
    <3>4. DOMAIN asking' = 1..Len(asking) + 1
      BY <1>1, <3>3
    <3>5. ASSUME NEW i \in DOMAIN asking', NEW j \in DOMAIN asking', asking'[i] = asking'[j]
          PROVE  i = j
      BY <1>1, <3>2, <3>3, <3>4, <3>5
    <3> QED BY <3>3, <3>5 DEF T!IsInjective
  <2>2. CASE \E k \in DOMAIN asking : asking' = T!RemoveAt(asking, k)
    <3>1. PICK k \in DOMAIN asking : asking' = T!RemoveAt(asking, k)
      BY <2>2
    <3> DEFINE n == Len(asking)
               front == SubSeq(asking, 1, k - 1)
               rest == SubSeq(asking, k + 1, n)
    <3> HIDE DEF n
    <3>6. k \in 1..n /\ n \in Nat /\ DOMAIN asking = 1..n /\ \A i \in 1..n : asking[i] \in Params
      BY <1>1 DEF n
    <3>2. /\ front \in Seq(Params) /\ Len(front) = k - 1
          /\ \A i \in 1..k - 1 : front[i] = asking[i]
      <4>1. \A i \in 1..k - 1 : asking[i] \in Params
        BY <3>6
      <4>2. k - 1 \in Nat /\ (k - 1) - 1 + 1 = k - 1
        BY <3>6
      <4>3. /\ front \in Seq(Params) /\ Len(front) = IF 1 <= k - 1 THEN k - 1 - 1 + 1 ELSE 0
            /\ \A i \in 1..k - 1 - 1 + 1 : front[i] = asking[1 + i - 1]
        BY <4>1, <4>2, SubSeqProperties
      <4> HIDE DEF front
      <4> QED BY <4>2, <4>3, <3>6
    <3>3. /\ rest \in Seq(Params) /\ Len(rest) = n - k
          /\ \A i \in 1..n - k : rest[i] = asking[k + i]
      <4>1. \A i \in k + 1..n : asking[i] \in Params
        BY <3>6
      <4>2. k + 1 \in Int /\ n \in Int
        BY <3>6
      <4>3. /\ rest \in Seq(Params) /\ Len(rest) = IF k + 1 <= n THEN n - (k + 1) + 1 ELSE 0
            /\ \A i \in 1..n - (k + 1) + 1 : rest[i] = asking[k + 1 + i - 1]
        BY <4>1, <4>2, SubSeqProperties
      <4> HIDE DEF rest
      <4>4. Len(rest) = n - k
        BY <4>2, <4>3, <3>6
      <4>5. ASSUME NEW i \in 1..n - k PROVE rest[i] = asking[k + i]
        <5>1. i \in 1..n - (k + 1) + 1 /\ k + 1 + i - 1 = k + i
          BY <3>6
        <5>2. rest[i] = asking[k + 1 + i - 1]
          BY <4>3, <5>1
        <5> QED BY <5>1, <5>2
      <4> QED BY <4>3, <4>4, <4>5
    <3> HIDE DEF front, rest
    <3>4. asking' = front \o rest
      BY <3>1 DEF T!RemoveAt, front, rest, n
    <3>5. /\ asking' \in Seq(Params) /\ Len(asking') = Len(front) + Len(rest)
          /\ \A i \in 1..Len(front) + Len(rest) :
               asking'[i] = IF i <= Len(front) THEN front[i] ELSE rest[i - Len(front)]
      BY <3>2, <3>3, <3>4, ConcatProperties
    <3>9. DOMAIN asking' = 1..n - 1
      BY <3>2, <3>3, <3>5, <3>6
    <3> DEFINE was(i) == IF i < k THEN i ELSE i + 1
    <3>7. ASSUME NEW i \in 1..n - 1 PROVE was(i) \in 1..n /\ asking'[i] = asking[was(i)]
      <4>1. asking'[i] = IF i <= k - 1 THEN front[i] ELSE rest[i - (k - 1)]
        BY <3>2, <3>3, <3>5, <3>6
      <4>2. CASE i < k
        <5>1. i \in 1..k - 1 /\ i <= k - 1 /\ was(i) = i /\ i \in 1..n
          BY <3>6, <4>2
        <5> QED BY <3>2, <4>1, <5>1
      <4>3. CASE i >= k
        <5>1. /\ i - (k - 1) \in 1..n - k /\ k + (i - (k - 1)) = i + 1 /\ ~(i <= k - 1)
              /\ was(i) = i + 1 /\ i + 1 \in 1..n
          BY <3>6, <4>3
        <5>2. rest[i - (k - 1)] = asking[k + (i - (k - 1))]
          BY <3>3, <5>1
        <5> QED BY <4>1, <5>1, <5>2
      <4> QED BY <3>6, <4>2, <4>3
    <3>8. ASSUME NEW i \in DOMAIN asking', NEW j \in DOMAIN asking', asking'[i] = asking'[j]
          PROVE  i = j
      <4>1. was(i) = was(j)
        BY <1>1, <3>6, <3>7, <3>8, <3>9
      <4> QED BY <3>6, <3>9, <4>1
    <3> QED BY <3>5, <3>8 DEF T!IsInjective
  <2> QED BY <2>1, <2>2 DEF T!SetDcu
<1>3. /\ calm' = FALSE
      /\ UNCHANGED <<heard, plugged, tapPort, tapBuffer, latest, at, left, due, shown>>
  BY DEF T!SetDcu
<1>4. TapTypes' /\ AgeInv'
  BY <1>2, <1>3 DEF TapInv, TapTypes, AgeInv, T!HasPort
<1> QED BY <1>3, <1>4 DEF TapInv, InTurnInv

(* The cable is moved. *)
LEMMA MoveCableStep ==
  ASSUME TapInv, T!MoveCable
  PROVE  TapInv'
<1>1. /\ calm' = FALSE /\ tapPort' = FALSE /\ tapBuffer' = {} /\ plugged' = ~plugged
      /\ UNCHANGED <<asking, heard, latest, at, left, due, shown>>
  BY DEF T!MoveCable
<1> QED BY <1>1 DEF TapInv, TapTypes, AgeInv, InTurnInv, T!HasPort

(* The port is opened, or not found: nothing is known. *)
LEMMA OpenedStep ==
  ASSUME T!TapAssumption, TapInv, NEW whenFirst, T!Opened(whenFirst),
         UNCHANGED <<asking, heard, plugged>>, shown' \in [Params -> {"none", "ok", "error"}],
         \A p \in Params : shown'[p] # "ok"
  PROVE  TapInv'
<1>1. /\ at' \in {"listen", "lost", "stopped"} /\ tapPort' = plugged /\ left' = Listening
      /\ due' \in 0..MaxPause /\ tapBuffer' = {} /\ latest' = [p \in Params |-> T!Never]
      /\ calm' = (plugged /\ T!Asked = Params) /\ plugged \in BOOLEAN
      /\ calm' => at' = "listen"
  BY TapConstants DEF T!Opened, T!NotFound, TapInv, TapTypes
<1>2. TapTypes'
  <2>1. T!Horizon' = T!Horizon /\ T!Never \in 0..T!Horizon
    BY Ages DEF T!Horizon
  <2>2. latest' \in [Params -> 0..T!Horizon]
    BY <1>1, <2>1
  <2>3. left' \in 0..Listening /\ tapBuffer' \subseteq Params
    BY <1>1, TapConstants
  <2> QED BY <1>1, <2>1, <2>2, <2>3 DEF TapInv, TapTypes
<1>3. AgeInv'
  BY <1>1 DEF AgeInv
<1>4. InTurnInv'
  <2> SUFFICES ASSUME calm' PROVE InTurnInv'
    BY DEF InTurnInv
  <2>1. tapPort' /\ Params \subseteq T!Asked' /\ at' = "listen"
    BY <1>1 DEF T!Asked
  <2>2. ASSUME NEW i \in DOMAIN asking
        PROVE  /\ Len(asking) - i + 1 > Listening - left' /\ asking[i] \in Params
               /\ asking[i] \notin tapBuffer' /\ latest'[asking[i]] = T!Never
    <3>1. asking \in Seq(Params) /\ Len(asking) \in Nat /\ i \in 1..Len(asking)
      BY DEF TapInv, TapTypes
    <3> QED BY <1>1, <3>1, TapConstants
  <2>3. Len(asking') = Len(asking) /\ T!Never' = T!Never
    BY DEF T!Never, T!Horizon
  <2> QED BY <2>1, <2>2, <2>3 DEF InTurnInv, Since
<1> QED BY <1>2, <1>3, <1>4 DEF TapInv

(* What the leaves below say of the types. *)
LEMMA TapIs ==
  ASSUME T!TapAssumption, TapInv
  PROVE  /\ asking \in Seq(Params) /\ heard \in [Params -> 0..T!Horizon]
         /\ latest \in [Params -> 0..T!Horizon] /\ tapBuffer \subseteq Params
         /\ left \in 0..Listening /\ due \in 0..MaxPause /\ Len(asking) \in Nat
         /\ DOMAIN asking = 1..Len(asking)
         /\ \A i \in DOMAIN asking :
              asking[i] \in Params /\ Since(i) \in Nat /\ Since(i) <= Len(asking)
         /\ calm => Len(asking) = Cardinality(Params) /\ asking # <<>>
<1>1. TapTypes /\ asking \in Seq(Params) /\ Len(asking) \in Nat /\ DOMAIN asking = 1..Len(asking)
  BY DEF TapInv, TapTypes
<1>2. ASSUME NEW i \in DOMAIN asking
      PROVE  asking[i] \in Params /\ Since(i) \in Nat /\ Since(i) <= Len(asking)
  BY <1>1 DEF Since
<1>3. calm => Len(asking) = Cardinality(Params) /\ asking # <<>>
  BY <1>1, AsManyAsParams DEF TapInv, InTurnInv
<1> QED BY <1>1, <1>2, <1>3 DEF TapTypes

(* A turn keeps the parameters of the DCU. *)
LEMMA TurnKeeps ==
  ASSUME TapTypes
  PROVE  /\ T!Turn \in Seq(Params) /\ T!IsInjective(T!Turn)
         /\ Params \subseteq T!Asked /\ asking # <<>> =>
              \A p \in Params : \E i \in DOMAIN T!Turn : T!Turn[i] = p
<1>1. CASE asking = <<>>
  BY <1>1 DEF T!Turn, TapTypes
<1>2. CASE asking # <<>>
  <2> DEFINE n == Len(asking)
             was(i) == IF i = n THEN 1 ELSE i + 1
  <2>1. /\ T!Turn \in Seq(Params) /\ n \in Nat \ {0}
        /\ \A i \in 1..n : T!Turn[i] = IF i = n THEN asking[1] ELSE asking[i + 1]
        /\ DOMAIN asking = 1..n /\ DOMAIN T!Turn = 1..n
    BY <1>2, TurnIs
  <2>2. \A i \in 1..n : \A j \in 1..n : asking[i] = asking[j] => i = j
    BY <2>1 DEF TapTypes, T!IsInjective
  <2> HIDE DEF n
  <2>3. ASSUME NEW i \in 1..n PROVE was(i) \in 1..n /\ T!Turn[i] = asking[was(i)]
    BY <2>1
  <2>4. ASSUME NEW i \in 1..n, NEW j \in 1..n, T!Turn[i] = T!Turn[j] PROVE i = j
    <3>1. was(i) = was(j)
      BY <2>2, <2>3, <2>4
    <3> QED BY <2>1, <3>1
  <2>5. T!IsInjective(T!Turn)
    BY <2>1, <2>4 DEF T!IsInjective
  <2>6. ASSUME Params \subseteq T!Asked, NEW p \in Params
        PROVE  \E i \in DOMAIN T!Turn : T!Turn[i] = p
    <3>1. PICK j \in 1..n : asking[j] = p
      BY <2>1, <2>6 DEF T!Asked, T!ToSet
    <3> DEFINE i == IF j = 1 THEN n ELSE j - 1
    <3>2. i \in 1..n /\ was(i) = j
      BY <2>1
    <3> HIDE DEF i
    <3> QED BY <2>1, <2>3, <3>1, <3>2
  <2> QED BY <2>1, <2>5, <2>6
<1> QED BY <1>1, <1>2

(* The DCU asks for the next parameter. *)
LEMMA TickStep ==
  ASSUME T!TapAssumption, TapInv, T!Tick
  PROVE  TapInv'
<1>1. PICK reply \in T!Replies :
        /\ heard' = [p \in Params |-> IF p \in reply THEN 0 ELSE T!Older(heard[p])]
        /\ tapBuffer' = IF tapPort /\ T!HasPort THEN tapBuffer \cup reply ELSE tapBuffer
        /\ calm' = (calm /\ reply # {})
  BY DEF T!Tick
<1>2. /\ due > 0 /\ due' = due - 1 /\ left' = IF left > 0 THEN left - 1 ELSE 0
      /\ asking' = T!Turn /\ latest' = [p \in Params |-> T!Older(latest[p])]
      /\ plugged' = plugged /\ tapPort' = tapPort /\ at' = at /\ shown' = shown
  BY DEF T!Tick
<1>3. TapTypes /\ MaxPause \in Nat /\ MaxAge \in Nat /\ Listening \in Nat /\ T!Horizon \in Nat
  BY TapConstants DEF TapInv
<1>4. T!Horizon' = T!Horizon /\ T!Never' = T!Never
  BY DEF T!Horizon, T!Never
<1>5. reply \subseteq Params /\ (reply # {} => asking # <<>> /\ reply = {asking[1]})
  <2>1. CASE asking = <<>>
    BY <1>1, <2>1 DEF T!Replies
  <2>2. CASE asking # <<>>
    BY <1>1, <1>3, <2>2, TurnIs DEF T!Replies
  <2> QED BY <2>1, <2>2
<1>6. TapTypes'
  <2>1. T!Turn \in Seq(Params) /\ T!IsInjective(T!Turn)
    BY <1>3, TurnKeeps
  <2>2. asking' \in Seq(Params) /\ T!IsInjective(asking')
    BY <1>2, <2>1
  <2>3. heard' \in [Params -> 0..T!Horizon] /\ latest' \in [Params -> 0..T!Horizon]
    BY <1>1, <1>2, Ages, TapIs
  <2>4. left' \in 0..Listening /\ due' \in 0..MaxPause
    BY <1>2, <1>3, TapIs
  <2>5. tapBuffer' \subseteq Params
    BY <1>1, <1>3, <1>5 DEF TapTypes
  <2> QED BY <1>2, <1>3, <1>4, <2>2, <2>3, <2>4, <2>5 DEF TapTypes
<1>7. AgeInv'
  <2>1. at' = "lost" => tapBuffer' = {}
    BY <1>1, <1>2 DEF TapInv, AgeInv, T!HasPort
  <2>2. T!HasPort' => \A p \in tapBuffer' : heard'[p] + due' <= MaxPause
    <3> SUFFICES ASSUME T!HasPort', NEW p \in tapBuffer' PROVE heard'[p] + due' <= MaxPause
      OBVIOUS
    <3>1. T!HasPort /\ p \in Params /\ due' \in 0..MaxPause
      BY <1>2, <1>6 DEF T!HasPort, TapTypes
    <3>2. CASE p \in reply
      <4>1. heard'[p] = 0
        BY <1>1, <3>1, <3>2
      <4>2. PICK d \in 0..MaxPause : d = due'
        BY <3>1
      <4>3. 0 + d <= MaxPause
        BY <1>3
      <4> QED BY <4>1, <4>2, <4>3, Zenon
    <3>3. CASE p \notin reply
      <4>1. p \in tapBuffer /\ heard'[p] = T!Older(heard[p]) /\ heard[p] \in 0..T!Horizon
        BY <1>1, <3>1, <3>3, TapIs
      <4>2. heard[p] + due <= MaxPause
        BY <3>1, <4>1 DEF TapInv, AgeInv
      <4>3. T!Older(heard[p]) <= heard[p] + 1 /\ T!Older(heard[p]) \in 0..T!Horizon
        BY <4>1, Ages
      <4> QED BY <1>2, <1>3, <4>1, <4>2, <4>3, TapIs
    <3> QED BY <3>2, <3>3
  <2>3. ASSUME NEW p \in Params, latest'[p] # T!Never
        PROVE  heard'[p] <= latest'[p] + MaxPause
    <3>1. latest[p] \in 0..T!Horizon /\ heard[p] \in 0..T!Horizon
      BY TapIs
    <3>2. latest'[p] = T!Older(latest[p]) /\ (heard'[p] = 0 \/ heard'[p] = T!Older(heard[p]))
      BY <1>1, <1>2
    <3>3. latest[p] # T!Never /\ latest'[p] = latest[p] + 1
      BY <2>3, <3>1, <3>2, Ages
    <3>4. heard[p] <= latest[p] + MaxPause
      BY <3>3 DEF TapInv, AgeInv
    <3>5. T!Older(heard[p]) <= heard[p] + 1 /\ T!Older(heard[p]) \in 0..T!Horizon
      BY <3>1, Ages
    <3> QED BY <1>3, <3>1, <3>2, <3>3, <3>4, <3>5
  <2>4. ASSUME NEW p \in Params, shown'[p] = "ok"
        PROVE  at' = "read" /\ latest'[p] + due' <= MaxAge + MaxPause
    <3>1. at = "read" /\ latest[p] + due <= MaxAge + MaxPause
      BY <1>2, <2>4 DEF TapInv, AgeInv
    <3>2. latest[p] \in 0..T!Horizon /\ latest'[p] = T!Older(latest[p])
      BY <1>2, TapIs
    <3>3. T!Older(latest[p]) <= latest[p] + 1 /\ T!Older(latest[p]) \in 0..T!Horizon
      BY <3>2, Ages
    <3> QED BY <1>2, <1>3, <3>1, <3>2, <3>3, TapIs
  <2> QED BY <1>4, <2>1, <2>2, <2>3, <2>4 DEF AgeInv
<1>8. InTurnInv'
  <2> SUFFICES ASSUME calm' PROVE InTurnInv'
    BY DEF InTurnInv
  <2> DEFINE n == Len(asking)
  <2>1. calm /\ tapPort /\ Params \subseteq T!Asked /\ reply = {asking[1]}
    BY <1>1, <1>5 DEF TapInv, InTurnInv
  <2>2. /\ asking' = T!Turn /\ DOMAIN asking' = 1..n /\ Len(asking') = n /\ n \in Nat \ {0}
        /\ \A i \in 1..n : asking'[i] = IF i = n THEN asking[1] ELSE asking[i + 1]
        /\ DOMAIN asking = 1..n /\ n <= Listening
    BY <1>2, <1>3, <2>1, TurnIs, TapIs, TapConstants
  <2>3. Params \subseteq T!Asked'
    <3>1. \A p \in Params : \E i \in DOMAIN T!Turn : T!Turn[i] = p
      BY <1>3, <2>1, TurnKeeps, TapIs
    <3>2. \A p \in Params : \E i \in DOMAIN asking' : asking'[i] = p
      BY <2>2, <3>1
    <3> QED BY <3>2 DEF T!Asked, T!ToSet
  <2>4. ASSUME T!HasPort', NEW i \in DOMAIN asking'
        PROVE  IF at' = "listen" /\ n - i + 1 > Listening - left'
               THEN asking'[i] \notin tapBuffer' /\ latest'[asking'[i]] = T!Never
               ELSE asking'[i] \in tapBuffer' \/ latest'[asking'[i]] <= n - i + 1
    <3>1. T!HasPort /\ tapBuffer' = tapBuffer \cup {asking[1]} /\ i \in 1..n
      BY <1>1, <1>2, <2>1, <2>2, <2>4 DEF T!HasPort
    <3>2. CASE i = n
      <4>1. asking'[i] \in tapBuffer'
        BY <2>2, <3>1, <3>2
      <4>2. left \in 0..Listening /\ Listening > 0
        <5>1. left \in 0..Listening
          BY TapIs
        <5> HIDE DEF n
        <5> QED BY <1>3, <2>2, <5>1
      <4> HIDE DEF n
      <4>3. n - i + 1 = 1
        BY <2>2, <3>2
      <4>4. ~(1 > Listening - left')
        BY <1>2, <1>3, <4>2
      <4> QED BY <4>1, <4>3, <4>4
    <3>3. CASE i # n
      <4> DEFINE p == asking[i + 1]
      <4>1. asking'[i] = p /\ i + 1 \in 1..n /\ Since(i + 1) = n - i /\ n - i \in Nat /\ n - i < n
        <5>1. asking'[i] = p /\ Since(i + 1) = n - (i + 1) + 1
          BY <2>2, <3>1, <3>3 DEF Since
        <5> HIDE DEF n
        <5> QED BY <2>2, <3>1, <3>3, <5>1
      <4>2. p \in Params /\ p # asking[1] /\ latest[p] \in 0..T!Horizon
            /\ latest'[p] = T!Older(latest[p])
        <5>1. p \in Params
          BY <2>2, <4>1, TapIs
        <5>2. p # asking[1]
          <6>1. \A j \in 1..n : \A k \in 1..n : asking[j] = asking[k] => j = k
            BY <1>3, <2>2 DEF TapTypes, T!IsInjective
          <6>2. i + 1 \in 1..n /\ 1 \in 1..n /\ i + 1 # 1
            <7> HIDE DEF n
            <7> QED BY <2>2, <3>1, <4>1
          <6> QED BY <6>1, <6>2
        <5> QED BY <1>2, <5>1, <5>2, TapIs
      <4>3. IF at = "listen" /\ n - i > Listening - left
            THEN p \notin tapBuffer /\ latest[p] = T!Never
            ELSE p \in tapBuffer \/ latest[p] <= n - i
        BY <2>1, <2>2, <3>1, <4>1 DEF TapInv, InTurnInv
      <4> HIDE DEF n, p
      <4>4. n - i + 1 > Listening - left' <=> n - i > Listening - left
        <5>1. left \in 0..Listening /\ i \in 1..n
          BY <3>1, TapIs
        <5>2. CASE left > 0
          BY <1>2, <1>3, <2>2, <4>1, <5>1, <5>2
        <5>3. CASE left = 0
          BY <1>2, <1>3, <2>2, <4>1, <5>1, <5>3
        <5> QED BY <1>3, <5>1, <5>2, <5>3
      <4>5. CASE at' = "listen" /\ n - i + 1 > Listening - left'
        <5>1. p \notin tapBuffer /\ latest[p] = T!Never
          BY <1>2, <4>3, <4>4, <4>5
        <5>2. p \notin tapBuffer' /\ latest'[p] = T!Never
          BY <3>1, <4>2, <5>1, Ages
        <5> QED BY <4>1, <4>5, <5>2
      <4>6. CASE ~(at' = "listen" /\ n - i + 1 > Listening - left')
        <5>1. ~(at = "listen" /\ n - i > Listening - left)
          BY <1>2, <4>4, <4>6
        <5>2. CASE p \in tapBuffer
          BY <3>1, <4>1, <4>6, <5>2
        <5>3. CASE latest[p] <= n - i
          <6>1. T!Older(latest[p]) <= latest[p] + 1 /\ T!Older(latest[p]) \in 0..T!Horizon
            BY <4>2, Ages
          <6>2. latest'[p] <= n - i + 1
            BY <1>3, <4>1, <4>2, <5>3, <6>1
          <6> QED BY <4>1, <4>6, <6>2
        <5> QED BY <4>3, <5>1, <5>2, <5>3
      <4> QED BY <4>5, <4>6
    <3> QED BY <3>2, <3>3
  <2> QED BY <1>2, <1>4, <2>1, <2>2, <2>3, <2>4 DEF InTurnInv, Since
<1> QED BY <1>6, <1>7, <1>8 DEF TapInv

(* The loop goes on after a poll that found the port working, or not.  *)
LEMMA PollKeepsAges ==
  ASSUME T!TapAssumption, TapInv, T!HasPort \/ at = "lost", latest' = T!Polled,
         UNCHANGED heard, NEW p \in Params, latest'[p] # T!Never
  PROVE  heard'[p] <= latest'[p] + MaxPause
<1>1. TapTypes /\ MaxPause \in Nat /\ heard[p] \in 0..T!Horizon /\ due \in 0..MaxPause
      /\ T!Horizon \in Nat
  BY TapIs, TapConstants DEF TapInv
<1>2. CASE p \in tapBuffer
  <2>1. T!Polled[p] = 0
    BY <1>1, <1>2, PolledIs
  <2>2. heard[p] + due <= MaxPause
    BY <1>2 DEF TapInv, AgeInv
  <2> QED BY <1>1, <2>1, <2>2
<1>3. CASE p \notin tapBuffer
  <2>1. T!Polled[p] = latest[p]
    BY <1>1, <1>3, PolledIs
  <2> QED BY <2>1 DEF TapInv, AgeInv
<1> QED BY <1>2, <1>3

(* A poll leaves the parameters of the bus in turn. *)
LEMMA PollKeepsTurn ==
  ASSUME T!TapAssumption, TapInv, calm, NEW i \in DOMAIN asking, T!HasPort,
         ~(at = "listen" /\ Since(i) > Listening - left)
  PROVE  T!Polled[asking[i]] <= Since(i)
<1>1. TapTypes /\ asking[i] \in Params /\ Since(i) \in Nat
  BY TapIs DEF TapInv
<1>2. asking[i] \in tapBuffer \/ latest[asking[i]] <= Since(i)
  BY DEF TapInv, InTurnInv
<1> QED BY <1>1, <1>2, PolledIs

(* The service listens for the pump. *)
LEMMA ListenStep ==
  ASSUME T!TapAssumption, TapInv, T!Listen
  PROVE  TapInv'
<1>1. /\ at = "listen" /\ latest' = T!Polled /\ tapBuffer' = {}
      /\ UNCHANGED <<asking, heard, plugged, tapPort, left, shown, calm>>
      /\ at' \in {"listen", "read", "lost", "stopped"} /\ due' \in 0..MaxPause
  BY TapConstants DEF T!Listen, T!NotFound
<1>2. TapTypes /\ T!Horizon' = T!Horizon /\ T!Never' = T!Never /\ T!Asked' = T!Asked
      /\ Listening \in Nat /\ T!HasPort
  BY <1>1, TapConstants DEF TapInv, T!Horizon, T!Never, T!Asked, T!HasPort
<1>3. T!Polled \in [Params -> 0..T!Horizon]
  BY <1>2, PolledIs
<1>4. TapTypes'
  BY <1>1, <1>2, <1>3 DEF TapTypes
<1>5. AgeInv'
  <2>1. \A p \in Params : latest'[p] # T!Never => heard'[p] <= latest'[p] + MaxPause
    BY <1>1, <1>2, PollKeepsAges
  <2>2. \A p \in Params : shown'[p] # "ok"
    BY <1>1 DEF TapInv, AgeInv
  <2> QED BY <1>1, <1>2, <2>1, <2>2 DEF AgeInv
<1>6. InTurnInv'
  <2> SUFFICES ASSUME calm' PROVE InTurnInv'
    BY DEF InTurnInv
  <2>1. calm /\ tapPort' /\ Params \subseteq T!Asked' /\ DOMAIN asking' = DOMAIN asking
        /\ \A i \in DOMAIN asking : Since(i)' = Since(i)
    BY <1>1, <1>2 DEF TapInv, InTurnInv, Since
  <2>2. ASSUME NEW i \in DOMAIN asking, T!HasPort'
        PROVE  IF at' = "listen" /\ Since(i) > Listening - left
               THEN latest'[asking[i]] = T!Never ELSE latest'[asking[i]] <= Since(i)
    <3>1. asking[i] \in Params /\ Since(i) \in Nat /\ Since(i) <= Listening
      BY <1>2, <2>1, TapIs, TapConstants
    <3>2. CASE ~(Since(i) > Listening - left)
      BY <1>1, <1>2, <2>1, <3>2, PollKeepsTurn
    <3>3. CASE Since(i) > Listening - left
      <4>1. latest'[asking[i]] = T!Never
        BY <1>1, <1>2, <2>1, <3>1, <3>3, PolledIs DEF TapInv, InTurnInv
      <4>2. T!Polled[asking[i]] = T!Never
        BY <1>1, <4>1
      <4>3. ~T!HeardEnough(T!Polled)
        BY <3>1, <4>2 DEF T!HeardEnough, T!Known
      <4>4. left # 0
        BY <1>2, <3>1, <3>3
      <4>5. at' = "listen"
        BY <1>1, <2>2, <4>3, <4>4 DEF T!Listen, T!HasPort, T!NotFound
      <4> QED BY <3>3, <4>1, <4>5
    <3> QED BY <3>2, <3>3
  <2> QED BY <1>1, <1>2, <2>1, <2>2 DEF InTurnInv
<1> QED BY <1>4, <1>5, <1>6 DEF TapInv

(* The loop reads: what is handed on as ok was read not too long ago, and  *)
(* while the DCU asks for all of them nothing else is handed on.           *)
LEMMA TapReadStep ==
  ASSUME T!TapAssumption, TapInv, T!Read
  PROVE  TapInv' /\ (calm => \A p \in Params : shown'[p] = "ok")
<1>1. /\ at = "read" /\ latest' = T!Polled /\ tapBuffer' = {} /\ due' \in 1..MaxPause
      /\ shown' = [p \in Params |-> T!Quality(T!Polled, p)]
      /\ UNCHANGED <<asking, heard, plugged, tapPort, at, left, calm>>
  BY DEF T!Read
<1>2. /\ TapTypes /\ T!Horizon' = T!Horizon /\ T!Never' = T!Never /\ T!Asked' = T!Asked
      /\ MaxAge \in Nat /\ MaxPause \in Nat /\ T!HasPort
  BY <1>1, TapConstants DEF TapInv, T!Horizon, T!Never, T!Asked, T!HasPort
<1>3. T!Polled \in [Params -> 0..T!Horizon] /\ T!Horizon \in Nat
  BY <1>2, PolledIs, TapConstants
<1>4. shown' \in [Params -> {"none", "ok", "error"}]
      /\ \A p \in Params : shown'[p] = "ok" <=> T!Polled[p] <= MaxAge
  BY <1>1 DEF T!Quality
<1>5. TapTypes'
  BY <1>1, <1>2, <1>3, <1>4 DEF TapTypes
<1>6. AgeInv'
  <2>1. \A p \in Params : latest'[p] # T!Never => heard'[p] <= latest'[p] + MaxPause
    BY <1>1, <1>2, PollKeepsAges
  <2>2. ASSUME NEW p \in Params, shown'[p] = "ok"
        PROVE  at' = "read" /\ latest'[p] + due' <= MaxAge + MaxPause
    <3>1. latest'[p] \in 0..T!Horizon /\ latest'[p] <= MaxAge
      BY <1>1, <1>3, <1>4, <2>2
    <3> QED BY <1>1, <1>2, <1>3, <3>1
  <2> QED BY <1>1, <1>2, <2>1, <2>2 DEF AgeInv
<1>7. ASSUME calm, NEW i \in DOMAIN asking PROVE T!Polled[asking[i]] <= Since(i)
  BY <1>1, <1>2, <1>7, PollKeepsTurn
<1>8. InTurnInv'
  <2>1. /\ DOMAIN asking' = DOMAIN asking
        /\ \A i \in DOMAIN asking : Since(i)' = Since(i)
    BY <1>1 DEF Since
  <2> QED BY <1>1, <1>2, <1>7, <2>1 DEF TapInv, InTurnInv
<1>9. ASSUME calm, NEW p \in Params PROVE shown'[p] = "ok"
  <2>1. PICK i \in DOMAIN asking : asking[i] = p
    BY <1>9 DEF TapInv, InTurnInv, T!Asked, T!ToSet
  <2>2. Since(i) \in Nat /\ Since(i) <= MaxAge
    BY <1>2, <1>9, TapIs, TapConstants
  <2>3. T!Polled[p] <= Since(i) /\ T!Polled[p] \in 0..T!Horizon
    BY <1>3, <1>7, <1>9, <2>1
  <2> QED BY <1>2, <1>3, <1>4, <2>2, <2>3
<1> QED BY <1>5, <1>6, <1>8, <1>9 DEF TapInv

(* A read fails. *)
LEMMA TapFailStep ==
  ASSUME T!TapAssumption, TapInv, T!Fail
  PROVE  TapInv'
<1>1. /\ at = "lost" \/ at = "read"
      /\ shown' = [p \in Params |-> "error"]
      /\ UNCHANGED <<asking, heard, plugged>>
  BY DEF T!Fail
<1>2. shown' \in [Params -> {"none", "ok", "error"}] /\ \A p \in Params : shown'[p] # "ok"
  BY DEF T!Fail
<1>3. CASE T!Opened(FALSE)
  BY <1>1, <1>2, <1>3, OpenedStep DEF T!Fail
<1>4. CASE ~T!Opened(FALSE)
  <2>1. /\ latest' = T!Polled /\ tapBuffer' = {} /\ due' = 1
        /\ UNCHANGED <<asking, heard, plugged, tapPort, at, left, calm>>
        /\ at = "lost" \/ at = "read"
    BY <1>4 DEF T!Fail
  <2>2. /\ TapTypes /\ T!Horizon' = T!Horizon /\ T!Never' = T!Never /\ T!Asked' = T!Asked
        /\ MaxPause \in Nat \ {0} /\ (T!HasPort \/ at = "lost") /\ T!HasPort' = T!HasPort
    BY <2>1, TapConstants DEF TapInv, T!Horizon, T!Never, T!Asked, T!HasPort
  <2>3. T!Polled \in [Params -> 0..T!Horizon]
    BY <2>2, PolledIs
  <2>4. TapTypes'
    BY <1>2, <2>1, <2>2, <2>3 DEF TapTypes
  <2>5. \A p \in Params : latest'[p] # T!Never => heard'[p] <= latest'[p] + MaxPause
    BY <2>1, <2>2, PollKeepsAges
  <2>6. AgeInv'
    BY <1>2, <2>1, <2>2, <2>5 DEF AgeInv
  <2>7. InTurnInv'
    <3>1. DOMAIN asking' = DOMAIN asking /\ \A i \in DOMAIN asking : Since(i)' = Since(i)
      BY <2>1 DEF Since
    <3>2. ASSUME calm, T!HasPort, NEW i \in DOMAIN asking PROVE T!Polled[asking[i]] <= Since(i)
      BY <2>1, <3>2, PollKeepsTurn DEF T!HasPort
    <3>3. calm => tapPort /\ Params \subseteq T!Asked
      BY DEF TapInv, InTurnInv
    <3>4. T!HasPort => at = "read"
      BY <2>1 DEF T!HasPort
    <3> QED BY <2>1, <2>2, <3>1, <3>2, <3>3, <3>4 DEF InTurnInv
  <2> QED BY <2>4, <2>6, <2>7 DEF TapInv
<1> QED BY <1>3, <1>4

(* Started and stopped. *)
LEMMA RestartSteps ==
  ASSUME T!TapAssumption, TapInv, T!Start \/ T!Stop
  PROVE  TapInv'
<1>1. CASE T!Start
  <2>1. /\ at = "stopped" /\ T!Opened(TRUE) /\ UNCHANGED <<asking, heard, plugged>>
        /\ shown' = shown
    BY <1>1 DEF T!Start
  <2>2. shown' \in [Params -> {"none", "ok", "error"}] /\ \A p \in Params : shown'[p] # "ok"
    BY <2>1 DEF TapInv, TapTypes, AgeInv
  <2> QED BY <2>1, <2>2, OpenedStep
<1>2. CASE T!Stop
  <2>1. /\ at' = "stopped" /\ due' = 1 /\ shown' = [p \in Params |-> "none"]
        /\ UNCHANGED <<asking, heard, plugged, tapPort, tapBuffer, latest, left, calm>>
    BY <1>2 DEF T!Stop
  <2>2. MaxPause \in Nat \ {0} /\ T!Horizon' = T!Horizon /\ T!Never' = T!Never
        /\ T!Asked' = T!Asked /\ ~T!HasPort'
    BY <2>1, TapConstants DEF T!Horizon, T!Never, T!Asked, T!HasPort
  <2>3. TapTypes' /\ AgeInv'
    BY <2>1, <2>2 DEF TapInv, TapTypes, AgeInv
  <2>4. InTurnInv'
    BY <2>1, <2>2 DEF TapInv, InTurnInv
  <2> QED BY <2>3, <2>4 DEF TapInv
<1> QED BY <1>1, <1>2

(* Before anything runs. *)
LEMMA TapInitially ==
  ASSUME T!TapAssumption, T!Init
  PROVE  TapInv
<1>1. T!SetToSeq(Params) \in Seq(Params) /\ T!IsInjective(T!SetToSeq(Params))
  <2> DEFINE n == T!Cardinality(Params)
  <2>1. n \in Nat /\ ExistsBijection(1..n, Params)
    BY TapConstants, TapOperators, FS_CardinalityType
  <2>2. \E f \in [1..n -> Params] : T!IsInjective(f)
    BY <2>1, TapOperators DEF ExistsBijection, Bijection, Injection
  <2>3. T!SetToSeq(Params) \in [1..n -> Params] /\ T!IsInjective(T!SetToSeq(Params))
    BY <2>2 DEF T!SetToSeq
  <2> QED BY <2>1, <2>3
<1>2. <<>> \in Seq(Params) /\ T!IsInjective(<<>>)
  BY DEF T!IsInjective
<1>3. asking \in Seq(Params) /\ T!IsInjective(asking)
  BY <1>1, <1>2 DEF T!Init
<1>4. TapTypes
  <2>1. T!Never \in 0..T!Horizon
    BY Ages
  <2>2. /\ heard = [p \in Params |-> T!Never] /\ latest = [p \in Params |-> T!Never]
        /\ plugged = TRUE /\ tapPort = FALSE /\ tapBuffer = {} /\ at = "stopped" /\ left = 0
        /\ due = 1 /\ shown = [p \in Params |-> "none"]
    BY DEF T!Init
  <2>3. 0 \in 0..Listening /\ 1 \in 0..MaxPause
    BY TapConstants
  <2> QED BY <1>3, <2>1, <2>2, <2>3 DEF TapTypes
<1> QED BY <1>4 DEF TapInv, AgeInv, InTurnInv, T!Init, T!HasPort

(* Nothing happened. *)
LEMMA TapStutters ==
  ASSUME TapInv, UNCHANGED T!vars
  PROVE  TapInv'
<1>1. UNCHANGED <<asking, heard, plugged, tapPort, tapBuffer, latest, at, left, due, shown, calm>>
  BY DEF T!vars
<1> QED BY <1>1 DEF TapInv, TapTypes, AgeInv, InTurnInv, Since, T!HasPort, T!Asked, T!Horizon,
                    T!Never

(* What is shown as ok was on the bus. *)
LEMMA OkWasHeard ==
  ASSUME T!TapAssumption, TapInv
  PROVE  T!OkMeansHeard
<1> SUFFICES ASSUME NEW p \in Params, shown[p] = "ok"
             PROVE  heard[p] <= MaxAge + 2 * MaxPause
  BY DEF T!OkMeansHeard
<1>1. latest[p] \in 0..T!Horizon /\ heard[p] \in 0..T!Horizon /\ due \in 0..MaxPause
  BY TapIs
<1>2. latest[p] + due <= MaxAge + MaxPause
  BY DEF TapInv, AgeInv
<1>3. latest[p] # T!Never
  BY <1>1, <1>2, TapConstants
<1>4. heard[p] <= latest[p] + MaxPause
  BY <1>3 DEF TapInv, AgeInv
<1> QED BY <1>1, <1>2, <1>4, TapConstants

(* The invariant holds. *)
LEMMA TapInvariant == T!Spec => []TapInv
<1> USE InstrumentsAssumption
<1>1. T!Init => TapInv
  BY TapInitially
<1>2. TapInv /\ [T!Next]_T!vars => TapInv'
  BY SetDcuStep, MoveCableStep, TickStep, ListenStep, TapReadStep, TapFailStep, RestartSteps,
     TapStutters DEF T!Next
<1> QED BY <1>1, <1>2, PTL DEF T!Spec

(* The types of the tap. *)
THEOREM TapTypesHold == T!Spec => []T!TypeOK
<1>1. TapInv => T!TypeOK
  <2> SUFFICES ASSUME TapInv PROVE T!TypeOK
    OBVIOUS
  <2>1. T!Asked \subseteq Params
    BY DEF TapInv, TapTypes, T!Asked, T!ToSet
  <2> QED BY <2>1 DEF TapInv, TapTypes, T!TypeOK
<1> QED BY <1>1, TapInvariant, PTL

(* A value shown as ok was on the bus at most MaxAge before the last poll, *)
(* and while the DCU asks for all parameters in turn none of them is       *)
(* handed on as an error (turbo.py, PfeifferTap and TurboService).         *)
THEOREM TapIsHonest == T!Spec => ShownAsHeard
<1>1. TapInv => T!OkMeansHeard
  BY InstrumentsAssumption, OkWasHeard
<1>2. TapInv => (T!Read /\ calm => \A p \in Params : shown'[p] = "ok")
  BY InstrumentsAssumption, TapReadStep
<1> QED BY <1>1, <1>2, TapInvariant, PTL DEF T!Spec, ShownAsHeard, T!ShownAsHeard

-------------------------------------------------------------------------------
(* A step of the composition is a step of each part, or none.              *)
LEMMA InstrumentStep ==
  ASSUME [Next]_<<part, lakeshore, rga, cdaq, turbo>>
  PROVE  [L!Next]_(L!vars) /\ [R!Next]_(R!vars) /\ [D!Next]_(D!vars) /\ [T!Next]_(T!vars)
<1>1. /\ UNCHANGED lakeshore => UNCHANGED L!vars
      /\ UNCHANGED rga => UNCHANGED R!vars
      /\ UNCHANGED cdaq => UNCHANGED D!vars
      /\ UNCHANGED turbo => UNCHANGED T!vars
  BY DEF lakeshore, rga, cdaq, turbo, L!vars, R!vars, R!disk, R!bounds, D!vars, D!loop, T!vars
<1>2. CASE InLakeshore(L!Next)
  BY <1>1, <1>2 DEF InLakeshore
<1>3. CASE InRga(R!Next)
  BY <1>1, <1>3 DEF InRga
<1>4. CASE InCdaq(D!Next)
  BY <1>1, <1>4 DEF InCdaq
<1>5. CASE InTurbo(T!Next)
  BY <1>1, <1>5 DEF InTurbo
<1>6. CASE UNCHANGED <<part, lakeshore, rga, cdaq, turbo>>
  BY <1>1, <1>6
<1> QED BY <1>2, <1>3, <1>4, <1>5, <1>6 DEF Next

(* The composition keeps the specification of every part: what is proved   *)
(* of one of them holds in what the run explores.                          *)
THEOREM InstrumentsKeepTheirSpecs == Spec => L!Spec /\ R!Spec /\ D!Spec /\ T!Spec
<1>1. Init => L!Init /\ R!Init /\ D!Init /\ T!Init
  BY DEF Init
<1> QED BY <1>1, InstrumentStep, PTL DEF Spec, L!Spec, R!Spec, D!Spec, T!Spec
===============================================================================
