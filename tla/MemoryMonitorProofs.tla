------------------------- MODULE MemoryMonitorProofs -------------------------
(* Proofs about MemoryMonitor for every size of memory and every threshold. *)
EXTENDS MemoryMonitor, TLAPS

(* Where the two threads can be at the same time. *)
ThreadsAgree ==
    /\ monitor = "unstarted" <=> builder \in {"enter", "start"}
    /\ builder = "left" => monitor = "ended"
    /\ monitor = "unstarted" => peak = 0

(* What the two threads read may be stale when they use it.  A failed      *)
(* reading is too low; any other is no lower than the memory has been.     *)
SampleIsStale ==
    /\ lowest <= free
    /\ builder # "enter" => baseline <= entry
    /\ ~misread /\ monitor \in {"update", "check"} => lowest <= sampled

(* Why the monitor may have ended. *)
EndIsExplained ==
    /\ monitor = "ended" => stopEvent \/ announced
    /\ announced => monitor = "ended" /\ (misread \/ lowest < Threshold)

MonitorInv ==
    /\ TypeOK
    /\ ThreadsAgree
    /\ SampleIsStale
    /\ EndIsExplained
    /\ PeakWasReached

(* A larger baseline or a lower reading can only mean a larger usage.      *)
LEMMA UsageMonotone ==
    ASSUME NEW base \in Nat, NEW base2 \in Nat, base <= base2,
           NEW low \in Nat, NEW now \in Nat, low <= now
    PROVE  /\ Usage(base, now) \in 0..base
           /\ Usage(base, now) <= Usage(base2, low)
BY DEF Usage

LEMMA MonitorInvInit == Init => MonitorInv
<1> SUFFICES ASSUME Init PROVE MonitorInv
  OBVIOUS
<1>1. Usage(entry, lowest) \in Nat /\ entry \in Nat
  BY MonitorAssumption DEF Init, Usage
<1>2. TypeOK
  <2>1. 0 \in 0..MaxMemory /\ 0 \in 0..MaxWork
    BY MonitorAssumption
  <2>2. /\ lowest \in 0..MaxMemory /\ free \in 0..MaxMemory
        /\ entry \in 0..MaxMemory /\ misread \in BOOLEAN
    BY DEF Init
  <2> QED
    BY <2>1, <2>2, Zenon DEF Init, TypeOK
<1>3. ThreadsAgree /\ SampleIsStale /\ EndIsExplained /\ PeakWasReached
  BY <1>1, MonitorAssumption
  DEF Init, ThreadsAgree, SampleIsStale, EndIsExplained, PeakWasReached
<1> QED
  BY <1>2, <1>3 DEF MonitorInv

LEMMA TypeStep == TypeOK /\ [Next]_vars => TypeOK'
<1> SUFFICES ASSUME TypeOK, [Next]_vars PROVE TypeOK'
  OBVIOUS
<1> USE MonitorAssumption
    DEF TypeOK, builderVars, monitorVars, history, FreeMemoryReadings
<1>1. CASE ReadBaseline \/ StartThread \/ BodyWork
  BY <1>1 DEF ReadBaseline, StartThread, BodyWork
<1>2. CASE BodyLeaves \/ SetStopEvent \/ JoinAndReport
  BY <1>2 DEF BodyLeaves, SetStopEvent, JoinAndReport
<1>3. CASE TestStopEvent \/ Wake
  BY <1>3 DEF TestStopEvent, Wake
<1>3a. CASE SampleFreeMemory
  <2>1. misread' \in BOOLEAN
    BY <1>3a, Zenon DEF SampleFreeMemory
  <2>2. sampled' \in 0..MaxMemory
    BY <1>3a DEF SampleFreeMemory
  <2>3. UNCHANGED <<builder, free, baseline, stopEvent, raised, work, peak,
                    announced, entry, lowest>>
    BY <1>3a DEF SampleFreeMemory
  <2>4. monitor' = "update"
    BY <1>3a DEF SampleFreeMemory
  <2> QED
    BY <2>1, <2>2, <2>3, <2>4
<1>4. CASE UpdatePeak
  <2>1. Usage(baseline, sampled) \in 0..MaxMemory
    BY DEF Usage
  <2> QED
    BY <1>4, <2>1 DEF UpdatePeak, Larger
<1>5. CASE CheckThreshold
  <2>1. CASE sampled < Threshold
    BY <1>5, <2>1 DEF CheckThreshold
  <2>2. CASE ~(sampled < Threshold)
    BY <1>5, <2>2 DEF CheckThreshold
  <2> QED
    BY <2>1, <2>2
<1>6. CASE MemoryChanges
  BY <1>6 DEF MemoryChanges
<1>7. CASE UNCHANGED vars
  BY <1>7 DEF vars
<1> QED
  BY <1>1, <1>2, <1>3, <1>4, <1>5, <1>6, <1>7, <1>3a DEF Next, Builder, Monitor

(* The control of the two threads, and what the monitor's end means. *)
LEMMA ControlStep ==
    TypeOK /\ ThreadsAgree /\ SampleIsStale /\ EndIsExplained /\ [Next]_vars
    => ThreadsAgree' /\ SampleIsStale' /\ EndIsExplained'
<1> SUFFICES ASSUME TypeOK, ThreadsAgree, SampleIsStale, EndIsExplained,
                    [Next]_vars
             PROVE  ThreadsAgree' /\ SampleIsStale' /\ EndIsExplained'
  OBVIOUS
<1> USE MonitorAssumption
    DEF TypeOK, ThreadsAgree, SampleIsStale, EndIsExplained, builderVars,
        monitorVars, history
<1>1. CASE ReadBaseline
  BY <1>1 DEF ReadBaseline, FreeMemoryReadings
<1>2. CASE StartThread
  BY <1>2 DEF StartThread
<1>3. CASE BodyWork \/ BodyLeaves
  BY <1>3 DEF BodyWork, BodyLeaves
<1>4. CASE SetStopEvent \/ JoinAndReport
  BY <1>4 DEF SetStopEvent, JoinAndReport
<1>5. CASE TestStopEvent
  <2>1. CASE stopEvent
    BY <1>5, <2>1 DEF TestStopEvent
  <2>2. CASE ~stopEvent
    BY <1>5, <2>2 DEF TestStopEvent
  <2> QED
    BY <2>1, <2>2
<1>6. CASE SampleFreeMemory
  <2>1. ThreadsAgree'
    BY <1>6 DEF SampleFreeMemory
  <2>2. ~misread' => lowest <= sampled'
    <3>1. ~misread' => ~(sampled' < free)
      BY <1>6, Zenon DEF SampleFreeMemory
    <3>2. sampled' \in 0..free
      BY <1>6 DEF SampleFreeMemory, FreeMemoryReadings
    <3>3. ~(sampled' < free) => lowest <= sampled'
      BY <3>2
    <3> QED
      BY <3>1, <3>3, Zenon
  <2>3. UNCHANGED <<builder, free, baseline, announced, entry, lowest>>
    BY <1>6 DEF SampleFreeMemory
  <2>4. SampleIsStale'
    BY <2>2, <2>3
  <2>5. monitor' = "update" /\ ~announced'
    BY <1>6 DEF SampleFreeMemory
  <2>6. EndIsExplained'
    BY <2>5
  <2> QED
    BY <2>1, <2>4, <2>6
<1>6a. CASE UpdatePeak \/ Wake
  BY <1>6a DEF UpdatePeak, Wake
<1>7. CASE CheckThreshold
  <2>1. CASE sampled < Threshold
    BY <1>7, <2>1 DEF CheckThreshold
  <2>2. CASE ~(sampled < Threshold)
    BY <1>7, <2>2 DEF CheckThreshold
  <2> QED
    BY <2>1, <2>2
<1>8. CASE MemoryChanges
  BY <1>8 DEF MemoryChanges
<1>9. CASE UNCHANGED vars
  BY <1>9 DEF vars
<1> QED
  BY <1>1, <1>2, <1>3, <1>4, <1>5, <1>6, <1>7, <1>8, <1>9, <1>6a
  DEF Next, Builder, Monitor

(* Only UpdatePeak raises the peak, to a usage no larger than the largest  *)
(* so far if no sample failed; only a lower free memory moves that one,    *)
(* and only upwards.                                                       *)
LEMMA PeakStep ==
    MonitorInv /\ [Next]_vars => PeakWasReached'
<1> SUFFICES ASSUME MonitorInv, [Next]_vars PROVE PeakWasReached'
  OBVIOUS
<1> USE DEF MonitorInv, builderVars, monitorVars, history
<1>1. CASE ReadBaseline
  <2>1. peak' = 0
    BY <1>1 DEF ReadBaseline, ThreadsAgree
  <2>2. Usage(entry', lowest') \in Nat /\ entry' \in Nat
    BY <1>1 DEF ReadBaseline, TypeOK, Usage
  <2> QED
    BY <2>1, <2>2 DEF PeakWasReached
<1>2. CASE UpdatePeak
  <2>1. /\ baseline \in Nat /\ entry \in Nat /\ baseline <= entry
        /\ sampled \in Nat /\ lowest \in Nat /\ peak \in Nat
    BY <1>2 DEF UpdatePeak, TypeOK, ThreadsAgree, SampleIsStale
  <2>2. Usage(baseline, sampled) \in 0..baseline
    BY <2>1, UsageMonotone
  <2>3. peak' <= entry
    BY <1>2, <2>1, <2>2 DEF UpdatePeak, Larger, PeakWasReached
  <2>4. ASSUME ~misread
        PROVE  peak' <= Usage(entry, lowest)
    <3>1. lowest <= sampled
      BY <1>2, <2>4 DEF UpdatePeak, SampleIsStale
    <3>2. Usage(baseline, sampled) <= Usage(entry, lowest)
      BY <2>1, <3>1, UsageMonotone
    <3> QED
      BY <1>2, <2>4, <3>2 DEF UpdatePeak, Larger, PeakWasReached
  <2> QED
    BY <1>2, <2>3, <2>4 DEF UpdatePeak, PeakWasReached
<1>3. CASE MemoryChanges
  <2>1. /\ lowest' \in Nat /\ lowest' <= lowest
        /\ lowest \in Nat /\ entry \in Nat /\ peak \in Nat
    BY <1>3, MonitorAssumption DEF MemoryChanges, TypeOK
  <2>2. /\ Usage(entry, lowest) <= Usage(entry, lowest')
        /\ Usage(entry, lowest) \in 0..entry
    BY <2>1, UsageMonotone
  <2>3. Usage(entry, lowest') \in 0..entry
    BY <2>1, UsageMonotone
  <2>4. ~misread => peak <= Usage(entry, lowest')
    BY <2>1, <2>2, <2>3 DEF PeakWasReached
  <2> QED
    BY <1>3, <2>4 DEF MemoryChanges, PeakWasReached
<1>4. CASE SampleFreeMemory
  BY <1>4 DEF SampleFreeMemory, PeakWasReached
<1>5. CASE UNCHANGED <<peak, entry, lowest, misread>>
  BY <1>5 DEF PeakWasReached
<1>6. \/ ReadBaseline \/ UpdatePeak \/ MemoryChanges \/ SampleFreeMemory
      \/ UNCHANGED <<peak, entry, lowest, misread>>
  BY DEF Next, Builder, Monitor, vars, StartThread, BodyWork, BodyLeaves,
     SetStopEvent, JoinAndReport, TestStopEvent, CheckThreshold, Wake
<1> QED
  BY <1>1, <1>2, <1>3, <1>4, <1>5, <1>6

LEMMA MonitorInvStep == MonitorInv /\ [Next]_vars => MonitorInv'
BY TypeStep, ControlStep, PeakStep DEF MonitorInv

(* The types hold for every machine and threshold. *)
THEOREM MonitorTypeCorrect == Spec => []TypeOK
<1>1. Init => TypeOK
  BY MonitorInvInit DEF MonitorInv
<1> QED
  BY <1>1, TypeStep, PTL DEF Spec

(* Whatever the order of sampling, updating and changes of the memory, and *)
(* whichever readings fail, the peak is at most what was free on entry;    *)
(* while no sample has failed it is a usage the machine really reached,    *)
(* and the monitor stops watching early only after the memory was below    *)
(* the threshold.                                                          *)
THEOREM PeakIsSound == Spec => []WatchIsSound
<1>1. MonitorInv => WatchIsSound
  BY DEF MonitorInv, EndIsExplained, MonitorOutlivesBody, WatchIsSound
<1> QED
  BY MonitorInvInit, MonitorInvStep, <1>1, PTL DEF Spec

(* join() is a barrier for every interleaving: after the block is left no  *)
(* step of the monitor changes what was reported.                          *)
THEOREM ReportedOnce == Spec => ReportIsFinal
<1>1. MonitorInv /\ [Next]_vars
      => [builder = "left" => UNCHANGED <<monitor, peak, announced>>]_vars
  BY DEF MonitorInv, ThreadsAgree, Next, Builder, Monitor, ReadBaseline,
     StartThread, BodyWork, BodyLeaves, SetStopEvent, JoinAndReport,
     TestStopEvent, SampleFreeMemory, UpdatePeak, CheckThreshold, Wake,
     MemoryChanges, vars, monitorVars, history
<1> QED
  BY MonitorInvInit, MonitorInvStep, <1>1, PTL DEF Spec, ReportIsFinal
=============================================================================
