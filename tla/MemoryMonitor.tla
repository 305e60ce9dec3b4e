---------------------------- MODULE MemoryMonitor ----------------------------
(***************************************************************************)
(* monitor_memory_usage() of recipes/conan-utils/all/src/limit_jobs.py: a  *)
(* context manager that samples the free memory in a second thread while   *)
(* the body of a "with" statement (the build) runs, reports the peak usage *)
(* when the body leaves, and announces that it terminates the build when   *)
(* the free memory falls below a threshold.                                *)
(*                                                                         *)
(* Two threads (the builder, which runs the body and then the finally      *)
(* clause, and the monitor) and the machine, whose free memory may change  *)
(* between any two of their steps.  A reading of the free memory may fail, *)
(* and then looks like less memory than there is.                          *)
(***************************************************************************)
EXTENDS Naturals

CONSTANTS
    MaxMemory,   \* the memory of the machine, in GB
    Threshold,   \* terminate_threshold_gb; 0 stands for None
    MaxWork      \* bound: the number of steps of the body that are followed

ASSUME MonitorAssumption ==
    /\ MaxMemory \in Nat
    /\ Threshold \in Nat
    /\ MaxWork \in Nat

VARIABLES
    builder,     \* where the thread that runs the "with" statement is
    monitor,     \* where monitor() is
    free,        \* the free memory of the machine
    baseline,    \* baseline_mem_usage: the free memory on entry
    sampled,     \* monitor's local variable free
    peak,        \* the shared peak_mem_usage
    stopEvent,   \* the threading.Event stop_event
    announced,   \* "Terminating the build as ..." was logged
    raised,      \* the body left by an exception
    work,        \* steps the body has made
    entry,       \* history: the free memory on entry
    lowest,      \* history: the least free memory since the entry
    misread      \* history: a sample was less than the free memory

vars == <<builder, monitor, free, baseline, sampled, peak, stopEvent,
          announced, raised, work, entry, lowest, misread>>

builderVars == <<builder, baseline, stopEvent, raised, work>>
monitorVars == <<monitor, sampled, peak, announced>>
history == <<entry, lowest, misread>>

Larger(a, b) == IF a < b THEN b ELSE a

(* baseline_mem_usage - free, which the maximum with peak_mem_usage >= 0   *)
(* cuts off at 0.                                                          *)
Usage(base, now) == IF base < now THEN 0 ELSE base - now

(* What _get_free_memory_gb() may return.  Every failure on its way ends   *)
(* in a number: 0 when psutil and the platform's own probe fail, a part of *)
(* the sum when some of the sysctl keys cannot be read.                    *)
FreeMemoryReadings == 0..free

Init ==
    /\ builder = "enter"
    /\ monitor = "unstarted"
    /\ free \in 0..MaxMemory
    /\ baseline = 0
    /\ sampled = 0
    /\ peak = 0
    /\ stopEvent = FALSE
    /\ announced = FALSE
    /\ raised = FALSE
    /\ work = 0
    /\ entry = free
    /\ lowest = free
    /\ misread = FALSE
-----------------------------------------------------------------------------
(* The builder. *)

ReadBaseline ==
    /\ builder = "enter"
    /\ builder' = "start"
    /\ baseline' \in FreeMemoryReadings
    /\ entry' = free
    /\ lowest' = free
    /\ UNCHANGED <<free, stopEvent, raised, work, misread, monitorVars>>

StartThread ==
    /\ builder = "start"
    /\ builder' = "body"
    /\ monitor' = "test"
    /\ UNCHANGED <<free, baseline, stopEvent, raised, work, sampled, peak,
                   announced, history>>

BodyWork ==
    /\ builder = "body"
    /\ work < MaxWork
    /\ work' = work + 1
    /\ UNCHANGED <<builder, free, baseline, stopEvent, raised, monitorVars, history>>

BodyLeaves ==
    /\ builder = "body"
    /\ builder' = "finally"
    /\ raised' \in BOOLEAN
    /\ UNCHANGED <<free, baseline, stopEvent, work, monitorVars, history>>

(* Mutant of SetStopEvent: stop_event.set() outside the finally clause. *)
SetStopEventOnSuccess ==
    /\ builder = "finally"
    /\ builder' = "join"
    /\ stopEvent' = ~raised
    /\ UNCHANGED <<free, baseline, raised, work, monitorVars, history>>

SetStopEvent ==
    /\ builder = "finally"
    /\ builder' = "join"
    /\ stopEvent' = TRUE
    /\ UNCHANGED <<free, baseline, raised, work, monitorVars, history>>

(* Mutant of JoinAndReport: the peak is reported without join(). *)
ReportWithoutJoin ==
    /\ builder = "join"
    /\ builder' = "left"
    /\ UNCHANGED <<free, baseline, stopEvent, raised, work, monitorVars, history>>

(* monitor_thread.join() returns; the peak is read and the block is left.  *)
JoinAndReport ==
    /\ builder = "join"
    /\ monitor = "ended"
    /\ builder' = "left"
    /\ UNCHANGED <<free, baseline, stopEvent, raised, work, monitorVars, history>>
-----------------------------------------------------------------------------
(* The monitor thread. *)

TestStopEvent ==
    /\ monitor = "test"
    /\ monitor' = IF stopEvent THEN "ended" ELSE "sample"
    /\ UNCHANGED <<free, sampled, peak, announced, builderVars, history>>

SampleFreeMemory ==
    /\ monitor = "sample"
    /\ monitor' = "update"
    /\ sampled' \in FreeMemoryReadings
    /\ misread' = (misread \/ sampled' < free)
    /\ UNCHANGED <<free, peak, announced, entry, lowest, builderVars>>

(* Mutant of UpdatePeak: what was in use before the entry counts as well. *)
UpdatePeakFromZero ==
    /\ monitor = "update"
    /\ monitor' = "check"
    /\ peak' = Larger(peak, Usage(MaxMemory, sampled))
    /\ UNCHANGED <<free, sampled, announced, builderVars, history>>

(* Mutant of UpdatePeak: usages are added up instead of compared. *)
UpdatePeakAccumulates ==
    /\ monitor = "update"
    /\ monitor' = "check"
    /\ peak' = peak + Usage(baseline, sampled)
    /\ UNCHANGED <<free, sampled, announced, builderVars, history>>

UpdatePeak ==
    /\ monitor = "update"
    /\ monitor' = "check"
    /\ peak' = Larger(peak, Usage(baseline, sampled))
    /\ UNCHANGED <<free, sampled, announced, builderVars, history>>

(* Mutant of CheckThreshold: the comparison the wrong way round. *)
CheckThresholdSwapped ==
    /\ monitor = "check"
    /\ IF Threshold < sampled
       THEN monitor' = "ended" /\ announced' = TRUE
       ELSE monitor' = "wait" /\ UNCHANGED announced
    /\ UNCHANGED <<free, sampled, peak, builderVars, history>>

(* sys.exit(1) raises SystemExit, which threading drops: it ends this      *)
(* thread and nothing else.                                                *)
CheckThreshold ==
    /\ monitor = "check"
    /\ IF sampled < Threshold
       THEN monitor' = "ended" /\ announced' = TRUE
       ELSE monitor' = "wait" /\ UNCHANGED announced
    /\ UNCHANGED <<free, sampled, peak, builderVars, history>>

(* stop_event.wait(0.1) returns when the event is set or the time is up.   *)
Wake ==
    /\ monitor = "wait"
    /\ monitor' = "test"
    /\ UNCHANGED <<free, sampled, peak, announced, builderVars, history>>
-----------------------------------------------------------------------------
(* The build and every other process of the machine. *)
MemoryChanges ==
    /\ builder # "left"
    /\ free' \in 0..MaxMemory
    /\ lowest' = IF free' < lowest THEN free' ELSE lowest
    /\ UNCHANGED <<entry, misread, builderVars, monitorVars>>

Builder == ReadBaseline \/ StartThread \/ BodyWork \/ BodyLeaves
           \/ SetStopEvent \/ JoinAndReport

Monitor == TestStopEvent \/ SampleFreeMemory \/ UpdatePeak
           \/ CheckThreshold \/ Wake

Next == Builder \/ Monitor \/ MemoryChanges

Spec == Init /\ [][Next]_vars

(* Both threads are scheduled, and the time of wait(0.1) passes.  Nothing  *)
(* forces the body to leave.                                               *)
Fairness == WF_vars(SetStopEvent) /\ WF_vars(JoinAndReport) /\ WF_vars(Monitor)

FairSpec == Spec /\ Fairness
-----------------------------------------------------------------------------
(* The state has its types. *)
TypeOK ==
    /\ builder \in {"enter", "start", "body", "finally", "join", "left"}
    /\ monitor \in {"unstarted", "test", "sample", "update", "check", "wait",
                    "ended"}
    /\ free \in 0..MaxMemory
    /\ baseline \in 0..MaxMemory
    /\ sampled \in 0..MaxMemory
    /\ peak \in 0..MaxMemory
    /\ stopEvent \in BOOLEAN
    /\ announced \in BOOLEAN
    /\ raised \in BOOLEAN
    /\ work \in 0..MaxWork
    /\ entry \in 0..MaxMemory
    /\ lowest \in 0..MaxMemory
    /\ misread \in BOOLEAN

(* The reported peak was really reached: sampling, on which the two        *)
(* threads race with the machine, never overstates what the block used,    *)
(* unless a sample itself failed; and it is never more than was free on    *)
(* entry, whatever the samples and the reading on line 36 returned.        *)
PeakWasReached ==
    /\ peak <= entry
    /\ ~misread => peak <= Usage(entry, lowest)

(* join() is a barrier: once the block is left no thread touches the peak, *)
(* so the value printed is the final one.                                  *)
ReportIsFinal ==
    [][builder = "left" => UNCHANGED <<monitor, peak, announced>>]_vars

(* While the build has not come near the end of the memory, the monitor    *)
(* keeps watching it: it leaves early only after the memory was below the  *)
(* threshold, or after a sample failed.                                    *)
MonitorOutlivesBody ==
    monitor = "ended" =>
        stopEvent \/ (announced /\ (misread \/ lowest < Threshold))

(* What the monitor promises, racing with build and machine.              *)
WatchIsSound == PeakWasReached /\ MonitorOutlivesBody

(* However the body leaves, and wherever the monitor is at that moment,    *)
(* the finally clause completes and the caller gets control back.          *)
BlockIsLeft == (builder = "finally") ~> (builder = "left")

(* "Terminating the build as the free memory is below ...": the build does *)
(* nothing more once that is logged.                                       *)
AnnouncedMeansTerminated == [][announced => work' = work]_vars
=============================================================================
