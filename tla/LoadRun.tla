------------------------------- MODULE LoadRun -------------------------------
(***************************************************************************)
(* load/run.py and load/resource_monitor.py: the process that runs k6 and  *)
(* observes the job queue, the containers and the database meanwhile.      *)
(*                                                                         *)
(* Its main thread starts the observers, reads k6's output, and in a       *)
(* finally block stops the observers, compares k6's numbers with what      *)
(* InfluxDB stored and writes environment.json.  The observers are threads *)
(* that are not daemons: the process lives until they end.                 *)
(*                                                                         *)
(* What an observer sees is left out; what is kept is whether a sample     *)
(* was taken, failed with an exception its code catches, or with one it    *)
(* does not catch (a connection closed by InfluxDB is no URLError).        *)
(***************************************************************************)
EXTENDS Integers, FiniteSets

CONSTANTS MaxInterrupts, \* bound on Ctrl-C
          MaxErrors      \* bound on the kinds of errors noted

ASSUME BoundsAssumption == MaxInterrupts \in Nat /\ MaxErrors \in Nat

VARIABLES settings,   \* LOADTEST_RESOURCES and LOADTEST_GRAFANA
          main,       \* where the main thread is
          exitCode,   \* its exit code, or -1
          returnCode, \* the variable return_code
          k6,         \* the k6 process
          stats,      \* the docker stats process
          stop,       \* the event that stops watch_queue
          stopAll,    \* ResourceMonitor.stop_event
          watchers,   \* the three observers
          finalSample,\* watch_queue's local final_sample
          samples,    \* resource samples taken, and a queue sample since k6 ended
          errors,     \* the list `errors`, as a set
          verified,   \* grafanaMetricVerification
          interrupts  \* Ctrl-C pressed so far

vars == <<settings, main, exitCode, returnCode, k6, stats, stop, stopAll, watchers,
          finalSample, samples, errors, verified, interrupts>>
-----------------------------------------------------------------------------
Observers == {"queue", "containers", "db"}

Init ==
    /\ settings \in [resources : BOOLEAN, grafana : BOOLEAN]
    /\ main = "checking" /\ exitCode = -1 /\ returnCode = 1
    /\ k6 = "none" /\ stats = "none"
    /\ stop = FALSE /\ stopAll = FALSE
    /\ watchers = [o \in Observers |-> "none"]
    /\ finalSample = FALSE
    /\ samples = {} /\ errors = {}
    /\ verified = "unchecked"
    /\ interrupts = 0

processes == <<k6, stats>>
threads   == <<watchers, finalSample, samples>>

Over(o) == watchers[o] \in {"none", "done", "died"}

(* The process is gone: main ended and no observer is left.                *)
Ended == main \in {"ended", "aborted"} /\ \A o \in Observers : Over(o)

GoTo(place) == main' = place /\ UNCHANGED <<settings, exitCode>>

Exit(code) == main' = "ended" /\ exitCode' = code /\ UNCHANGED settings

Abort == main' = "aborted" /\ exitCode' = 130 /\ UNCHANGED settings

Become(o, state) == watchers' = [watchers EXCEPT ![o] = state]
-----------------------------------------------------------------------------
(* k6 or the accounts are missing, InfluxDB does not answer, jobs of an    *)
(* earlier run are pending, the application is not the local fake one.     *)
Refuse ==
    /\ main = "checking"
    /\ Exit(1)
    /\ UNCHANGED <<returnCode, processes, stop, stopAll, threads, errors, verified, interrupts>>

(* ResourceMonitor.start, then the thread of watch_queue.                  *)
StartResources ==
    /\ main = "checking"
    /\ GoTo("starting")
    /\ IF settings.resources
       THEN /\ stats' = "running"
            /\ watchers' = [watchers EXCEPT !["containers"] = "looking", !["db"] = "looking"]
       ELSE UNCHANGED <<stats, watchers>>
    /\ UNCHANGED <<returnCode, k6, stop, stopAll, finalSample, samples, errors, verified,
                   interrupts>>

StartQueueWatcher ==
    /\ main = "starting"
    /\ GoTo("launching")
    /\ Become("queue", "looking")
    /\ UNCHANGED <<returnCode, processes, stop, stopAll, finalSample, samples, errors,
                   verified, interrupts>>

LaunchK6 ==
    /\ main = "launching"
    /\ GoTo("reading")
    /\ k6' = "running"
    /\ UNCHANGED <<returnCode, stats, stop, stopAll, threads, errors, verified, interrupts>>

K6Ends ==
    /\ k6 = "running"
    /\ k6' \in {"passed", "failed"}
    /\ UNCHANGED <<settings, main, exitCode, returnCode, stats, stop, stopAll, threads, errors, verified,
                   interrupts>>

ReadResult ==
    /\ main = "reading"
    /\ k6 \in {"passed", "failed"}
    /\ returnCode' = IF k6 = "passed" THEN 0 ELSE 99
    /\ GoTo("stopping")
    /\ UNCHANGED <<processes, stop, stopAll, threads, errors, verified, interrupts>>

(* After Ctrl-C k6 is terminated and waited for, fifteen seconds at most.  *)
Terminate ==
    /\ main = "terminating"
    /\ k6' = IF k6 = "running" THEN "failed" ELSE k6
    /\ returnCode' = 130
    /\ GoTo("stopping")
    /\ UNCHANGED <<stats, stop, stopAll, threads, errors, verified, interrupts>>
-----------------------------------------------------------------------------
(* The finally block.                                                      *)
StopQueueWatcher ==
    /\ main = "stopping"
    /\ stop' = TRUE
    /\ GoTo("joinQueue")
    /\ UNCHANGED <<returnCode, processes, stopAll, threads, errors, verified, interrupts>>

JoinQueue ==
    /\ main = "joinQueue"
    /\ Over("queue")
    /\ GoTo(IF settings.resources THEN "stopResources" ELSE "verifying")
    /\ UNCHANGED <<returnCode, processes, stop, stopAll, threads, errors, verified, interrupts>>

(* Mutant of StopResources: docker stats is ended, the event is not set.   *)
StopStatsOnly ==
    /\ main = "stopResources"
    /\ stats' = "exited"
    /\ GoTo("joinContainers")
    /\ UNCHANGED <<returnCode, k6, stop, stopAll, threads, errors, verified, interrupts>>

(* ResourceMonitor.stop: the event, then docker stats is ended.            *)
StopResources ==
    /\ main = "stopResources"
    /\ stopAll' = TRUE
    /\ stats' = "exited"
    /\ GoTo("joinContainers")
    /\ UNCHANGED <<returnCode, k6, stop, threads, errors, verified, interrupts>>

(* join(timeout=30): a thread that is still alive is an error.             *)
JoinObserver(o, place, next) ==
    /\ main = place
    /\ errors' = IF Over(o) THEN errors ELSE errors \cup {"ThreadStopTimeout"}
    /\ GoTo(next)
    /\ UNCHANGED <<returnCode, processes, stop, stopAll, threads, verified, interrupts>>

(* Mutant of CountSamples: one kind of sample is enough.                   *)
CountSomeSamples ==
    /\ main = "counting"
    /\ errors' = IF samples \cap {"containers", "db"} # {} THEN errors
                 ELSE errors \cup {"MissingSamples"}
    /\ GoTo("verifying")
    /\ UNCHANGED <<returnCode, processes, stop, stopAll, threads, verified, interrupts>>

CountSamples ==
    /\ main = "counting"
    /\ errors' = IF {"containers", "db"} \subseteq samples THEN errors
                 ELSE errors \cup {"MissingSamples"}
    /\ GoTo("verifying")
    /\ UNCHANGED <<returnCode, processes, stop, stopAll, threads, verified, interrupts>>

(* verify_grafana_metrics: the stored counts are k6's or not, a query      *)
(* fails with an exception its caller expects, or with another one.        *)
Comparisons == {"matched", "mismatched", "refused", "traceback"}

(* k6's numbers are sent and compared.  Without its summary nothing is     *)
(* verified; a k6 that passes has written it.                              *)
VerifyMetrics ==
    /\ main = "verifying"
    /\ \/ /\ settings.grafana => k6 # "passed"
          /\ GoTo("saving")
          /\ UNCHANGED <<verified, errors>>
       \/ /\ settings.grafana
          /\ \E outcome \in Comparisons :
               /\ IF outcome = "traceback" THEN Exit(1) ELSE GoTo("saving")
               /\ verified' = IF outcome \in {"matched", "mismatched"} THEN outcome
                                                                       ELSE verified
               /\ errors' = errors \cup
                     CASE outcome = "mismatched" -> {"GrafanaMetricMismatch"}
                       [] outcome = "refused"    -> {"GrafanaMetrics"}
                       [] OTHER                  -> {}
    /\ UNCHANGED <<returnCode, processes, stop, stopAll, threads, interrupts>>

(* Mutant of SaveAndExit: k6's code alone decides.                         *)
SaveAndExitAsK6 ==
    /\ main = "saving"
    /\ Exit(returnCode)
    /\ UNCHANGED <<returnCode, processes, stop, stopAll, threads, errors, verified, interrupts>>

(* environment.json is written; k6's code wins over an observer's error.   *)
SaveAndExit ==
    /\ main = "saving"
    /\ Exit(IF returnCode # 0 THEN returnCode ELSE IF errors # {} THEN 1 ELSE 0)
    /\ UNCHANGED <<returnCode, processes, stop, stopAll, threads, errors, verified, interrupts>>
-----------------------------------------------------------------------------
(* watch_queue: the event is read before the sample is taken, so that the  *)
(* last sample is younger than the event.                                  *)
QueueLooks ==
    /\ watchers["queue"] = "looking"
    /\ finalSample' = stop
    /\ Become("queue", "sampling")
    /\ UNCHANGED <<settings, main, exitCode, returnCode, processes, stop, stopAll, samples, errors,
                   verified, interrupts>>

Failing == Cardinality(errors) < MaxErrors

(* snapshot counts the run's jobs as they are now.                         *)
Counted ==
    IF k6 \in {"passed", "failed"} THEN samples \cup {"afterLoad"} ELSE samples

QueueSamples ==
    /\ watchers["queue"] = "sampling"
    /\ \/ /\ samples' = Counted
          /\ Become("queue", "sampled")
          /\ UNCHANGED errors
       \/ /\ Failing
          /\ errors' = errors \cup {"QueueSample"}
          /\ Become("queue", "sampled")
          /\ UNCHANGED samples
       \/ /\ Failing
          /\ Become("queue", "died")
          /\ UNCHANGED <<samples, errors>>
    /\ UNCHANGED <<settings, main, exitCode, returnCode, processes, stop, stopAll, finalSample, verified,
                   interrupts>>

(* Mutant of WasFinal: the event is read again after the sample.           *)
WasFinalByEvent == stop

WasFinal == finalSample

QueueLoops ==
    /\ watchers["queue"] = "sampled"
    /\ Become("queue", IF WasFinal THEN "done" ELSE "looking")
    /\ UNCHANGED <<settings, main, exitCode, returnCode, processes, stop, stopAll, finalSample, samples,
                   errors, verified, interrupts>>

(* watch_containers reads a line of docker stats; any failure ends it.     *)
ContainersSample ==
    /\ watchers["containers"] = "looking"
    /\ stats = "running"
    /\ \/ stopAll /\ Become("containers", "done") /\ UNCHANGED <<samples, errors>>
       \/ ~stopAll /\ samples' = samples \cup {"containers"} /\ UNCHANGED <<watchers, errors>>
       \/ /\ ~stopAll /\ Failing
          /\ errors' = errors \cup {"ContainerResources"}
          /\ Become("containers", "done")
          /\ UNCHANGED samples
    /\ UNCHANGED <<settings, main, exitCode, returnCode, processes, stop, stopAll, finalSample, verified,
                   interrupts>>

(* docker stats ended: an error unless the monitor was being stopped.      *)
ContainersEnd ==
    /\ watchers["containers"] = "looking"
    /\ stats = "exited"
    /\ errors' = IF stopAll THEN errors ELSE errors \cup {"ContainerResources"}
    /\ Become("containers", "done")
    /\ UNCHANGED <<settings, main, exitCode, returnCode, processes, stop, stopAll, finalSample, samples,
                   verified, interrupts>>

StatsDies ==
    /\ stats = "running"
    /\ Failing
    /\ stats' = "exited"
    /\ UNCHANGED <<settings, main, exitCode, returnCode, k6, stop, stopAll, threads, errors, verified,
                   interrupts>>

(* watch_db: failing samples are noted and the loop goes on; only the file *)
(* that cannot be opened, before the first sample, ends it without a word. *)
DbSamples ==
    /\ watchers["db"] = "looking"
    /\ \/ stopAll /\ Become("db", "done") /\ UNCHANGED <<samples, errors>>
       \/ ~stopAll /\ samples' = samples \cup {"db"} /\ UNCHANGED <<watchers, errors>>
       \/ /\ ~stopAll /\ Failing
          /\ errors' = errors \cup {"DatabaseResources"}
          /\ UNCHANGED <<watchers, samples>>
       \/ "db" \notin samples /\ Become("db", "died") /\ UNCHANGED <<samples, errors>>
    /\ UNCHANGED <<settings, main, exitCode, returnCode, processes, stop, stopAll, finalSample, verified,
                   interrupts>>
-----------------------------------------------------------------------------
(* Ctrl-C.  The loop that reads k6's output expects it, the rest of the    *)
(* try block goes on in the finally block; elsewhere the main thread ends  *)
(* at once.  The terminal interrupts the children as well.                 *)
Interrupt ==
    /\ main \notin {"checking", "ended", "aborted"}
    /\ interrupts < MaxInterrupts
    /\ interrupts' = interrupts + 1
    /\ CASE main = "reading" -> GoTo("terminating")
         [] main \in {"terminating", "stopping"} -> GoTo("stopping")
         [] OTHER -> Abort
    /\ k6' = IF k6 = "running" THEN "failed" ELSE k6
    /\ stats' \in {stats, IF stats = "running" THEN "exited" ELSE stats}
    /\ UNCHANGED <<returnCode, stop, stopAll, threads, errors, verified>>

MainStep ==
    \/ Refuse \/ StartResources \/ StartQueueWatcher \/ LaunchK6
    \/ ReadResult \/ Terminate
    \/ StopQueueWatcher \/ JoinQueue \/ StopResources
    \/ JoinObserver("containers", "joinContainers", "joinDb")
    \/ JoinObserver("db", "joinDb", "counting")
    \/ CountSamples \/ VerifyMetrics \/ SaveAndExit

QueueStep == QueueLooks \/ QueueSamples \/ QueueLoops

ContainersStep == ContainersSample \/ ContainersEnd

Next ==
    \/ MainStep \/ K6Ends \/ QueueStep \/ ContainersStep \/ DbSamples
    \/ StatsDies \/ Interrupt
    \/ Ended /\ UNCHANGED vars

(* Threads run, calls out of the process have timeouts, k6's scenarios     *)
(* have a duration.                                                        *)
Fairness ==
    /\ WF_vars(MainStep) /\ WF_vars(K6Ends)
    /\ WF_vars(QueueStep) /\ WF_vars(ContainersStep) /\ WF_vars(DbSamples)

Spec == Init /\ [][Next]_vars /\ Fairness
-----------------------------------------------------------------------------
(* Exit code 0 is kept for a run whose load passed and which was observed: *)
(* both resource observers took samples and noticed no failure, not even   *)
(* one that comes after the code was chosen; InfluxDB holds k6's counts;   *)
(* and a queue watcher that did not die took its last sample after k6 had  *)
(* ended, or noted that the sample failed.                                 *)
ExitZeroIsClean ==
    exitCode = 0 =>
        /\ k6 = "passed" /\ errors = {}
        /\ settings.resources => {"containers", "db"} \subseteq samples
        /\ settings.grafana => verified = "matched"
        /\ watchers["queue"] = "done" => "afterLoad" \in samples

(* A run whose load has started ends with all its threads, whatever the    *)
(* observers meet and however often it is interrupted before the finally   *)
(* block.  (An interrupt before k6 is launched, or in the finally block,   *)
(* leaves observers behind that nobody stops.)                             *)
RunEnds == main = "reading" ~> Ended \/ main = "aborted"
=============================================================================
