---------------------------- MODULE LoadRunProofs ----------------------------
(***************************************************************************)
(* A theorem about load/run.py and its observers, for any number of        *)
(* interrupts and of errors.                                               *)
(***************************************************************************)
EXTENDS LoadRun, TLAPS

Places ==
    {"checking", "starting", "launching", "reading", "terminating", "stopping",
     "joinQueue", "stopResources", "joinContainers", "joinDb", "counting", "verifying",
     "saving", "ended", "aborted"}

Types ==
    /\ settings \in [resources : BOOLEAN, grafana : BOOLEAN]
    /\ main \in Places
    /\ exitCode \in Int /\ returnCode \in Int
    /\ k6 \in {"none", "running", "passed", "failed"}
    /\ stop \in BOOLEAN /\ finalSample \in BOOLEAN
    /\ watchers \in [Observers -> {"none", "looking", "sampling", "sampled", "done", "died"}]

K6Over == k6 \in {"passed", "failed"}

(* The finally block is reached after k6 has ended, and the event that     *)
(* stops watch_queue is set there.                                         *)
Load ==
    /\ main \in {"checking", "starting", "launching"} => k6 = "none"
    /\ main \in {"reading", "terminating"} => k6 # "none"
    /\ main \in {"checking", "starting", "launching", "reading", "terminating"} =>
          returnCode = 1 /\ ~stop
    /\ main \notin {"checking", "starting", "launching", "reading", "terminating", "aborted",
                    "ended"} => K6Over
    /\ returnCode = 0 => k6 = "passed"
    /\ stop => K6Over

(* The sample that is to be the last one is taken after k6 has ended.      *)
LastSample ==
    /\ watchers["queue"] = "sampling" /\ finalSample => K6Over
    /\ \/ watchers["queue"] = "sampled" /\ finalSample
       \/ watchers["queue"] = "done"
       => "afterLoad" \in samples \/ errors # {}

AfterQueue == {"stopResources", "joinContainers", "joinDb", "counting", "verifying", "saving"}

AfterContainers == {"joinDb", "counting", "verifying", "saving"}

AfterDb == {"counting", "verifying", "saving"}

(* An observer that has been joined is over, or its join was an error.     *)
Joined ==
    /\ ~settings.resources => watchers["containers"] = "none" /\ watchers["db"] = "none"
    /\ main \in AfterQueue => Over("queue")
    /\ main \in AfterContainers /\ errors = {} => Over("containers")
    /\ main \in AfterDb /\ errors = {} => Over("db")

(* What the finally block has established, unless it noted an error.       *)
Established ==
    /\ main \in {"verifying", "saving"} /\ errors = {} /\ settings.resources =>
          {"containers", "db"} \subseteq samples
    /\ main = "saving" /\ errors = {} /\ settings.grafana /\ k6 = "passed" =>
          verified = "matched"

(* The process has left exit code 0, and nobody is left who could find an  *)
(* error.                                                                  *)
Clean ==
    exitCode = 0 =>
        /\ main = "ended" /\ \A o \in Observers : Over(o)
        /\ k6 = "passed" /\ errors = {}
        /\ settings.resources => {"containers", "db"} \subseteq samples
        /\ settings.grafana => verified = "matched"

Inv == Types /\ Load /\ LastSample /\ Joined /\ Established /\ Clean
-----------------------------------------------------------------------------
LEMMA InitInv == ASSUME Init PROVE Inv
<1>1. Types
  <2>1. exitCode \in Int
    BY DEF Init
  <2>2. watchers \in [Observers -> {"none", "looking", "sampling", "sampled", "done", "died"}]
    BY DEF Init
  <2>3. settings \in [resources : BOOLEAN, grafana : BOOLEAN] /\ returnCode \in Int
    BY DEF Init
  <2> QED
    BY <2>1, <2>2, <2>3 DEF Init, Types, Places
<1>2. watchers["queue"] = "none" /\ watchers["containers"] = "none" /\ watchers["db"] = "none"
  BY DEF Init, Observers
<1>3. Load /\ LastSample /\ Joined /\ Established /\ Clean
  BY <1>2 DEF Init, Load, LastSample, Joined, AfterQueue, AfterContainers, AfterDb,
              Established, Clean
<1> QED
  BY <1>1, <1>3 DEF Inv

LEMMA MainInv == ASSUME Inv, MainStep PROVE Inv'
<1> USE DEF Inv, GoTo, Exit, Become, processes, threads, Types, Places, Load, K6Over,
            LastSample, Joined, Over, AfterQueue, AfterContainers, AfterDb, Established, Clean,
            Observers
<1>1. CASE Refuse
  BY <1>1 DEF Refuse
<1>2. CASE StartResources
  BY <1>2 DEF StartResources
<1>3. CASE StartQueueWatcher
  BY <1>3 DEF StartQueueWatcher
<1>4. CASE LaunchK6
  BY <1>4 DEF LaunchK6
<1>5. CASE ReadResult
  BY <1>5 DEF ReadResult
<1>6. CASE Terminate
  BY <1>6 DEF Terminate
<1>7. CASE StopQueueWatcher
  BY <1>7 DEF StopQueueWatcher
<1>8. CASE JoinQueue
  BY <1>8 DEF JoinQueue
<1>9. CASE StopResources
  BY <1>9 DEF StopResources
<1>10. CASE JoinObserver("containers", "joinContainers", "joinDb")
  BY <1>10 DEF JoinObserver
<1>11. CASE JoinObserver("db", "joinDb", "counting")
  BY <1>11 DEF JoinObserver
<1>12. CASE CountSamples
  BY <1>12 DEF CountSamples
<1>13. CASE VerifyMetrics
  BY <1>13 DEF VerifyMetrics, Comparisons
<1>14. CASE SaveAndExit
  BY <1>14 DEF SaveAndExit
<1> QED
  BY <1>1, <1>2, <1>3, <1>4, <1>5, <1>6, <1>7, <1>8, <1>9, <1>10, <1>11, <1>12, <1>13, <1>14
     DEF MainStep

LEMMA ObserversInv ==
    ASSUME Inv, QueueStep \/ ContainersStep \/ DbSamples PROVE Inv'
<1> USE DEF Inv, Become, processes, Types, Places, Load, K6Over, LastSample, Joined, Over,
            AfterQueue, AfterContainers, AfterDb, Established, Clean, Observers
<1>1. CASE QueueLooks
  BY <1>1 DEF QueueLooks
<1>2. CASE QueueSamples
  BY <1>2 DEF QueueSamples, Counted
<1>3. CASE QueueLoops
  BY <1>3 DEF QueueLoops, WasFinal
<1>4. CASE ContainersSample
  BY <1>4 DEF ContainersSample
<1>5. CASE ContainersEnd
  BY <1>5 DEF ContainersEnd
<1>6. CASE DbSamples
  BY <1>6 DEF DbSamples
<1> QED
  BY <1>1, <1>2, <1>3, <1>4, <1>5, <1>6 DEF QueueStep, ContainersStep

LEMMA OutsideInv ==
    ASSUME Inv, K6Ends \/ StatsDies \/ Interrupt \/ UNCHANGED vars PROVE Inv'
<1> USE DEF Inv, GoTo, Abort, threads, Types, Places, Load, K6Over, LastSample, Joined, Over,
            AfterQueue, AfterContainers, AfterDb, Established, Clean, Observers
<1>1. CASE K6Ends
  BY <1>1 DEF K6Ends
<1>2. CASE StatsDies
  BY <1>2 DEF StatsDies
<1>3. CASE Interrupt
  BY <1>3 DEF Interrupt
<1>4. CASE UNCHANGED vars
  BY <1>4 DEF vars
<1> QED
  BY <1>1, <1>2, <1>3, <1>4

(* Exit code 0 is kept for a run whose load passed and which was observed  *)
(* until its end (main of run.py, ResourceMonitor.stop).  The argument:    *)
(* an observer that outlives its join is an error, so whoever could still  *)
(* find one after the code is chosen is over by then; and the last sample  *)
(* of watch_queue follows the event, which follows the end of k6.          *)
THEOREM CleanExit == Spec => []ExitZeroIsClean
<1>1. Init => Inv
  BY InitInv
<1>2. Inv /\ [Next]_vars => Inv'
  BY MainInv, ObserversInv, OutsideInv DEF Next
<1>3. Inv => ExitZeroIsClean
  BY DEF Inv, Clean, LastSample, ExitZeroIsClean
<1> QED
  BY <1>1, <1>2, <1>3, PTL DEF Spec
=============================================================================
