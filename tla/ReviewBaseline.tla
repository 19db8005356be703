---------------------------- MODULE ReviewBaseline ----------------------------
(***************************************************************************)
(* load/review-baseline.py: the review queue measured on generated         *)
(* databases, and what its two followers import from it.                   *)
(*                                                                         *)
(* The three scripts work on one loadtest stack: the image its app tag     *)
(* names, the app container with the database it is connected to, and the  *)
(* databases.  Each keeps an experiment folder: experiment.json, one       *)
(* verification.json per finished load, profile files.  A session of a     *)
(* script holds the contents of experiment.json in memory and writes them  *)
(* now and then; it can be killed at any place, or leave its try block by  *)
(* an exception (a failing check, a lost connection, Ctrl-C), after which  *)
(* the finally block runs.  One session runs at a time.                    *)
(*                                                                         *)
(* Left out: what a response, an SQL digest or a plan contains.  A load is *)
(* sound if its responses and the collection of its samples were           *)
(* (overload, timeouts and missed thresholds are sound); rows of a         *)
(* database are empty, complete, or complete and changed by someone else.  *)
(***************************************************************************)
EXTENDS Naturals, Sequences, FiniteSets, SequencesExt

CONSTANTS Counts,   \* the sizes of the generated databases, in order
          Repeats,  \* how often a combination is measured
          Pages,    \* the pages a profile asks for, in order
          Images,   \* the app's images
          MaxFaults \* bound on kills, exceptions and changes from outside

ASSUME CountsAssumption == Counts \in Seq(Nat)

VARIABLES tag,     \* the image the compose file's tag names
          app,     \* the app container: its image and its database
          data,    \* the rows of every database
          script,  \* the script whose session runs, or "none"
          place,   \* where it is
          memory,  \* `metadata` (and PROOF) as the session holds it
          work,    \* its options, loop variables and the load at hand
          saved,   \* experiment.json (and comparability.json) on disk
          results, \* the verification.json files on disk
          files,   \* the profile files on disk
          loads,   \* the loads of the ablation started so far, in order
          faults   \* faults so far

process == <<script, place, work>>
stack   == <<tag, app, data>>
disk    == <<saved, results, files>>
vars    == <<stack, process, memory, disk, loads, faults>>
-----------------------------------------------------------------------------
Original == <<"original", 0>>

BaselineDb(count) == <<"baseline", count>>

OptimizedDb(count) == <<"optimized", count>>

Databases ==
    {Original} \cup {BaselineDb(c) : c \in Range(Counts)}
               \cup {OptimizedDb(c) : c \in Range(Counts)}

Experiments == {"baseline", "optimized", "ablation"}

Cases(repeat) ==
    IF repeat % 2 = 1 THEN <<"all", "status_period">> ELSE <<"status_period", "all">>

(* The order of the loads on one database.                                 *)
Items(count) ==
    [i \in 1..(2 * Repeats) |->
        [dataset |-> count, scenario |-> Cases((i + 1) \div 2)[2 - (i % 2)],
         repeat |-> (i + 1) \div 2, variant |-> "none"]]

Plan == UNION {Range(Items(c)) : c \in Range(Counts)}

Done(runs) == {r.item : r \in runs}

AllDone(items, runs) == Range(items) \subseteq Done(runs)

(* The first of the items that is not done.                                *)
IsNext(item, items, runs) ==
    \E k \in DOMAIN items :
       /\ items[k] = item /\ item \notin Done(runs)
       /\ \A j \in 1..(k - 1) : items[j] \in Done(runs)

OnePerItem(runs) == \A r, s \in runs : r.item = s.item => r = s

FirstPage(case) == <<case, 0>>

(* An experiment.json before anything is in it.                            *)
Blank ==
    [begun |-> FALSE, runs |-> {}, controls |-> {}, active |-> {}, datasets |-> {},
     fixtures |-> {}, profiled |-> FALSE, completed |-> FALSE, restored |-> FALSE,
     original |-> "none", images |-> [v \in {} |-> "none"], before |-> [d \in {} |-> "empty"]]

NoWork ==
    [counts |-> <<>>, pages |-> <<>>, profiles |-> <<>>, item |-> {}, row |-> {},
     fresh |-> FALSE, previous |-> {}, profileOnly |-> FALSE, image |-> "none"]

Init ==
    /\ tag \in Images /\ app = [image |-> tag, database |-> Original]
    /\ data = [d \in Databases |-> IF d = Original THEN "complete" ELSE "absent"]
    /\ script = "none" /\ place = "idle"
    /\ memory = Blank /\ work = NoWork
    /\ saved = [e \in Experiments |-> Blank]
    /\ results = [e \in Experiments \cup {"controls"} |-> {}]
    /\ files = {}
    /\ loads = <<>>
    /\ faults = 0

At(s, step) == script = s /\ place = step

Go(step) == place' = step /\ UNCHANGED script

Enter(s, step) == script = "none" /\ script' = s /\ place' = step

Exit == script' = "none" /\ place' = "idle" /\ work' = NoWork

Save(e) == saved' = [saved EXCEPT ![e] = memory'] /\ UNCHANGED <<results, files>>

Fault == faults < MaxFaults /\ faults' = faults + 1

(* The compose file's app, recreated from the tag and connected to d; the  *)
(* migrations give a new database its empty tables.                        *)
Connect(image, d) ==
    /\ tag' = image
    /\ app' = [image |-> image, database |-> d]
    /\ data' = [data EXCEPT ![d] = IF @ = "absent" THEN "empty" ELSE @]
-----------------------------------------------------------------------------
(* One measurement, shared by the three scripts.                           *)

(* A page is compared with what the generated rows must answer.  Rows that *)
(* were changed answer so or not.                                          *)
AsExpected == IF data[app.database] = "changed" THEN BOOLEAN ELSE {TRUE}

(* measure: the app is restarted, one response compared with what it must  *)
(* be, a first load applied to warm the app up; then the load itself.      *)
StartLoad(s, accepted) ==
    /\ At(s, "measuring")
    /\ Go(IF accepted THEN "loading" ELSE "finally")
    /\ UNCHANGED <<stack, work, disk, faults>>

(* The result is written before it is judged.                              *)
FinishLoad(s) ==
    /\ At(s, "loading")
    /\ \E sound \in BOOLEAN :
       \E item \in work.item :
         LET row == [item |-> item, image |-> app.image, database |-> app.database,
                     sound |-> sound,
                     nr |-> Cardinality({r \in results[s] : r.item = item})]
         IN  /\ results' = [results EXCEPT ![s] = @ \cup {row}]
             /\ IF sound THEN /\ Go("measured")
                              /\ work' = [work EXCEPT !.row = {row}, !.item = {}]
                              /\ UNCHANGED faults
                         ELSE Go("finally") /\ Fault /\ UNCHANGED work
    /\ UNCHANGED <<stack, memory, saved, files, loads>>
-----------------------------------------------------------------------------
(* The sessions of review-baseline.py.                                     *)
Begin(profileOnly) == [NoWork EXCEPT !.counts = Counts, !.profileOnly = profileOnly]

StartBaseline(profileOnly) ==
    /\ ~saved["baseline"].begun
    /\ Enter("baseline", "dataset")
    /\ memory' = [Blank EXCEPT !.begun = TRUE]
    /\ work' = [Begin(profileOnly) EXCEPT !.fresh = TRUE]
    /\ Save("baseline")
    /\ UNCHANGED <<stack, loads, faults>>

(* experiment.json on --resume, with the results it has not noted.         *)
Resumed(record, found) ==
    [record EXCEPT !.runs = @ \cup found, !.completed = FALSE, !.restored = FALSE]

(* Mutant of Reopenable: an experiment of one's own is always begun anew.  *)
ReopenableAnew(previous, resume) ==
    resume => OnePerItem(previous.runs \cup results["baseline"])

(* With --resume two results of one combination are refused, without it an *)
(* experiment.json that holds runs.                                        *)
Reopenable(previous, resume) ==
    IF resume THEN OnePerItem(previous.runs \cup results["baseline"])
              ELSE previous.runs = {}

(* --experiment: with --resume its experiment.json is continued with the   *)
(* results on disk, without it a new one is begun in the same folder.      *)
ReopenBaseline(resume, profileOnly) ==
    LET previous == saved["baseline"]
    IN  /\ previous.begun
        /\ Reopenable(previous, resume)
        /\ Enter("baseline", "dataset")
        /\ memory' = IF resume THEN Resumed(previous, results["baseline"])
                               ELSE [Blank EXCEPT !.begun = TRUE]
        /\ work' = [Begin(profileOnly) EXCEPT !.previous = previous.datasets]
        /\ Save("baseline")
        /\ UNCHANGED <<stack, loads, faults>>

DatasetDone == AllDone(Items(Head(work.counts)), memory.runs)

SkipDataset ==
    /\ At("baseline", "dataset")
    /\ work.counts # <<>> /\ ~work.profileOnly /\ DatasetDone
    /\ work' = [work EXCEPT !.counts = Tail(@)]
    /\ UNCHANGED <<stack, script, place, memory, disk, loads, faults>>

ConfigureDataset ==
    /\ At("baseline", "dataset")
    /\ work.counts # <<>> /\ (work.profileOnly \/ ~DatasetDone)
    /\ Connect(tag, BaselineDb(Head(work.counts)))
    /\ Go("seeding")
    /\ UNCHANGED <<work, memory, disk, loads, faults>>

(* seed generates employees, receipts and jobs, in an empty database only. *)
Seeded(rows) == IF rows = "empty" THEN "complete" ELSE rows

(* A new experiment fills the database; another one needs what an earlier  *)
(* session noted of it.                                                    *)
Seed ==
    LET count  == Head(work.counts)
        rows   == data[BaselineDb(count)]
        usable == IF work.fresh THEN rows = "empty"
                  ELSE count \in work.previous /\ rows # "empty"
    IN  /\ At("baseline", "seeding")
        /\ data' = IF work.fresh THEN [data EXCEPT ![BaselineDb(count)] = Seeded(@)] ELSE data
        /\ IF usable
           THEN /\ memory' = [memory EXCEPT !.datasets = @ \cup {count}]
                /\ Save("baseline")
                /\ work' = [work EXCEPT !.pages = IF work.fresh THEN Pages ELSE <<>>]
                /\ Go("profiling")
           ELSE Go("finally") /\ UNCHANGED <<memory, work, disk>>
        /\ UNCHANGED <<tag, app, loads, faults>>

(* fixture keeps the response to a page; everybody else's responses will   *)
(* be compared with it.                                                    *)
KeptFixture(count, page) == <<"fixture", BaselineDb(count), page>>

(* profile: the response, the counters of a hundred requests and the plans *)
(* of a page are written, over older ones if there are any.                *)
ProfileBaselinePage ==
    /\ At("baseline", "profiling") /\ work.pages # <<>>
    /\ LET count == Head(work.counts)
           page  == Head(work.pages)
       IN  \/ /\ TRUE \in AsExpected
              /\ files' = files \cup {KeptFixture(count, page)}
                     \cup {<<kind, BaselineDb(count), page>> : kind \in {"serial", "plans"}}
              /\ work' = [work EXCEPT !.pages = Tail(@)]
              /\ UNCHANGED <<script, place>>
           \/ FALSE \in AsExpected /\ Go("finally") /\ UNCHANGED <<files, work>>
    /\ UNCHANGED <<stack, memory, saved, results, loads, faults>>

EndBaselineProfile ==
    /\ At("baseline", "profiling") /\ work.pages = <<>>
    /\ IF work.profileOnly
       THEN Go("dataset") /\ work' = [work EXCEPT !.counts = Tail(@)]
       ELSE Go("running") /\ UNCHANGED work
    /\ UNCHANGED <<stack, memory, disk, loads, faults>>

NextLoad(s) ==
    /\ At(s, "running")
    /\ \/ /\ DatasetDone
          /\ Go("dataset")
          /\ work' = [work EXCEPT !.counts = Tail(@)]
       \/ \E item \in Range(Items(Head(work.counts))) :
             /\ IsNext(item, Items(Head(work.counts)), memory.runs)
             /\ Go("measuring")
             /\ work' = [work EXCEPT !.item = {item}]
    /\ UNCHANGED <<stack, memory, disk, loads, faults>>

StartBaselineLoad ==
    /\ \E accepted \in AsExpected : StartLoad("baseline", accepted)
    /\ UNCHANGED <<memory, loads>>

NoteBaselineRun ==
    /\ At("baseline", "measured")
    /\ memory' = [memory EXCEPT !.runs = @ \cup work.row]
    /\ work' = [work EXCEPT !.row = {}]
    /\ Save("baseline")
    /\ Go("running")
    /\ UNCHANGED <<stack, loads, faults>>

FinishBaseline ==
    /\ At("baseline", "dataset") /\ work.counts = <<>>
    /\ memory' = [memory EXCEPT !.completed = TRUE]
    /\ Go("finally")
    /\ UNCHANGED <<stack, work, disk, loads, faults>>

(* The finally block: the app as the compose file has it; the rows of the  *)
(* original database are counted.                                          *)
RestoreBaseline ==
    /\ At("baseline", "finally")
    /\ Connect(tag, Original)
    /\ memory' = Blank
    /\ saved' = [saved EXCEPT !["baseline"] = [memory EXCEPT !.restored = TRUE]]
    /\ Exit
    /\ UNCHANGED <<results, files, loads, faults>>

BaselineNext ==
    \/ \E profileOnly \in BOOLEAN :
         \/ StartBaseline(profileOnly)
         \/ \E resume \in BOOLEAN : ReopenBaseline(resume, profileOnly)
    \/ SkipDataset \/ ConfigureDataset \/ Seed
    \/ ProfileBaselinePage \/ EndBaselineProfile
    \/ NextLoad("baseline") \/ StartBaselineLoad \/ FinishLoad("baseline") \/ NoteBaselineRun
    \/ FinishBaseline \/ RestoreBaseline
-----------------------------------------------------------------------------
(* What can happen to any session, and between sessions.                   *)
Kill ==
    /\ script # "none"
    /\ Fault
    /\ Exit
    /\ memory' = Blank
    /\ UNCHANGED <<stack, disk, loads>>

(* An exception inside the try block.                                      *)
Raise ==
    /\ script # "none" /\ place # "finally"
    /\ Fault
    /\ Go("finally")
    /\ UNCHANGED <<stack, work, memory, disk, loads>>

(* The finally block fails: compose does not start the app, or the app     *)
(* does not answer in ninety seconds.                                      *)
RestoreFails ==
    /\ At(script, "finally") /\ script # "none"
    /\ Fault
    /\ IF script = "baseline" THEN UNCHANGED tag ELSE tag' \in {tag, work.image}
    /\ app' \in {app, [image |-> tag', database |-> Original]}
    /\ Exit
    /\ memory' = Blank
    /\ UNCHANGED <<data, disk, loads>>

(* Somebody changes rows.                                                  *)
ChangeRows ==
    /\ Fault
    /\ \E d \in Databases :
         /\ data[d] = "complete"
         /\ data' = [data EXCEPT ![d] = "changed"]
    /\ UNCHANGED <<tag, app, process, memory, disk, loads>>

(* Between sessions the stack is brought up by hand, with any image.       *)
Deploy ==
    /\ script = "none"
    /\ \E image \in Images : Connect(image, Original)
    /\ UNCHANGED <<process, memory, disk, loads, faults>>
=============================================================================
