---------------------------- MODULE ReviewOptimized ----------------------------
(***************************************************************************)
(* load/review-optimized.py: the improved image measured against the       *)
(* baseline.  A first session, --prepare-controls, repeats one load per    *)
(* database with the old image; later sessions copy the databases, profile *)
(* the new image and measure it, and leave it deployed.                    *)
(***************************************************************************)
EXTENDS ReviewBaseline

SoundRuns(runs) == \A r \in runs : r.sound

(* check_baseline.                                                         *)
BaselineIsComplete ==
    /\ saved["baseline"].completed
    /\ Cardinality(saved["baseline"].runs) = Cardinality(Plan)

BaselineImages == {r.image : r \in saved["baseline"].runs}

(* The old responses to a page of a database exist.                        *)
HasFixture(count, page) == KeptFixture(count, page) \in files

(* app_state: the app is connected to its own database.                    *)
OnOriginal == app.database = Original

Recorded(record, d) == d \in DOMAIN record.before /\ record.before[d] = data[d]

Record(before, d) ==
    [x \in DOMAIN before \cup {d} |-> IF x = d THEN data[d] ELSE before[x]]

(* Mutant of CollectRuns: results are taken as they are.                   *)
CollectAnyRuns(s, runs) == OnePerItem(runs \cup results[s])

(* collect_runs accepts what is on disk and what is noted.                 *)
CollectRuns(s, runs) ==
    /\ SoundRuns(results[s])
    /\ OnePerItem(runs \cup results[s])

Control(count) ==
    [dataset |-> count, scenario |-> "all", repeat |-> 1, variant |-> "none"]
-----------------------------------------------------------------------------
(* prepare_controls.                                                       *)
StartControls ==
    /\ Cardinality(BaselineImages) = 1
    /\ OnOriginal
    /\ Enter("controls", "control")
    /\ LET before == CHOOSE image \in BaselineImages : TRUE
       IN  /\ memory' = [Blank EXCEPT !.begun = TRUE, !.original = app.image,
                                      !.images = [v \in {"before"} |-> before],
                                      !.before = Record(@, Original)]
           /\ work' = [NoWork EXCEPT !.counts = Counts, !.image = app.image]
    /\ Save("optimized")
    /\ UNCHANGED <<stack, loads, faults>>

ConfigureControl ==
    LET count == Head(work.counts)
    IN  /\ At("controls", "control") /\ work.counts # <<>>
        /\ memory' = [memory EXCEPT !.before = Record(@, BaselineDb(count))]
        /\ Connect(memory.images["before"], BaselineDb(count))
        /\ work' = [work EXCEPT !.item = {Control(count)}]
        /\ Go("measuring")
        /\ UNCHANGED <<disk, loads, faults>>

NoteControl ==
    /\ At("controls", "measured")
    /\ memory' = [memory EXCEPT !.controls = @ \cup work.row]
    /\ work' = [work EXCEPT !.row = {}, !.counts = Tail(@)]
    /\ Save("optimized")
    /\ Go("control")
    /\ UNCHANGED <<stack, loads, faults>>

EndControls ==
    /\ At("controls", "control") /\ work.counts = <<>>
    /\ Go("finally")
    /\ UNCHANGED <<stack, work, memory, disk, loads, faults>>
-----------------------------------------------------------------------------
(* optimized: the record of an earlier session is checked and continued.   *)
StartOptimized(image, resume, profileOnly) ==
    LET record == saved["optimized"]
        images == record.images
    IN  /\ CollectRuns("controls", record.controls)
        /\ Cardinality(record.controls \cup results["controls"]) = Len(Counts)
        /\ CollectRuns("optimized", record.runs)
        /\ resume \/ record.runs \cup results["optimized"] = {}
        /\ image # images["before"]
        /\ "after" \in DOMAIN images => image = images["after"]
        /\ OnOriginal /\ Recorded(record, Original)
        /\ Enter("optimized", "dataset")
        /\ memory' = [record EXCEPT
               !.controls = @ \cup results["controls"], !.runs = @ \cup results["optimized"],
               !.images = [v \in {"before", "after"} |->
                              IF v = "after" THEN image ELSE images["before"]],
               !.completed = FALSE, !.restored = FALSE]
        /\ work' = [Begin(profileOnly) EXCEPT !.image = IF profileOnly THEN app.image ELSE image]
        /\ Save("optimized")
        /\ UNCHANGED <<stack, loads, faults>>

ConfigureCopy ==
    /\ At("optimized", "dataset") /\ work.counts # <<>>
    /\ Connect(memory.images["after"], OptimizedDb(Head(work.counts)))
    /\ Go("copying")
    /\ UNCHANGED <<work, memory, disk, loads, faults>>

(* copy_dataset: an empty database gets its rows in one transaction, a     *)
(* filled one keeps them.                                                  *)
CopiedRows(source, copy) == IF data[copy] = "empty" THEN data[source] ELSE data[copy]

(* The source is what the controls recorded, and the copy is the source.   *)
CopyDataset ==
    LET count  == Head(work.counts)
        source == BaselineDb(count)
        copy   == OptimizedDb(count)
        rows   == CopiedRows(source, copy)
    IN  /\ At("optimized", "copying")
        /\ data' = [data EXCEPT ![copy] = rows]
        /\ IF Recorded(memory, source) /\ rows = data[source]
           THEN /\ memory' = [memory EXCEPT !.datasets = @ \cup {count}]
                /\ Save("optimized")
                /\ work' = [work EXCEPT !.pages = Pages]
                /\ Go("profiling")
           ELSE Go("finally") /\ UNCHANGED <<memory, work, disk>>
        /\ UNCHANGED <<tag, app, loads, faults>>

(* fixture: the response is the old one, and that is noted.                *)
Compared(key) == [memory EXCEPT !.fixtures = @ \cup {key}]

(* The part of profile that is the same in the ablation: a page whose two  *)
(* files exist is only compared, one of them alone is never overwritten.   *)
ProfilePage(s, key, count) ==
    LET page  == Head(work.pages)
        kinds == {k \in {"serial", "plans"} : <<k, key, page>> \in files}
    IN  /\ At(s, "profiling") /\ work.pages # <<>>
        /\ \/ /\ FALSE \in AsExpected \/ ~HasFixture(count, page)
              /\ Go("finally")
              /\ UNCHANGED <<memory, work, files>>
           \/ /\ TRUE \in AsExpected /\ HasFixture(count, page)
              /\ memory' = Compared(<<key, page>>)
              /\ CASE kinds = {"serial", "plans"} ->
                        work' = [work EXCEPT !.pages = Tail(@)] /\ UNCHANGED <<place, script, files>>
                   [] kinds = {} ->
                        /\ files' = files \cup {<<"serial", key, page>>}
                        /\ Go("explaining")
                        /\ UNCHANGED work
                   [] OTHER -> Go("finally") /\ UNCHANGED <<work, files>>
        /\ UNCHANGED <<stack, saved, results, loads, faults>>

ExplainPage(s, key) ==
    /\ At(s, "explaining")
    /\ files' = files \cup {<<"plans", key, Head(work.pages)>>}
    /\ work' = [work EXCEPT !.pages = Tail(@)]
    /\ Go("profiling")
    /\ UNCHANGED <<stack, memory, saved, results, loads, faults>>

ProfileOptimizedPage ==
    /\ work.counts # <<>>
    /\ \/ ProfilePage("optimized", <<"optimized", Head(work.counts)>>, Head(work.counts))
       \/ ExplainPage("optimized", <<"optimized", Head(work.counts)>>)

EndOptimizedProfile ==
    /\ At("optimized", "profiling") /\ work.pages = <<>>
    /\ UNCHANGED memory /\ Save("optimized")
    /\ IF work.profileOnly
       THEN Go("dataset") /\ work' = [work EXCEPT !.counts = Tail(@)]
       ELSE Go("running") /\ UNCHANGED work
    /\ UNCHANGED <<stack, loads, faults>>

(* measure, with the response of its first page compared twice.            *)
StartComparedLoad(s, key) ==
    \E item \in work.item, asExpected \in AsExpected :
       LET page     == FirstPage(item.scenario)
           accepted == asExpected /\ HasFixture(item.dataset, page)
       IN  /\ StartLoad(s, accepted)
           /\ memory' = IF accepted THEN Compared(<<key, page>>) ELSE memory

StartOptimizedLoad ==
    /\ script \in {"controls", "optimized"} /\ work.counts # <<>>
    /\ StartComparedLoad(script, <<"optimized", Head(work.counts)>>)
    /\ UNCHANGED loads

NoteOptimizedRun ==
    /\ At("optimized", "measured")
    /\ memory' = [memory EXCEPT !.runs = @ \cup work.row]
    /\ work' = [work EXCEPT !.row = {}]
    /\ Save("optimized")
    /\ Go("running")
    /\ UNCHANGED <<stack, loads, faults>>

(* Every page of every database was compared.                              *)
AllCompared(variants) ==
    Cardinality(memory.fixtures) = variants * Len(Counts) * Len(Pages)

FinishOptimized ==
    /\ At("optimized", "dataset") /\ work.counts = <<>>
    /\ memory' = [memory EXCEPT
           !.profiled = AllCompared(1),
           !.completed = /\ ~work.profileOnly /\ AllCompared(1)
                         /\ Cardinality(memory.runs) = Cardinality(Plan)]
    /\ Go("finally")
    /\ UNCHANGED <<stack, work, disk, loads, faults>>

(* The finally block of both sessions: collect_runs, whose refusal changes *)
(* nothing, then restore.                                                  *)
KeptRuns(s, noted) == IF CollectRuns(s, noted) THEN noted \cup results[s] ELSE noted

RestoreOptimized ==
    /\ script \in {"controls", "optimized"} /\ place = "finally"
    /\ Connect(work.image, Original)
    /\ LET restored == [memory EXCEPT !.restored = Recorded(memory, Original)]
       IN  saved' = [saved EXCEPT !["optimized"] =
             IF script = "controls"
             THEN [restored EXCEPT !.controls = KeptRuns("controls", memory.controls)]
             ELSE [restored EXCEPT !.runs = KeptRuns("optimized", memory.runs)]]
    /\ memory' = Blank
    /\ Exit
    /\ UNCHANGED <<results, files, loads, faults>>

(* main: the options say which session this is; the controls need a folder *)
(* of their own, the other sessions continue in it.                        *)
OptimizedSession ==
    /\ BaselineIsComplete
    /\ \/ ~saved["optimized"].begun /\ StartControls
       \/ /\ saved["optimized"].begun
          /\ \E image \in Images, resume, profileOnly \in BOOLEAN :
                StartOptimized(image, resume, profileOnly)

OptimizedNext ==
    \/ OptimizedSession
    \/ ConfigureControl \/ NoteControl \/ EndControls
    \/ FinishLoad("controls")
    \/ ConfigureCopy \/ CopyDataset \/ ProfileOptimizedPage \/ EndOptimizedProfile
    \/ NextLoad("optimized") \/ StartOptimizedLoad \/ FinishLoad("optimized") \/ NoteOptimizedRun
    \/ FinishOptimized \/ RestoreOptimized
=============================================================================
