-------------------------- MODULE ReviewIndexAblation --------------------------
(***************************************************************************)
(* load/review-index-ablation.py: two images with the same index compared  *)
(* in alternating order on the copied databases, and the three scripts     *)
(* together.                                                               *)
(*                                                                         *)
(* This one is built to be stopped (a stop file, Ctrl-C, a kill) and to    *)
(* never repeat a load on its own: the load at hand is written down before *)
(* it starts, and a session that finds one without a result refuses.       *)
(***************************************************************************)
EXTENDS ReviewOptimized

CONSTANTS IndexOnly, IdFirst \* the two images

ASSUME VariantsAssumption ==
    IndexOnly \in Images /\ IdFirst \in Images /\ IndexOnly # IdFirst

Variants ==
    [v \in {"index_only", "id_first"} |-> IF v = "index_only" THEN IndexOnly ELSE IdFirst]

Order(repeat) ==
    IF repeat % 2 = 1 THEN <<"index_only", "id_first">> ELSE <<"id_first", "index_only">>

Both(item) ==
    [i \in 1..2 |-> [item EXCEPT !.variant = Order(item.repeat)[i]]]

(* schedule: each combination with one variant, then with the other.       *)
Schedule == FlattenSeq([i \in 1..Len(Counts) |->
                FlattenSeq([j \in 1..(2 * Repeats) |-> Both(Items(Counts[i])[j])])])

(* The profiles, after all loads.                                          *)
Profiles == FlattenSeq([i \in 1..Len(Counts) |->
                <<<<Counts[i], "index_only">>, <<Counts[i], "id_first">>>>])

Tables == {Original} \cup {OptimizedDb(c) : c \in Range(Counts)}

Unchanged(record) == \A d \in Tables : Recorded(record, d)

(* annotate accepts a sound result of the variant's own image.             *)
Annotated(row) == row.sound /\ row.image = Variants[row.item.variant]

(* Mutant of Collectable: a load without a result is forgotten.            *)
CollectableWithoutActive(record) ==
    /\ OnePerItem(results["ablation"])
    /\ \A row \in results["ablation"] : Annotated(row)

(* collect refuses two results of one load, a result that annotate         *)
(* refuses, and the load at hand if it has no result.                      *)
Collectable(record) ==
    /\ OnePerItem(results["ablation"])
    /\ \A row \in results["ablation"] : Annotated(row)
    /\ record.active \subseteq Done(results["ablation"])

Collected(record) == [record EXCEPT !.runs = results["ablation"], !.active = {}]
-----------------------------------------------------------------------------
(* check_dataset: a copied database of the source experiment, filled.      *)
IsDataset(count) ==
    /\ count \in saved["optimized"].datasets
    /\ data[OptimizedDb(count)] \in {"complete", "changed"}

(* initialize.  The copies were what the controls recorded of the sources. *)
StartAblation ==
    LET source == saved["optimized"]
    IN  /\ ~saved["ablation"].begun
        /\ OnOriginal
        /\ \A c \in Range(Counts) :
              IsDataset(c) /\ data[OptimizedDb(c)] = source.before[BaselineDb(c)]
        /\ Enter("ablation", "checking")
        /\ memory' = [Blank EXCEPT !.begun = TRUE, !.original = app.image,
                                   !.datasets = Range(Counts), !.images = Variants,
                                   !.before = [d \in Tables |-> data[d]]]
        /\ work' = [NoWork EXCEPT !.image = app.image]
        /\ Save("ablation")
        /\ UNCHANGED <<stack, loads, faults>>

(* run with --resume.                                                      *)
ResumeAblation ==
    LET record == saved["ablation"]
    IN  /\ record.begun /\ ~record.completed
        /\ Collectable(record)
        /\ app = [image |-> record.original, database |-> Original]
        /\ Recorded(record, Original)
        /\ Enter("ablation", "checking")
        /\ memory' = [Collected(record) EXCEPT !.restored = FALSE]
        /\ work' = [NoWork EXCEPT !.image = record.original]
        /\ Save("ablation")
        /\ UNCHANGED <<stack, loads, faults>>

(* main: both experiments this one builds on are complete.                 *)
AblationSession ==
    /\ BaselineIsComplete /\ saved["optimized"].completed
    /\ StartAblation \/ ResumeAblation

CheckDatasets ==
    /\ At("ablation", "checking")
    /\ Go(IF \A c \in Range(Counts) : IsDataset(c) /\ Recorded(memory, OptimizedDb(c))
          THEN "schedule" ELSE "finally")
    /\ UNCHANGED <<stack, work, memory, disk, loads, faults>>

(* check_stop, before each new load and each profile.                      *)
Stop ==
    /\ script = "ablation" /\ place \in {"schedule", "connected", "profiles"}
    /\ Go("finally")
    /\ UNCHANGED <<stack, work, memory, disk, loads, faults>>

(* connect: the image and the database the app is given.                   *)
ConnectAs(variant, count) == Connect(Variants[variant], OptimizedDb(count))

ConnectVariant ==
    /\ At("ablation", "schedule")
    /\ \E item \in Range(Schedule) :
         /\ IsNext(item, Schedule, memory.runs)
         /\ ConnectAs(item.variant, item.dataset)
         /\ work' = [work EXCEPT !.item = {item}]
    /\ Go("connected")
    /\ UNCHANGED <<memory, disk, loads, faults>>

(* Mutant of NoteActive: the load at hand is noted in memory only.         *)
NoteActiveInMemory ==
    /\ At("ablation", "connected")
    /\ memory' = [memory EXCEPT !.active = work.item]
    /\ Go("measuring")
    /\ UNCHANGED <<stack, work, disk, loads, faults>>

NoteActive ==
    /\ At("ablation", "connected")
    /\ memory' = [memory EXCEPT !.active = work.item]
    /\ Save("ablation")
    /\ Go("measuring")
    /\ UNCHANGED <<stack, work, loads, faults>>

(* fixture notes a comparison under the variant that is connected.         *)
Compares(variant, count) == <<variant, count>>

StartAblationLoad ==
    \E item \in work.item :
       /\ StartComparedLoad("ablation", Compares(item.variant, item.dataset))
       /\ loads' = IF place' = "loading" THEN Append(loads, item) ELSE loads

NoteAblationRun ==
    /\ At("ablation", "measured")
    /\ memory' = [memory EXCEPT !.runs = @ \cup work.row, !.active = {}]
    /\ work' = [work EXCEPT !.row = {}]
    /\ Save("ablation")
    /\ Go("schedule")
    /\ UNCHANGED <<stack, loads, faults>>

BeginProfiles ==
    /\ At("ablation", "schedule") /\ AllDone(Schedule, memory.runs)
    /\ work' = [work EXCEPT !.profiles = Profiles]
    /\ Go("profiles")
    /\ UNCHANGED <<stack, memory, disk, loads, faults>>

ConnectProfile ==
    /\ At("ablation", "profiles") /\ work.profiles # <<>>
    /\ ConnectAs(Head(work.profiles)[2], Head(work.profiles)[1])
    /\ work' = [work EXCEPT !.pages = Pages]
    /\ Go("profiling")
    /\ UNCHANGED <<memory, disk, loads, faults>>

ProfileVariantPage ==
    /\ work.profiles # <<>>
    /\ LET count == Head(work.profiles)[1]
           key   == Compares(Head(work.profiles)[2], count)
       IN  ProfilePage("ablation", key, count) \/ ExplainPage("ablation", key)

EndVariantProfile ==
    /\ At("ablation", "profiling") /\ work.pages = <<>>
    /\ UNCHANGED memory /\ Save("ablation")
    /\ work' = [work EXCEPT !.profiles = Tail(@)]
    /\ Go("profiles")
    /\ UNCHANGED <<stack, loads, faults>>

FinishAblation ==
    /\ At("ablation", "profiles") /\ work.profiles = <<>>
    /\ memory' = [memory EXCEPT !.profiled = AllCompared(2)]
    /\ Go("finally")
    /\ UNCHANGED <<stack, work, disk, loads, faults>>

(* The finally block: collect, whose refusal changes nothing, and restore, *)
(* which decides whether the experiment is complete.                       *)
KeptRecord == IF Collectable(memory) THEN Collected(memory) ELSE memory

RestoreAblation ==
    /\ At("ablation", "finally")
    /\ Connect(memory.original, Original)
    /\ LET record == KeptRecord
       IN  saved' = [saved EXCEPT !["ablation"] =
             [record EXCEPT
                !.restored  = Recorded(record, Original),
                !.completed = /\ Cardinality(record.runs) = Len(Schedule)
                              /\ record.profiled /\ Unchanged(record)]]
    /\ memory' = Blank
    /\ Exit
    /\ UNCHANGED <<results, files, loads, faults>>

AblationNext ==
    \/ AblationSession \/ CheckDatasets \/ Stop
    \/ ConnectVariant \/ NoteActive \/ StartAblationLoad \/ FinishLoad("ablation")
    \/ NoteAblationRun
    \/ BeginProfiles \/ ConnectProfile \/ ProfileVariantPage \/ EndVariantProfile
    \/ FinishAblation \/ RestoreAblation

Next ==
    \/ BaselineNext \/ OptimizedNext \/ AblationNext
    \/ Kill \/ Raise \/ RestoreFails \/ ChangeRows \/ Deploy

Spec == Init /\ [][Next]_vars
-----------------------------------------------------------------------------
(* No load of one experiment folder is ever applied twice: a session that  *)
(* was killed between the start of a load and its result is not followed   *)
(* by one that starts the load again, however it is stopped and resumed.   *)
LoadedOnce == \A i, j \in 1..Len(loads) : loads[i] = loads[j] => i = j

(* A noted run stays noted: no later session of any script drops it or     *)
(* notes a second result for its combination, whatever was killed, raised, *)
(* resumed or reopened in between.                                         *)
NotedRunsStay ==
    [][\A e \in Experiments :
          /\ saved[e].runs \subseteq saved'[e].runs
          /\ saved[e].controls \subseteq saved'[e].controls
          /\ OnePerItem(saved'[e].runs)]_vars

ResultsOf(e) == {r \in results[e] : r.sound}

(* An experiment becomes complete only with exactly one result for every   *)
(* combination, each sound and measured with the image and the database it *)
(* stands for; the ablation's stack is then back on its own image and      *)
(* database, and no rows have changed since its beginning.                 *)
CompletionIsEarned ==
    [][/\ saved'["optimized"].completed /\ ~saved["optimized"].completed =>
             LET record == saved'["optimized"]
             IN  /\ ResultsOf("optimized") = record.runs /\ Done(record.runs) = Plan
                 /\ OnePerItem(results["optimized"] \cup record.runs)
                 /\ \A r \in record.runs :
                       r.image = record.images["after"] /\ r.database = OptimizedDb(r.item.dataset)
                 /\ \A r \in record.controls :
                       r.sound /\ r.image = record.images["before"]
       /\ saved'["ablation"].completed /\ ~saved["ablation"].completed =>
             LET record == saved'["ablation"]
             IN  /\ ResultsOf("ablation") = record.runs /\ Done(record.runs) = Range(Schedule)
                 /\ OnePerItem(results["ablation"])
                 /\ \A r \in record.runs :
                       /\ r.image = Variants[r.item.variant]
                       /\ r.database = OptimizedDb(r.item.dataset)
                 /\ app' = [image |-> record.original, database |-> Original]
                 /\ \A d \in Tables : data[d] = record.before[d]]_vars
=============================================================================
