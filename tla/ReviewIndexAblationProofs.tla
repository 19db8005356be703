----------------------- MODULE ReviewIndexAblationProofs -----------------------
(***************************************************************************)
(* Theorems about the review experiments, for any databases, pages,        *)
(* repetitions, images and number of faults.                               *)
(***************************************************************************)
EXTENDS ReviewIndexAblation, TLAPS

Started == {loads[i] : i \in 1..Len(loads)}

Shape ==
    /\ DOMAIN saved = Experiments
    /\ \A e \in Experiments : DOMAIN saved[e] = DOMAIN Blank
    /\ DOMAIN results = Experiments \cup {"controls"}
    /\ DOMAIN memory = DOMAIN Blank
    /\ DOMAIN work = DOMAIN NoWork
    /\ loads \in Seq(Range(Schedule))

(* Every load that was started has a result or is the one written down.    *)
WrittenDown ==
    /\ Started \subseteq Done(results["ablation"]) \cup saved["ablation"].active
    /\ ~saved["ablation"].begun =>
          results["ablation"] = {} /\ saved["ablation"].active = {}

(* The session knows it too, and has read all results.                     *)
Known ==
    script = "ablation" =>
       /\ saved["ablation"].begun /\ memory.begun
       /\ Started \subseteq Done(results["ablation"]) \cup memory.active
       /\ place \in {"checking", "schedule", "connected", "measuring", "loading"} =>
             results["ablation"] \subseteq memory.runs

(* The load at hand is new until it starts, and written down before that.  *)
AtHand ==
    script = "ablation" =>
       /\ place \in {"checking", "schedule", "connected"} => memory.active = {}
       /\ place \in {"connected", "measuring"} =>
             work.item \subseteq Range(Schedule) \ Started
       /\ place \in {"connected", "measuring", "loading"} =>
             \A i, j \in work.item : i = j
       /\ place \in {"measuring", "loading"} =>
             memory.active = work.item /\ saved["ablation"].active = work.item
       /\ place = "measured" =>
             /\ work.row \subseteq results["ablation"]
             /\ memory.active \subseteq Done(work.row)
             /\ results["ablation"] \subseteq memory.runs \cup work.row

Ledger == Shape /\ WrittenDown /\ Known /\ AtHand /\ LoadedOnce
-----------------------------------------------------------------------------
(* Sessions of the other two scripts, and what happens between sessions.   *)
LEMMA ElsewhereStep ==
    ASSUME Ledger, Shape', script' # "ablation",
           saved'["ablation"] = saved["ablation"],
           results'["ablation"] = results["ablation"],
           loads' = loads
    PROVE  Ledger'
  BY DEF Ledger, WrittenDown, Known, AtHand, LoadedOnce, Started, Done

LEMMA InitLedger == ASSUME Init PROVE Ledger
<1>1. Shape
  BY DEF Init, Shape, Experiments
<1>2. Started = {}
  BY DEF Init, Started
<1>3. WrittenDown
  BY <1>2 DEF Init, WrittenDown, Experiments, Blank
<1>4. Known /\ AtHand /\ LoadedOnce
  BY DEF Init, Known, AtHand, LoadedOnce
<1> QED
  BY <1>1, <1>3, <1>4 DEF Ledger

LEMMA BaselineLedger == ASSUME Ledger, BaselineNext PROVE Ledger'
<1> USE DEF stack, disk, process, Enter, At, Go, Exit, Save, Ledger
<1>1. ASSUME NEW profileOnly \in BOOLEAN, StartBaseline(profileOnly) PROVE Ledger'
  <2>1. Shape'
    BY <1>1 DEF StartBaseline, Shape, Blank, Begin, NoWork, Experiments
  <2> QED
    BY <1>1, <2>1, ElsewhereStep DEF StartBaseline, Shape, Experiments
<1>2. ASSUME NEW profileOnly \in BOOLEAN, NEW resume \in BOOLEAN,
             ReopenBaseline(resume, profileOnly)
      PROVE  Ledger'
  <2>1. Shape'
    BY <1>2 DEF ReopenBaseline, Resumed, Shape, Blank, Begin, NoWork, Experiments
  <2> QED
    BY <1>2, <2>1, ElsewhereStep DEF ReopenBaseline, Shape, Experiments
<1>3. CASE SkipDataset
  <2>1. Shape'
    BY <1>3 DEF SkipDataset, Shape, NoWork
  <2> QED
    BY <1>3, <2>1, ElsewhereStep DEF SkipDataset
<1>4. CASE ConfigureDataset
  <2>1. Shape'
    BY <1>4 DEF ConfigureDataset, Shape
  <2> QED
    BY <1>4, <2>1, ElsewhereStep DEF ConfigureDataset
<1>5. CASE Seed
  <2>1. Shape'
    BY <1>5 DEF Seed, Shape, Blank, NoWork, Experiments
  <2> QED
    BY <1>5, <2>1, ElsewhereStep DEF Seed, Shape, Experiments
<1>6. CASE ProfileBaselinePage
  <2>1. Shape'
    BY <1>6 DEF ProfileBaselinePage, Shape, NoWork
  <2> QED
    BY <1>6, <2>1, ElsewhereStep DEF ProfileBaselinePage
<1>7. CASE EndBaselineProfile
  <2>1. Shape'
    BY <1>7 DEF EndBaselineProfile, Shape, NoWork
  <2> QED
    BY <1>7, <2>1, ElsewhereStep DEF EndBaselineProfile
<1>8. CASE NextLoad("baseline")
  <2>1. Shape'
    BY <1>8 DEF NextLoad, Shape, NoWork
  <2> QED
    BY <1>8, <2>1, ElsewhereStep DEF NextLoad
<1>9. CASE StartBaselineLoad
  <2>1. Shape'
    BY <1>9 DEF StartBaselineLoad, StartLoad, Shape
  <2> QED
    BY <1>9, <2>1, ElsewhereStep DEF StartBaselineLoad, StartLoad
<1>10. CASE FinishLoad("baseline")
  <2>1. Shape'
    BY <1>10 DEF FinishLoad, Shape, NoWork, Experiments
  <2> QED
    BY <1>10, <2>1, ElsewhereStep DEF FinishLoad, Shape, Experiments
<1>11. CASE NoteBaselineRun
  <2>1. Shape'
    BY <1>11 DEF NoteBaselineRun, Shape, Blank, NoWork, Experiments
  <2> QED
    BY <1>11, <2>1, ElsewhereStep DEF NoteBaselineRun, Shape, Experiments
<1>12. CASE FinishBaseline
  <2>1. Shape'
    BY <1>12 DEF FinishBaseline, Shape, Blank
  <2> QED
    BY <1>12, <2>1, ElsewhereStep DEF FinishBaseline
<1>13. CASE RestoreBaseline
  <2>1. Shape'
    BY <1>13 DEF RestoreBaseline, Shape, Blank, NoWork, Experiments
  <2> QED
    BY <1>13, <2>1, ElsewhereStep DEF RestoreBaseline, Shape, Experiments
<1> QED
  BY <1>1, <1>2, <1>3, <1>4, <1>5, <1>6, <1>7, <1>8, <1>9, <1>10, <1>11, <1>12, <1>13
     DEF BaselineNext

LEMMA OptimizedLedger == ASSUME Ledger, OptimizedNext PROVE Ledger'
<1> USE DEF stack, disk, process, Enter, At, Go, Exit, Save, Ledger
<1>1. CASE StartControls
  <2>1. Shape'
    BY <1>1 DEF StartControls, Shape, Blank, NoWork, Experiments
  <2> QED
    BY <1>1, <2>1, ElsewhereStep DEF StartControls, Shape, Blank, NoWork, Experiments
<1>2. CASE ConfigureControl
  <2>1. Shape'
    BY <1>2 DEF ConfigureControl, Shape, Blank, NoWork
  <2> QED
    BY <1>2, <2>1, ElsewhereStep DEF ConfigureControl, Shape, Blank, NoWork
<1>3. CASE NoteControl
  <2>1. Shape'
    BY <1>3 DEF NoteControl, Shape, Blank, NoWork, Experiments
  <2> QED
    BY <1>3, <2>1, ElsewhereStep DEF NoteControl, Shape, Blank, NoWork, Experiments
<1>4. CASE EndControls
  <2>1. Shape'
    BY <1>4 DEF EndControls, Shape
  <2> QED
    BY <1>4, <2>1, ElsewhereStep DEF EndControls, Shape
<1>5. CASE FinishLoad("controls")
  <2>1. Shape'
    BY <1>5 DEF FinishLoad, Shape, NoWork, Experiments
  <2> QED
    BY <1>5, <2>1, ElsewhereStep DEF FinishLoad, Shape, NoWork, Experiments
<1>6. CASE ConfigureCopy
  <2>1. Shape'
    BY <1>6 DEF ConfigureCopy, Shape
  <2> QED
    BY <1>6, <2>1, ElsewhereStep DEF ConfigureCopy, Shape
<1>7. CASE CopyDataset
  <2>1. Shape'
    BY <1>7 DEF CopyDataset, Shape, Blank, NoWork, Experiments
  <2> QED
    BY <1>7, <2>1, ElsewhereStep DEF CopyDataset, Shape, Blank, NoWork, Experiments
<1>8. CASE ProfileOptimizedPage
  <2>1. Shape'
    BY <1>8 DEF ProfileOptimizedPage, ProfilePage, ExplainPage, Compared, Shape, Blank, NoWork
  <2> QED
    BY <1>8, <2>1, ElsewhereStep DEF ProfileOptimizedPage, ProfilePage, ExplainPage, Compared, Shape, Blank, NoWork
<1>9. CASE EndOptimizedProfile
  <2>1. Shape'
    BY <1>9 DEF EndOptimizedProfile, Shape, NoWork, Experiments
  <2> QED
    BY <1>9, <2>1, ElsewhereStep DEF EndOptimizedProfile, Shape, NoWork, Experiments
<1>10. CASE NextLoad("optimized")
  <2>1. Shape'
    BY <1>10 DEF NextLoad, Shape, NoWork
  <2> QED
    BY <1>10, <2>1, ElsewhereStep DEF NextLoad, Shape, NoWork
<1>11. CASE StartOptimizedLoad
  <2>1. Shape'
    BY <1>11 DEF StartOptimizedLoad, StartComparedLoad, StartLoad, Compared, Shape, Blank
  <2> QED
    BY <1>11, <2>1, ElsewhereStep DEF StartOptimizedLoad, StartComparedLoad, StartLoad, Compared, Shape, Blank
<1>12. CASE FinishLoad("optimized")
  <2>1. Shape'
    BY <1>12 DEF FinishLoad, Shape, NoWork, Experiments
  <2> QED
    BY <1>12, <2>1, ElsewhereStep DEF FinishLoad, Shape, NoWork, Experiments
<1>13. CASE NoteOptimizedRun
  <2>1. Shape'
    BY <1>13 DEF NoteOptimizedRun, Shape, Blank, NoWork, Experiments
  <2> QED
    BY <1>13, <2>1, ElsewhereStep DEF NoteOptimizedRun, Shape, Blank, NoWork, Experiments
<1>14. CASE FinishOptimized
  <2>1. Shape'
    BY <1>14 DEF FinishOptimized, Shape, Blank
  <2> QED
    BY <1>14, <2>1, ElsewhereStep DEF FinishOptimized, Shape, Blank
<1>15. CASE RestoreOptimized
  <2>1. Shape'
    BY <1>15 DEF RestoreOptimized, Shape, Blank, NoWork, Experiments
  <2> QED
    BY <1>15, <2>1, ElsewhereStep DEF RestoreOptimized, Shape, Blank, NoWork, Experiments
<1>16. ASSUME NEW image \in Images, NEW resume \in BOOLEAN, NEW profileOnly \in BOOLEAN,
              StartOptimized(image, resume, profileOnly)
       PROVE  Ledger'
  <2>1. Shape'
    BY <1>16 DEF StartOptimized, Shape, Blank, Begin, NoWork, Experiments
  <2> QED
    BY <1>16, <2>1, ElsewhereStep DEF StartOptimized, Shape, Experiments
<1> QED
  BY <1>1, <1>2, <1>3, <1>4, <1>5, <1>6, <1>7, <1>8, <1>9, <1>10, <1>11, <1>12, <1>13, <1>14, <1>15, <1>16
     DEF OptimizedNext, OptimizedSession

(* Faults, and the stack brought up by hand.                               *)
LEMMA OutsideLedger ==
    ASSUME Ledger, Kill \/ Raise \/ RestoreFails \/ ChangeRows \/ Deploy
    PROVE  Ledger'
<1> USE DEF stack, disk, process, At, Go, Exit, Ledger
<1>1. CASE Kill
  <2>1. Shape'
    BY <1>1 DEF Kill, Shape, Blank, NoWork
  <2> QED
    BY <1>1, <2>1, ElsewhereStep DEF Kill
<1>2. CASE RestoreFails
  <2>1. Shape'
    BY <1>2 DEF RestoreFails, Shape, Blank, NoWork
  <2> QED
    BY <1>2, <2>1, ElsewhereStep DEF RestoreFails
<1>3. CASE Raise
  BY <1>3 DEF Raise, Shape, WrittenDown, Known, AtHand, LoadedOnce, Started
<1>4. CASE ChangeRows \/ Deploy
  BY <1>4 DEF ChangeRows, Deploy, Shape, WrittenDown, Known, AtHand, LoadedOnce, Started
<1> QED
  BY <1>1, <1>2, <1>3, <1>4

(* A session that begins or goes on has no load at hand, and every load    *)
(* that was started has a result it read.                                  *)
LEMMA BeginAblationLedger ==
    ASSUME Ledger, AblationSession PROVE Ledger'
<1> USE DEF stack, disk, process, Enter, Save, Ledger
<1>0. StartAblation \/ ResumeAblation
  BY DEF AblationSession
<1>1. Shape'
  <2>1. CASE StartAblation
    BY <2>1 DEF StartAblation, Shape, Blank, NoWork, Experiments
  <2>2. CASE ResumeAblation
    BY <2>2 DEF ResumeAblation, Collected, Shape, Blank, NoWork, Experiments
  <2> QED
    BY <1>0, <2>1, <2>2
<1>2. saved'["ablation"] = memory'
  BY <1>0 DEF StartAblation, ResumeAblation, Shape, Experiments
<1>3. /\ memory'.begun /\ memory'.active = {}
      /\ script' = "ablation" /\ place' = "checking"
      /\ loads' = loads /\ results' = results
  BY <1>0 DEF StartAblation, ResumeAblation, Collected, Shape, Blank, Experiments
<1>4. /\ Started \subseteq Done(results["ablation"])
      /\ results["ablation"] \subseteq memory'.runs
  <2>1. CASE StartAblation
    BY <2>1 DEF StartAblation, WrittenDown, Done
  <2>2. CASE ResumeAblation
    BY <2>2 DEF ResumeAblation, Collectable, Collected, WrittenDown, Shape, Blank, Experiments
  <2> QED
    BY <1>0, <2>1, <2>2
<1>5. WrittenDown'
  BY <1>2, <1>3, <1>4 DEF WrittenDown, Started, Done
<1>6. Known'
  BY <1>2, <1>3, <1>4 DEF Known, Started, Done
<1>7. AtHand' /\ LoadedOnce'
  BY <1>3 DEF AtHand, LoadedOnce
<1> QED
  BY <1>1, <1>5, <1>6, <1>7

LEMMA ConnectVariantLedger == ASSUME Ledger, ConnectVariant PROVE Ledger'
<1> USE DEF stack, disk, process, At, Go, Ledger
<1>1. Shape'
  BY DEF ConnectVariant, Shape, NoWork
<1>2. PICK item \in Range(Schedule) :
         item \notin Done(memory.runs) /\ work' = [work EXCEPT !.item = {item}]
  BY DEF ConnectVariant, IsNext
<1>3. item \notin Started
  BY <1>2 DEF ConnectVariant, Known, AtHand, Done
<1>4. work'.item = {item}
  BY <1>2 DEF Shape, NoWork
<1> QED
  BY <1>1, <1>3, <1>4 DEF ConnectVariant, WrittenDown, Known, AtHand, LoadedOnce, Started

LEMMA NoteActiveLedger == ASSUME Ledger, NoteActive PROVE Ledger'
<1> USE DEF stack, disk, process, At, Go, Save, Ledger
<1>1. Shape'
  BY DEF NoteActive, Shape, Blank, Experiments
<1>2. /\ saved'["ablation"] = memory'
      /\ memory' = [memory EXCEPT !.active = work.item]
      /\ memory'.begun = memory.begun /\ memory'.runs = memory.runs
      /\ memory'.active = work.item
  BY DEF NoteActive, Shape, Blank, Experiments
<1>3. /\ script = "ablation" /\ place = "connected" /\ memory.begun
      /\ script' = script /\ place' = "measuring"
      /\ UNCHANGED <<loads, results, work>>
  BY DEF NoteActive, Known
<1>4. Started \subseteq Done(results["ablation"])
  BY <1>3 DEF Known, AtHand
<1> QED
  BY <1>1, <1>2, <1>3, <1>4 DEF WrittenDown, Known, AtHand, LoadedOnce, Started

(* The load that starts is the one written down, and was not started.      *)
LEMMA StartAblationLoadLedger == ASSUME Ledger, StartAblationLoad PROVE Ledger'
<1> USE DEF stack, disk, process, At, Go, Ledger
<1>1. PICK item \in work.item :
         /\ StartComparedLoad("ablation", Compares(item.variant, item.dataset))
         /\ loads' = IF place' = "loading" THEN Append(loads, item) ELSE loads
  BY DEF StartAblationLoad
<1>2. PICK accepted \in BOOLEAN :
         /\ StartLoad("ablation", accepted)
         /\ accepted => \E key : memory' = Compared(key)
         /\ ~accepted => UNCHANGED memory
  BY <1>1 DEF StartComparedLoad, AsExpected
<1>3. script = "ablation" /\ place = "measuring"
  BY <1>2 DEF StartLoad
<1>4. CASE accepted
  <2>1. /\ script' = script /\ place' = "loading"
        /\ UNCHANGED <<work, saved, results>>
    BY <1>2, <1>4 DEF StartLoad
  <2>2. /\ DOMAIN memory' = DOMAIN memory
        /\ memory'.begun = memory.begun /\ memory'.runs = memory.runs
        /\ memory'.active = memory.active
    BY <1>2, <1>4 DEF Compared, Shape, Blank
  <2>3. item \in Range(Schedule) /\ item \notin Started
    BY <1>3 DEF AtHand
  <2>4. /\ loads' \in Seq(Range(Schedule)) /\ Len(loads') = Len(loads) + 1
        /\ \A i \in 1..Len(loads) : loads'[i] = loads[i]
        /\ loads'[Len(loads) + 1] = item
        /\ Len(loads) \in Nat
    BY <1>1, <2>1, <2>3 DEF Shape
  <2>5. Started' \subseteq Started \cup {item}
    BY <2>4 DEF Started
  <2>6. LoadedOnce'
    BY <2>3, <2>4 DEF LoadedOnce, Started
  <2>7. Shape'
    BY <2>1, <2>2, <2>4 DEF Shape
  <2> QED
    BY <1>3, <2>1, <2>2, <2>5, <2>6, <2>7 DEF WrittenDown, Known, AtHand
<1>5. CASE ~accepted
  <2>1. /\ script' = script /\ place' = "finally"
        /\ UNCHANGED <<work, saved, results, memory, loads>>
    BY <1>1, <1>2, <1>5 DEF StartLoad
  <2> QED
    BY <2>1 DEF Shape, WrittenDown, Known, AtHand, LoadedOnce, Started
<1> QED
  BY <1>4, <1>5

(* Its result answers for it.                                              *)
LEMMA FinishLoadLedger == ASSUME Ledger, FinishLoad("ablation") PROVE Ledger'
<1> USE DEF stack, disk, process, At, Go, Ledger
<1>1. Shape'
  BY DEF FinishLoad, Shape, NoWork, Experiments
<1>2. PICK sound \in BOOLEAN, item \in work.item :
        LET row == [item |-> item, image |-> app.image, database |-> app.database,
                    sound |-> sound,
                    nr |-> Cardinality({r \in results["ablation"] : r.item = item})]
        IN  /\ results' = [results EXCEPT !["ablation"] = @ \cup {row}]
            /\ IF sound THEN /\ Go("measured")
                             /\ work' = [work EXCEPT !.row = {row}, !.item = {}]
                             /\ UNCHANGED faults
                        ELSE Go("finally") /\ Fault /\ UNCHANGED work
  BY DEF FinishLoad
<1> DEFINE row == [item |-> item, image |-> app.image, database |-> app.database,
                   sound |-> sound,
                   nr |-> Cardinality({r \in results["ablation"] : r.item = item})]
<1>3. /\ script = "ablation" /\ place = "loading" /\ script' = script
      /\ UNCHANGED <<memory, saved, loads>>
  BY <1>2 DEF FinishLoad
<1>4. results'["ablation"] = results["ablation"] \cup {row}
  BY <1>2 DEF Shape, Experiments
<1>5. WrittenDown'
  BY <1>3, <1>4 DEF WrittenDown, Known, Started, Done
<1>6. CASE sound
  <2>1. place' = "measured" /\ work'.row = {row}
    BY <1>2, <1>6 DEF Shape, NoWork
  <2>2. memory.active = {item}
    BY <1>3 DEF AtHand
  <2>3. row.item = item
    OBVIOUS
  <2> QED
    BY <1>1, <1>3, <1>4, <1>5, <2>1, <2>2, <2>3 DEF Known, AtHand, LoadedOnce, Started, Done
<1>7. CASE ~sound
  <2>1. place' = "finally"
    BY <1>2, <1>7
  <2> QED
    BY <1>1, <1>3, <1>4, <1>5, <2>1 DEF Known, AtHand, LoadedOnce, Started, Done
<1> QED
  BY <1>6, <1>7

LEMMA NoteAblationRunLedger == ASSUME Ledger, NoteAblationRun PROVE Ledger'
<1> USE DEF stack, disk, process, At, Go, Save, Ledger
<1>1. Shape'
  BY DEF NoteAblationRun, Shape, Blank, NoWork, Experiments
<1>2. /\ saved'["ablation"] = memory' /\ memory'.begun = memory.begun
      /\ memory'.runs = memory.runs \cup work.row /\ memory'.active = {}
  BY DEF NoteAblationRun, Shape, Blank, Experiments
<1>3. /\ script = "ablation" /\ place = "measured" /\ script' = script
      /\ place' = "schedule" /\ UNCHANGED <<loads, results>>
  BY DEF NoteAblationRun
<1>4. Started \subseteq Done(results["ablation"])
  BY <1>3 DEF Known, AtHand, Done
<1> QED
  BY <1>1, <1>2, <1>3, <1>4 DEF WrittenDown, Known, AtHand, LoadedOnce, Started

(* collect forgets the load at hand only if it has a result.               *)
LEMMA RestoreAblationLedger == ASSUME Ledger, RestoreAblation PROVE Ledger'
<1> USE DEF stack, disk, process, At, Go, Exit, Ledger
<1> DEFINE record == KeptRecord
<1>1. Shape'
  BY DEF RestoreAblation, KeptRecord, Collected, Shape, Blank, NoWork, Experiments
<1>2. /\ saved'["ablation"].begun = record.begun
      /\ saved'["ablation"].active = record.active
  BY DEF RestoreAblation, KeptRecord, Collected, Shape, Blank, Experiments
<1>3. /\ script = "ablation" /\ script' = "none" /\ UNCHANGED <<loads, results>>
  BY DEF RestoreAblation
<1>4. record.begun
  BY <1>3 DEF KeptRecord, Known, Collected, Shape, Blank
<1>5. Started \subseteq Done(results["ablation"]) \cup record.active
  <2>1. CASE Collectable(memory)
    BY <1>3, <2>1 DEF KeptRecord, Known, Collected, Collectable
  <2>2. CASE ~Collectable(memory)
    BY <1>3, <2>2 DEF KeptRecord, Known
  <2> QED
    BY <2>1, <2>2
<1> QED
  BY <1>1, <1>2, <1>3, <1>4, <1>5 DEF WrittenDown, Known, AtHand, LoadedOnce, Started

(* The steps that neither start a load nor note one.                       *)
LEMMA OtherAblationLedger ==
    ASSUME Ledger,
           \/ CheckDatasets \/ Stop \/ BeginProfiles \/ ConnectProfile
           \/ ProfileVariantPage \/ EndVariantProfile \/ FinishAblation
    PROVE  Ledger'
<1> USE DEF stack, disk, process, At, Go, Save, Ledger
<1>1. CASE CheckDatasets \/ Stop
  BY <1>1 DEF CheckDatasets, Stop, Shape, WrittenDown, Known, AtHand, LoadedOnce, Started
<1>2. CASE BeginProfiles
  BY <1>2 DEF BeginProfiles, Shape, NoWork, WrittenDown, Known, AtHand, LoadedOnce, Started
<1>3. CASE ConnectProfile
  BY <1>3 DEF ConnectProfile, Shape, NoWork, WrittenDown, Known, AtHand, LoadedOnce, Started
<1>4. CASE ProfileVariantPage
  <2>1. /\ script = "ablation" /\ script' = script
        /\ place' \in {"finally", "profiling", "explaining"}
        /\ UNCHANGED <<saved, results, loads>>
    BY <1>4 DEF ProfileVariantPage, ProfilePage, ExplainPage
  <2>2. /\ Shape' /\ memory'.begun = memory.begun /\ memory'.active = memory.active
    BY <1>4, <2>1
       DEF ProfileVariantPage, ProfilePage, ExplainPage, Compared, Shape, Blank, NoWork
  <2> QED
    BY <2>1, <2>2 DEF WrittenDown, Known, AtHand, LoadedOnce, Started
<1>5. CASE EndVariantProfile
  <2>1. Shape'
    BY <1>5 DEF EndVariantProfile, Shape, Blank, NoWork, Experiments
  <2>2. /\ saved'["ablation"] = memory /\ UNCHANGED <<memory, results, loads>>
        /\ script = "ablation" /\ script' = script /\ place' = "profiles"
    BY <1>5 DEF EndVariantProfile, Shape, Experiments
  <2> QED
    BY <2>1, <2>2 DEF WrittenDown, Known, AtHand, LoadedOnce, Started
<1>6. CASE FinishAblation
  <2>1. Shape'
    BY <1>6 DEF FinishAblation, Shape, Blank
  <2>2. /\ memory'.begun = memory.begun /\ memory'.active = memory.active
        /\ UNCHANGED <<saved, results, loads>>
        /\ script = "ablation" /\ script' = script /\ place' = "finally"
    BY <1>6 DEF FinishAblation, Shape, Blank
  <2> QED
    BY <2>1, <2>2 DEF WrittenDown, Known, AtHand, LoadedOnce, Started
<1> QED
  BY <1>1, <1>2, <1>3, <1>4, <1>5, <1>6

LEMMA LedgerStep == ASSUME Ledger, [Next]_vars PROVE Ledger'
<1>1. CASE AblationNext
  BY <1>1, BeginAblationLedger, ConnectVariantLedger, NoteActiveLedger,
     StartAblationLoadLedger, FinishLoadLedger, NoteAblationRunLedger,
     RestoreAblationLedger, OtherAblationLedger
     DEF AblationNext
<1>2. CASE UNCHANGED vars
  BY <1>2 DEF vars, stack, disk, process, Ledger, Shape, WrittenDown, Known, AtHand,
              LoadedOnce, Started
<1> QED
  BY <1>1, <1>2, BaselineLedger, OptimizedLedger, OutsideLedger DEF Next

(* No load of review-index-ablation.py is started twice in one experiment, *)
(* whatever is killed, raised, stopped or resumed.  The argument: a load   *)
(* is written down before it starts and stays written down until it has a  *)
(* result, and a session starts only loads that are in neither place.      *)
THEOREM NeverLoadedTwice == Spec => []LoadedOnce
<1>1. Init => Ledger
  BY InitLedger
<1>2. Ledger /\ [Next]_vars => Ledger'
  BY LedgerStep
<1>3. Ledger => LoadedOnce
  BY DEF Ledger
<1> QED
  BY <1>1, <1>2, <1>3, PTL DEF Spec
-----------------------------------------------------------------------------
(* What the sessions of each script keep in their books: what is noted on  *)
(* disk, what the session has in memory, and which results are there.      *)
Measuring == {"connected", "measuring", "loading"}

(* The load at hand has no noted run, and neither has its result.          *)
New ==
    /\ place \in Measuring => \A item \in work.item : item \notin Done(memory.runs)
    /\ place = "measured" =>
          \A r, s \in work.row : r = s /\ r.item \notin Done(memory.runs)

(* The session knows every run its experiment.json has noted.              *)
Knows(e) ==
    /\ saved[e].begun /\ memory.begun
    /\ saved[e].runs \subseteq memory.runs
    /\ saved[e].controls \subseteq memory.controls
    /\ OnePerItem(memory.runs)
    /\ New

BaselineBooks ==
    /\ OnePerItem(saved["baseline"].runs)
    /\ saved["baseline"].controls = {}
    /\ ~saved["baseline"].begun => saved["baseline"].runs = {}
    /\ script = "baseline" => Knows("baseline") /\ memory.controls = {}
-----------------------------------------------------------------------------
(* Every result was measured with the image and the database of its        *)
(* experiment, and every noted run has a result.                           *)
OptimizedResults ==
    LET record == saved["optimized"]
    IN  /\ OnePerItem(record.runs)
        /\ record.runs \subseteq results["optimized"]
        /\ record.controls \subseteq results["controls"]
        /\ ~record.begun => results["optimized"] = {} /\ results["controls"] = {}
        /\ \A r \in results["controls"] : r.image = record.images["before"]
        /\ \A r \in results["optimized"] :
              /\ "after" \in DOMAIN record.images /\ r.image = record.images["after"]
              /\ r.database = OptimizedDb(r.item.dataset)
              /\ r.item \in Plan

EitherSession ==
    script \in {"controls", "optimized"} =>
        /\ Knows("optimized")
        /\ memory.runs \subseteq results["optimized"]
        /\ memory.controls \subseteq results["controls"]
        /\ memory.images = saved["optimized"].images
        /\ place = "measured" => work.row \subseteq results[script]

ControlsSession ==
    script = "controls" =>
        /\ memory.runs = {} /\ ~memory.completed
        /\ place \in Measuring => app.image = memory.images["before"]

(* The sizes that are still to come, and the one at hand.                  *)
CountsLeft ==
    /\ work.counts \in Seq(Nat)
    /\ Range(work.counts) \subseteq Range(Counts)
    /\ ~work.profileOnly =>
          \A c \in Range(Counts) \ Range(work.counts) : Range(Items(c)) \subseteq Done(memory.runs)
    /\ place \in {"copying", "profiling", "explaining", "running", "measured"} \cup Measuring =>
          work.counts # <<>> /\ app.image = memory.images["after"]
                             /\ app.database = OptimizedDb(Head(work.counts))

OptimizedInSession ==
    script = "optimized" =>
        /\ "after" \in DOMAIN memory.images
        /\ SoundRuns(memory.controls) /\ SoundRuns(memory.runs)
        /\ CountsLeft
        /\ place \notin {"measured", "finally"} => results["optimized"] \subseteq memory.runs
        /\ place \in Measuring => work.item \subseteq Range(Items(Head(work.counts)))
        /\ place = "measured" =>
              /\ results["optimized"] \subseteq memory.runs \cup work.row
              /\ SoundRuns(work.row)
        /\ memory.completed =>
              /\ place = "finally"
              /\ results["optimized"] \subseteq memory.runs
              /\ Plan \subseteq Done(memory.runs)

OptimizedBooks ==
    OptimizedResults /\ EitherSession /\ ControlsSession /\ OptimizedInSession
-----------------------------------------------------------------------------
AblationResults ==
    LET record == saved["ablation"]
    IN  /\ OnePerItem(record.runs)
        /\ record.controls = {}
        /\ record.runs \subseteq results["ablation"]
        /\ ~record.begun => results["ablation"] = {}
        /\ record.profiled => Range(Schedule) \subseteq Done(results["ablation"])
        /\ \A r \in results["ablation"] :
              r.database = OptimizedDb(r.item.dataset) /\ r.item \in Range(Schedule)

AnnotatedAll(runs) == \A r \in runs : Annotated(r)

AblationInSession ==
    script = "ablation" =>
        /\ Knows("ablation") /\ memory.controls = {} /\ ~memory.completed
        /\ memory.runs \subseteq results["ablation"]
        /\ AnnotatedAll(memory.runs)
        /\ place \notin {"measured", "finally"} => results["ablation"] \subseteq memory.runs
        /\ place \in {"profiles", "profiling", "explaining"} =>
              Range(Schedule) \subseteq Done(memory.runs) /\ memory.active = {}
        /\ place \in {"checking", "schedule", "connected"} => memory.active = {}
        /\ place \in Measuring => \A item \in work.item :
              /\ item \in Range(Schedule)
              /\ app.image = Variants[item.variant]
              /\ app.database = OptimizedDb(item.dataset)
        /\ place = "measured" =>
              /\ work.row \subseteq results["ablation"]
              /\ results["ablation"] \subseteq memory.runs \cup work.row
              /\ AnnotatedAll(work.row)
        /\ memory.profiled =>
              /\ place \notin Measuring \cup {"measured"}
              /\ Range(Schedule) \subseteq Done(memory.runs)
              /\ results["ablation"] \subseteq memory.runs
              /\ memory.active = {}

AblationBooks == AblationResults /\ AblationInSession
-----------------------------------------------------------------------------
(* The books of a script change in its own sessions only.                  *)
Keeps(e) ==
    /\ saved[e].runs \subseteq saved'[e].runs
    /\ saved[e].controls \subseteq saved'[e].controls

BaselineOnly ==
    /\ script' \in {"baseline", "none"}
    /\ saved'["optimized"] = saved["optimized"] /\ saved'["ablation"] = saved["ablation"]
    /\ results'["optimized"] = results["optimized"]
    /\ results'["controls"] = results["controls"]
    /\ results'["ablation"] = results["ablation"]

(* A step within a session that notes nothing.                             *)
LEMMA BaselineGoesOn ==
    ASSUME BaselineBooks, script = "baseline", script' = "baseline",
           saved'["baseline"] = saved["baseline"],
           memory'.begun = memory.begun, memory'.runs = memory.runs,
           memory'.controls = memory.controls, New'
    PROVE  BaselineBooks' /\ Keeps("baseline")
  BY DEF BaselineBooks, Knows, Keeps, OnePerItem

(* A step that saves what the session has in memory.                       *)
LEMMA BaselineNotes ==
    ASSUME BaselineBooks, script = "baseline", script' \in {"baseline", "none"},
           NEW record, saved'["baseline"] = record, record.begun,
           memory.runs \subseteq record.runs, OnePerItem(record.runs), record.controls = {},
           script' = "baseline" => memory' = record /\ New'
    PROVE  BaselineBooks' /\ Keeps("baseline")
  BY DEF BaselineBooks, Knows, Keeps, OnePerItem

LEMMA BeginBaselineBooks ==
    ASSUME Shape, BaselineBooks, NEW profileOnly \in BOOLEAN, NEW resume \in BOOLEAN,
           StartBaseline(profileOnly) \/ ReopenBaseline(resume, profileOnly)
    PROVE  BaselineBooks' /\ Keeps("baseline") /\ BaselineOnly
<1> USE DEF stack, disk, process, Enter, Save
<1>1. /\ saved'["baseline"] = memory' /\ script' = "baseline" /\ place' = "dataset"
      /\ BaselineOnly
  BY DEF StartBaseline, ReopenBaseline, Shape, Experiments, BaselineOnly
<1>2. memory'.begun /\ memory'.controls = {}
  BY DEF StartBaseline, ReopenBaseline, Resumed, Shape, Blank, BaselineBooks, Experiments
<1>3. saved["baseline"].runs \subseteq memory'.runs /\ OnePerItem(memory'.runs)
  <2>1. CASE StartBaseline(profileOnly)
    BY <2>1 DEF StartBaseline, Blank, BaselineBooks, OnePerItem
  <2>2. CASE ReopenBaseline(resume, profileOnly)
    BY <2>2 DEF ReopenBaseline, Reopenable, Resumed, Shape, Blank, OnePerItem, Experiments
  <2> QED
    BY <2>1, <2>2
<1>4. New'
  BY <1>1 DEF New, Measuring
<1> QED
  BY <1>1, <1>2, <1>3, <1>4 DEF BaselineBooks, Knows, Keeps, OnePerItem

(* A load leaves one result; if it is sound, that is the one at hand.      *)
LEMMA NewRow ==
    ASSUME Shape, NEW s \in Experiments \cup {"controls"}, FinishLoad(s)
    PROVE  /\ results[s] \subseteq results'[s]
           /\ \A r \in results'[s] \ results[s] :
                 /\ r.item \in work.item
                 /\ r.image = app.image /\ r.database = app.database
           /\ place' = "measured" =>
                 /\ results'[s] = results[s] \cup work'.row
                 /\ \A r, t \in work'.row : r = t
                 /\ \A r \in work'.row :
                       /\ r.sound /\ r.item \in work.item
                       /\ r.image = app.image /\ r.database = app.database
           /\ place' \in {"measured", "finally"}
           /\ \A e \in Experiments \cup {"controls"} : e # s => results'[e] = results[e]
           /\ work'.counts = work.counts /\ work'.profileOnly = work.profileOnly
<1>1. PICK sound \in BOOLEAN, item \in work.item :
        LET row == [item |-> item, image |-> app.image, database |-> app.database,
                    sound |-> sound,
                    nr |-> Cardinality({r \in results[s] : r.item = item})]
        IN  /\ results' = [results EXCEPT ![s] = @ \cup {row}]
            /\ IF sound THEN /\ Go("measured")
                             /\ work' = [work EXCEPT !.row = {row}, !.item = {}]
                             /\ UNCHANGED faults
                        ELSE Go("finally") /\ Fault /\ UNCHANGED work
  BY DEF FinishLoad
<1> DEFINE row == [item |-> item, image |-> app.image, database |-> app.database,
                   sound |-> sound,
                   nr |-> Cardinality({r \in results[s] : r.item = item})]
<1>2. place' = "measured" => sound
  BY <1>1 DEF Go
<1>3. /\ place' \in {"measured", "finally"}
      /\ place' = "measured" => work'.row = {row}
      /\ work'.counts = work.counts /\ work'.profileOnly = work.profileOnly
  BY <1>1 DEF Shape, NoWork, Go
<1>4. /\ row.item = item /\ row.image = app.image /\ row.database = app.database
      /\ sound => row.sound
  OBVIOUS
<1>5. results' = [results EXCEPT ![s] = @ \cup {row}]
  BY <1>1
<1> HIDE DEF row
<1>6. /\ results'[s] = results[s] \cup {row}
      /\ \A e \in Experiments \cup {"controls"} : e # s => results'[e] = results[e]
  BY <1>5 DEF Shape
<1>7. row.item \in work.item
  BY <1>4
<1> QED
  BY <1>2, <1>3, <1>4, <1>6, <1>7

LEMMA BaselineBooksStep ==
    ASSUME Shape, BaselineBooks, BaselineNext
    PROVE  BaselineBooks' /\ Keeps("baseline") /\ BaselineOnly
<1> USE DEF stack, disk, process, At, Go, Exit, Save
<1> DEFINE Goal == BaselineBooks' /\ Keeps("baseline") /\ BaselineOnly
<1> HIDE DEF Goal
<1>1. ASSUME NEW profileOnly \in BOOLEAN, NEW resume \in BOOLEAN,
             StartBaseline(profileOnly) \/ ReopenBaseline(resume, profileOnly)
      PROVE  Goal
  BY <1>1, BeginBaselineBooks DEF Goal
<1>2. CASE SkipDataset \/ ConfigureDataset \/ EndBaselineProfile \/ ProfileBaselinePage
  <2>1. /\ script = "baseline" /\ script' = "baseline"
        /\ place' \notin Measuring \cup {"measured"}
        /\ UNCHANGED <<saved, results, memory>>
    BY <1>2 DEF SkipDataset, ConfigureDataset, EndBaselineProfile, ProfileBaselinePage,
                Measuring
  <2>2. New' /\ BaselineOnly
    BY <2>1 DEF New, BaselineOnly
  <2> QED
    BY <2>1, <2>2, BaselineGoesOn DEF Goal
<1>3. CASE Seed
  <2>1. /\ script = "baseline" /\ script' = "baseline"
        /\ place' \in {"profiling", "finally"}
        /\ results' = results
    BY <1>3 DEF Seed
  <2>2. New'
    BY <2>1 DEF New, Measuring
  <2>3. CASE saved' = saved /\ memory' = memory
    BY <2>1, <2>2, <2>3, BaselineGoesOn DEF Goal, BaselineOnly
  <2>4. CASE saved' = [saved EXCEPT !["baseline"] = memory'] /\
             memory' = [memory EXCEPT !.datasets = @ \cup {Head(work.counts)}]
    <3>1. /\ memory'.begun = memory.begun /\ memory'.runs = memory.runs
          /\ memory'.controls = memory.controls
      BY <2>4 DEF Shape, Blank
    <3>2. saved'["baseline"] = memory' /\ BaselineOnly
      BY <2>1, <2>4 DEF Shape, Experiments, BaselineOnly
    <3>3. memory.begun /\ memory.controls = {} /\ OnePerItem(memory.runs)
      BY <2>1 DEF BaselineBooks, Knows
    <3> QED
      BY <2>1, <2>2, <3>1, <3>2, <3>3, BaselineNotes DEF Goal
  <2> QED
    BY <1>3, <2>3, <2>4 DEF Seed
<1>4. CASE NextLoad("baseline")
  <2>1. /\ script = "baseline" /\ script' = "baseline"
        /\ UNCHANGED <<saved, results, memory>>
    BY <1>4 DEF NextLoad
  <2>2. New'
    BY <1>4 DEF NextLoad, IsNext, New, Measuring, Shape, NoWork
  <2> QED
    BY <2>1, <2>2, BaselineGoesOn DEF Goal, BaselineOnly
<1>5. CASE StartBaselineLoad
  <2>1. /\ script = "baseline" /\ script' = "baseline" /\ place = "measuring"
        /\ place' \in {"loading", "finally"}
        /\ UNCHANGED <<saved, results, memory, work>>
    BY <1>5 DEF StartBaselineLoad, StartLoad
  <2>2. New'
    BY <2>1 DEF BaselineBooks, Knows, New, Measuring
  <2> QED
    BY <2>1, <2>2, BaselineGoesOn DEF Goal, BaselineOnly
<1>6. CASE FinishLoad("baseline")
  <2>1. /\ script = "baseline" /\ script' = "baseline" /\ place = "loading"
        /\ UNCHANGED <<saved, memory>>
    BY <1>6 DEF FinishLoad
  <2>2. BaselineOnly
    BY <1>6, <2>1 DEF FinishLoad, Shape, Experiments, BaselineOnly
  <2> "baseline" \in Experiments \cup {"controls"}
    BY DEF Experiments
  <2>3. /\ place' \in {"measured", "finally"}
        /\ place' = "measured" =>
              \A r, t \in work'.row : r = t /\ r.item \in work.item
    BY <1>6, NewRow
  <2>4. New'
    BY <2>1, <2>3 DEF BaselineBooks, Knows, New, Measuring
  <2> QED
    BY <2>1, <2>2, <2>4, BaselineGoesOn DEF Goal
<1>7. CASE NoteBaselineRun
  <2>1. /\ script = "baseline" /\ script' = "baseline" /\ place = "measured"
        /\ place' = "running" /\ results' = results
        /\ memory'.begun = memory.begun /\ memory'.runs = memory.runs \cup work.row
        /\ memory'.controls = memory.controls
    BY <1>7 DEF NoteBaselineRun, Shape, Blank
  <2>2. saved'["baseline"] = memory' /\ BaselineOnly
    BY <1>7, <2>1 DEF NoteBaselineRun, Shape, Experiments, BaselineOnly
  <2>3. /\ memory.begun /\ memory.controls = {} /\ OnePerItem(memory.runs)
        /\ \A r, s \in work.row : r = s /\ r.item \notin Done(memory.runs)
    BY <2>1 DEF BaselineBooks, Knows, New
  <2>4. OnePerItem(memory'.runs)
    BY <2>1, <2>3 DEF OnePerItem, Done
  <2>5. New'
    BY <2>1 DEF New, Measuring
  <2> QED
    BY <2>1, <2>2, <2>3, <2>4, <2>5, BaselineNotes DEF Goal
<1>8. CASE FinishBaseline
  <2>1. /\ script = "baseline" /\ script' = "baseline" /\ place' = "finally"
        /\ UNCHANGED <<saved, results>>
        /\ memory'.begun = memory.begun /\ memory'.runs = memory.runs
        /\ memory'.controls = memory.controls
    BY <1>8 DEF FinishBaseline, Shape, Blank
  <2>2. New' /\ BaselineOnly
    BY <2>1 DEF New, Measuring, BaselineOnly
  <2> QED
    BY <2>1, <2>2, BaselineGoesOn DEF Goal
<1>9. CASE RestoreBaseline
  <2>1. script = "baseline" /\ script' = "none" /\ results' = results
    BY <1>9 DEF RestoreBaseline
  <2> DEFINE record == [memory EXCEPT !.restored = TRUE]
  <2>2. /\ record.begun = memory.begun /\ record.runs = memory.runs
        /\ record.controls = memory.controls
    BY DEF Shape, Blank
  <2>3. saved'["baseline"] = record /\ BaselineOnly
    BY <1>9, <2>1 DEF RestoreBaseline, Shape, Experiments, BaselineOnly
  <2>4. memory.begun /\ memory.controls = {} /\ OnePerItem(memory.runs)
    BY <2>1 DEF BaselineBooks, Knows
  <2> HIDE DEF record
  <2> QED
    BY <2>1, <2>2, <2>3, <2>4, BaselineNotes DEF Goal
<1>10. (\E profileOnly \in BOOLEAN :
          \/ StartBaseline(profileOnly)
          \/ \E resume \in BOOLEAN : ReopenBaseline(resume, profileOnly)) => Goal
  <2>1. TRUE \in BOOLEAN
    OBVIOUS
  <2> QED
    BY <1>1, <2>1, Zenon
<1> QED
  BY <1>2, <1>3, <1>4, <1>5, <1>6, <1>7, <1>8, <1>9, <1>10 DEF BaselineNext, Goal
-----------------------------------------------------------------------------
OptimizedOnly ==
    /\ script' \in {"controls", "optimized", "none"}
    /\ saved'["baseline"] = saved["baseline"] /\ saved'["ablation"] = saved["ablation"]
    /\ results'["baseline"] = results["baseline"]
    /\ results'["ablation"] = results["ablation"]

(* What makes the completion of review-optimized.py's experiment earned.   *)
OptimizedEarned ==
    LET record == saved'["optimized"]
    IN  /\ ResultsOf("optimized") = record.runs /\ Done(record.runs) = Plan
        /\ OnePerItem(results["optimized"] \cup record.runs)
        /\ \A r \in record.runs :
              r.image = record.images["after"] /\ r.database = OptimizedDb(r.item.dataset)
        /\ \A r \in record.controls :
              r.sound /\ r.image = record.images["before"]

OptimizedCompletes ==
    saved'["optimized"].completed /\ ~saved["optimized"].completed => OptimizedEarned

OptimizedKept ==
    OptimizedBooks' /\ Keeps("optimized") /\ OptimizedOnly /\ OptimizedCompletes

LEMMA ItemsDataset ==
    ASSUME NEW c, NEW item \in Range(Items(c))
    PROVE  item.dataset = c
  BY DEF Range, Items

LEMMA ItemsPlanned ==
    ASSUME NEW c \in Range(Counts), NEW item \in Range(Items(c))
    PROVE  item \in Plan
  BY DEF Plan

(* The sizes left, when the one at hand is done.                           *)
LEMMA CountsTail ==
    ASSUME NEW counts \in Seq(Nat), counts # <<>>
    PROVE  /\ Tail(counts) \in Seq(Nat)
           /\ Head(counts) \in Range(counts)
           /\ Range(counts) = {Head(counts)} \cup Range(Tail(counts))
<1>1. /\ Tail(counts) \in Seq(Nat) /\ Len(counts) \in Nat \ {0}
      /\ Len(Tail(counts)) = Len(counts) - 1
      /\ DOMAIN counts = 1..Len(counts) /\ DOMAIN Tail(counts) = 1..(Len(counts) - 1)
      /\ \A i \in 1..(Len(counts) - 1) : Tail(counts)[i] = counts[i + 1]
      /\ Head(counts) = counts[1]
  OBVIOUS
<1>2. \A i \in DOMAIN counts : i = 1 \/ (i - 1 \in DOMAIN Tail(counts) /\ Tail(counts)[i - 1] = counts[i])
  BY <1>1
<1>3. Head(counts) \in Range(counts)
  BY <1>1 DEF Range
<1>4. Range(Tail(counts)) \subseteq Range(counts)
  BY <1>1 DEF Range
<1>5. ASSUME NEW i \in DOMAIN counts
      PROVE  counts[i] \in {Head(counts)} \cup Range(Tail(counts))
  <2>1. CASE i = 1
    BY <1>1, <2>1
  <2>2. CASE i - 1 \in DOMAIN Tail(counts) /\ Tail(counts)[i - 1] = counts[i]
    BY <2>2 DEF Range
  <2> QED
    BY <1>2, <2>1, <2>2
<1>6. Range(counts) \subseteq {Head(counts)} \cup Range(Tail(counts))
  BY <1>5 DEF Range
<1> QED
  BY <1>1, <1>3, <1>4, <1>6

(* A step within a session of review-optimized.py that changes no disk.    *)
LEMMA OptimizedGoesOn ==
    ASSUME OptimizedBooks, script \in {"controls", "optimized"}, script' = script,
           saved' = saved,
           results' = results,
           memory'.begun = memory.begun, memory'.runs = memory.runs,
           memory'.controls = memory.controls, memory'.images = memory.images,
           New', place' # "measured", ControlsSession', OptimizedInSession'
    PROVE  OptimizedKept
<1>1. OptimizedResults'
  BY DEF OptimizedBooks, OptimizedResults, OnePerItem
<1>2. EitherSession'
  BY DEF OptimizedBooks, EitherSession, Knows, OnePerItem
<1> QED
  BY <1>1, <1>2 DEF OptimizedKept, OptimizedBooks, Keeps, OptimizedOnly, OptimizedCompletes

(* A step that saves a record of the same session.                         *)
LEMMA OptimizedNotes ==
    ASSUME OptimizedBooks, script \in {"controls", "optimized"},
           script' \in {script, "none"}, OptimizedOnly, results' = results,
           NEW record, saved'["optimized"] = record, record.begun,
           memory.runs \subseteq record.runs, OnePerItem(record.runs),
           record.runs \subseteq results["optimized"],
           memory.controls \subseteq record.controls,
           record.controls \subseteq results["controls"],
           record.images = memory.images,
           script' = script => memory' = record /\ New' /\ place' # "measured",
           record.completed => OptimizedEarned,
           ControlsSession', OptimizedInSession'
    PROVE  OptimizedKept
<1>1. /\ saved["optimized"].runs \subseteq memory.runs
      /\ saved["optimized"].controls \subseteq memory.controls
      /\ memory.images = saved["optimized"].images
  BY DEF OptimizedBooks, EitherSession, Knows
<1>2. OptimizedResults'
  BY <1>1 DEF OptimizedBooks, OptimizedResults, OnePerItem
<1>3. EitherSession'
  BY DEF OptimizedBooks, EitherSession, Knows, OnePerItem
<1> QED
  BY <1>1, <1>2, <1>3 DEF OptimizedKept, OptimizedBooks, Keeps, OptimizedCompletes

LEMMA StartControlsKept ==
    ASSUME Shape, OptimizedBooks, ~saved["optimized"].begun, StartControls
    PROVE  OptimizedKept
<1> USE DEF stack, disk, process, Enter, Save
<1>1. /\ saved'["optimized"] = memory' /\ results' = results
      /\ script' = "controls" /\ place' = "control" /\ OptimizedOnly
  BY DEF StartControls, Shape, Experiments, OptimizedOnly
<1>2. /\ memory'.begun /\ memory'.runs = {} /\ memory'.controls = {} /\ ~memory'.completed
  BY DEF StartControls, Blank
<1>3. /\ results["optimized"] = {} /\ results["controls"] = {}
      /\ saved["optimized"].runs = {} /\ saved["optimized"].controls = {}
  BY DEF OptimizedBooks, OptimizedResults
<1>4. OptimizedResults'
  BY <1>1, <1>2, <1>3 DEF OptimizedResults, OnePerItem
<1>5. EitherSession' /\ ControlsSession' /\ OptimizedInSession'
  BY <1>1, <1>2, <1>3
     DEF EitherSession, ControlsSession, OptimizedInSession, Knows, New, Measuring, OnePerItem
<1> QED
  BY <1>1, <1>2, <1>3, <1>4, <1>5 DEF OptimizedKept, OptimizedBooks, Keeps, OptimizedCompletes

(* The steps of the controls' session up to its finally block.             *)
LEMMA ControlsKept ==
    ASSUME Shape, OptimizedBooks, script = "controls",
           \/ ConfigureControl \/ NoteControl \/ EndControls
           \/ FinishLoad("controls") \/ StartOptimizedLoad
    PROVE  OptimizedKept
<1> USE DEF stack, disk, process, At, Go, Save
<1>1. /\ memory.begun /\ memory.runs = {} /\ ~memory.completed
      /\ memory.runs \subseteq results["optimized"]
      /\ memory.controls \subseteq results["controls"]
  BY DEF OptimizedBooks, EitherSession, ControlsSession, Knows
<1>2. ~memory'.completed /\ memory'.runs = {} /\ memory'.begun = memory.begun
      /\ memory'.images = memory.images /\ script' = script
  BY <1>1 DEF ConfigureControl, NoteControl, EndControls, FinishLoad, StartOptimizedLoad,
              StartComparedLoad, StartLoad, Compared, Shape, Blank
<1>3. OptimizedInSession'
  BY <1>2 DEF OptimizedInSession
<1>4. CASE ConfigureControl
  <2>1. /\ UNCHANGED <<saved, results>> /\ place' = "measuring"
        /\ memory'.controls = memory.controls
        /\ app'.image = memory.images["before"]
    BY <1>4 DEF ConfigureControl, Connect, Shape, Blank
  <2>2. New' /\ ControlsSession'
    BY <1>2, <2>1 DEF New, ControlsSession, Measuring, Done
  <2> QED
    BY <1>1, <1>2, <1>3, <2>1, <2>2, OptimizedGoesOn
<1>5. CASE NoteControl
  <2>1. /\ place = "measured" /\ place' = "control" /\ results' = results
        /\ memory'.controls = memory.controls \cup work.row
    BY <1>5 DEF NoteControl, Shape, Blank
  <2>2. saved'["optimized"] = memory' /\ OptimizedOnly
    BY <1>2, <1>5, <2>1 DEF NoteControl, Shape, Experiments, OptimizedOnly
  <2>3. memory'.controls \subseteq results["controls"]
    BY <1>1, <2>1 DEF OptimizedBooks, EitherSession
  <2>4. New' /\ ControlsSession'
    BY <1>2, <2>1 DEF New, ControlsSession, Measuring
  <2>5. OnePerItem(memory'.runs)
    BY <1>2 DEF OnePerItem
  <2> QED
    BY <1>1, <1>2, <1>3, <2>1, <2>2, <2>3, <2>4, <2>5, OptimizedNotes
<1>6. CASE EndControls
  <2>1. UNCHANGED <<saved, results, memory>> /\ place' = "finally"
    BY <1>6 DEF EndControls
  <2>2. New' /\ ControlsSession'
    BY <1>2, <2>1 DEF New, ControlsSession, Measuring
  <2> QED
    BY <1>2, <1>3, <2>1, <2>2, OptimizedGoesOn
<1>7. CASE StartOptimizedLoad
  <2>1. /\ UNCHANGED <<saved, results, app, work>> /\ place' \in {"loading", "finally"}
        /\ memory'.controls = memory.controls /\ place = "measuring"
    BY <1>7 DEF StartOptimizedLoad, StartComparedLoad, StartLoad, Compared, Shape, Blank
  <2>2. New' /\ ControlsSession'
    BY <1>2, <2>1 DEF OptimizedBooks, New, ControlsSession, Measuring, Done
  <2> QED
    BY <1>1, <1>2, <1>3, <2>1, <2>2, OptimizedGoesOn
<1>8. CASE FinishLoad("controls")
  <2>1. /\ UNCHANGED <<saved, memory, app>> /\ place = "loading"
    BY <1>8 DEF FinishLoad
  <2> "controls" \in Experiments \cup {"controls"}
    OBVIOUS
  <2>2. /\ results["controls"] \subseteq results'["controls"]
        /\ \A r \in results'["controls"] \ results["controls"] : r.image = app.image
        /\ place' \in {"measured", "finally"}
        /\ place' = "measured" => /\ work'.row \subseteq results'["controls"]
                                  /\ \A r, t \in work'.row : r = t
    BY <1>8, NewRow
  <2>3. /\ results'["optimized"] = results["optimized"]
        /\ results'["baseline"] = results["baseline"]
        /\ results'["ablation"] = results["ablation"]
    BY <1>8, NewRow DEF Experiments
  <2>4. app.image = saved["optimized"].images["before"] /\ saved["optimized"].begun
    BY <2>1 DEF OptimizedBooks, ControlsSession, EitherSession, OptimizedResults, Measuring, Knows
  <2>5. OptimizedResults'
    BY <2>1, <2>2, <2>3, <2>4 DEF OptimizedBooks, OptimizedResults, OnePerItem
  <2>6. New'
    BY <1>2, <2>2 DEF New, Measuring, Done
  <2>7. EitherSession' /\ ControlsSession'
    BY <1>2, <2>1, <2>2, <2>3, <2>6
       DEF OptimizedBooks, EitherSession, ControlsSession, Knows, OnePerItem, Measuring
  <2> QED
    BY <1>2, <1>3, <2>1, <2>3, <2>5, <2>7
       DEF OptimizedKept, OptimizedBooks, Keeps, OptimizedOnly, OptimizedCompletes
<1> QED
  BY <1>4, <1>5, <1>6, <1>7, <1>8

(* A session of review-optimized.py that goes on with what it finds.       *)
LEMMA StartOptimizedKept ==
    ASSUME Shape, OptimizedBooks, saved["optimized"].begun,
           NEW image \in Images, NEW resume \in BOOLEAN, NEW profileOnly \in BOOLEAN,
           StartOptimized(image, resume, profileOnly)
    PROVE  OptimizedKept
<1> USE DEF stack, disk, process, Enter, Save
<1> DEFINE record == saved["optimized"]
           after == [v \in {"before", "after"} |->
                        IF v = "after" THEN image ELSE record.images["before"]]
<1>1. /\ saved'["optimized"] = memory' /\ results' = results
      /\ script' = "optimized" /\ place' = "dataset" /\ OptimizedOnly
      /\ work'.counts = Counts
  BY DEF StartOptimized, Begin, NoWork, Shape, Experiments, OptimizedOnly
<1>2. /\ memory'.begun /\ ~memory'.completed
      /\ memory'.runs = record.runs \cup results["optimized"]
      /\ memory'.controls = record.controls \cup results["controls"]
      /\ memory'.images = after
  BY DEF StartOptimized, Shape, Blank, Experiments
<1>3. /\ DOMAIN memory'.images = {"before", "after"}
      /\ memory'.images["before"] = record.images["before"]
      /\ memory'.images["after"] = image
  BY <1>2
<1>4. /\ record.runs \subseteq results["optimized"]
      /\ record.controls \subseteq results["controls"]
  BY DEF OptimizedBooks, OptimizedResults
<1>5. /\ SoundRuns(memory'.runs) /\ SoundRuns(memory'.controls)
      /\ OnePerItem(memory'.runs)
  BY <1>2, <1>4 DEF StartOptimized, CollectRuns, SoundRuns
<1>6. \A r \in results["optimized"] : r.image = memory'.images["after"]
  BY <1>3 DEF StartOptimized, OptimizedBooks, OptimizedResults
<1>7. OptimizedResults'
  BY <1>1, <1>2, <1>3, <1>4, <1>5, <1>6 DEF OptimizedBooks, OptimizedResults
<1>8. New' /\ EitherSession' /\ ControlsSession'
  BY <1>1, <1>2, <1>4, <1>5
     DEF New, EitherSession, ControlsSession, Knows, Measuring
<1>9. CountsLeft'
  BY <1>1, CountsAssumption DEF CountsLeft, Measuring
<1>10. OptimizedInSession'
  BY <1>1, <1>2, <1>3, <1>5, <1>9 DEF OptimizedInSession, Measuring
<1> QED
  BY <1>1, <1>2, <1>7, <1>8, <1>10
     DEF OptimizedKept, OptimizedBooks, Keeps, OptimizedCompletes

LEMMA RestoreOptimizedKept ==
    ASSUME Shape, OptimizedBooks, RestoreOptimized
    PROVE  OptimizedKept
<1> USE DEF stack, disk, process, At, Exit
<1> DEFINE restored == [memory EXCEPT !.restored = Recorded(memory, Original)]
<1>1. /\ script' = "none" /\ results' = results /\ script \in {"controls", "optimized"}
      /\ OptimizedOnly /\ place = "finally"
  BY DEF RestoreOptimized, Shape, Experiments, OptimizedOnly
<1>2. ControlsSession' /\ OptimizedInSession'
  BY <1>1 DEF ControlsSession, OptimizedInSession
<1>3. /\ memory.begun /\ OnePerItem(memory.runs)
      /\ memory.runs \subseteq results["optimized"]
      /\ memory.controls \subseteq results["controls"]
  BY <1>1 DEF OptimizedBooks, EitherSession, Knows
<1>4. CASE script = "controls"
  <2> DEFINE record == [restored EXCEPT !.controls = KeptRuns("controls", memory.controls)]
  <2>1. saved'["optimized"] = record
    BY <1>4 DEF RestoreOptimized, Shape, Experiments
  <2>2. /\ record.begun = memory.begun /\ record.runs = memory.runs
        /\ record.controls = KeptRuns("controls", memory.controls)
        /\ record.images = memory.images /\ record.completed = memory.completed
    BY DEF Shape, Blank
  <2>3. /\ memory.controls \subseteq record.controls
        /\ record.controls \subseteq results["controls"]
    BY <1>3, <2>2 DEF KeptRuns
  <2>4. ~record.completed
    BY <1>4, <2>2 DEF OptimizedBooks, ControlsSession
  <2> HIDE DEF record
  <2> QED
    BY <1>1, <1>2, <1>3, <2>1, <2>2, <2>3, <2>4, OptimizedNotes
<1>5. CASE script = "optimized"
  <2> DEFINE record == [restored EXCEPT !.runs = KeptRuns("optimized", memory.runs)]
  <2>1. saved'["optimized"] = record
    BY <1>5 DEF RestoreOptimized, Shape, Experiments
  <2>2. /\ record.begun = memory.begun /\ record.controls = memory.controls
        /\ record.runs = KeptRuns("optimized", memory.runs)
        /\ record.images = memory.images /\ record.completed = memory.completed
    BY DEF Shape, Blank
  <2>3. /\ memory.runs \subseteq record.runs /\ OnePerItem(record.runs)
        /\ record.runs \subseteq results["optimized"]
    BY <1>3, <2>2 DEF KeptRuns, CollectRuns
  <2>4. ASSUME record.completed PROVE OptimizedEarned
    <3>1. /\ results["optimized"] \subseteq memory.runs /\ Plan \subseteq Done(memory.runs)
          /\ SoundRuns(memory.runs) /\ SoundRuns(memory.controls)
      BY <1>5, <2>2, <2>4 DEF OptimizedBooks, OptimizedInSession
    <3>2. record.runs = memory.runs /\ record.runs = results["optimized"]
      BY <1>3, <2>3, <3>1
    <3>3. ResultsOf("optimized") = record.runs
      BY <3>1, <3>2 DEF ResultsOf, SoundRuns
    <3>4. Done(record.runs) = Plan
      BY <3>1, <3>2 DEF OptimizedBooks, OptimizedResults, Done
    <3>5. OnePerItem(results["optimized"] \cup record.runs)
      BY <2>3, <3>2 DEF OnePerItem
    <3>6. /\ record.images = saved["optimized"].images
          /\ \A r \in record.runs : r.image = record.images["after"]
                                    /\ r.database = OptimizedDb(r.item.dataset)
          /\ \A r \in record.controls : r.sound /\ r.image = record.images["before"]
      BY <1>1, <1>3, <2>2, <3>1, <3>2
         DEF OptimizedBooks, OptimizedResults, EitherSession, SoundRuns
    <3> HIDE DEF record
    <3> QED
      BY <2>1, <3>3, <3>4, <3>5, <3>6 DEF OptimizedEarned
  <2> HIDE DEF record
  <2> QED
    BY <1>1, <1>2, <1>3, <2>1, <2>2, <2>3, <2>4, OptimizedNotes
<1> QED
  BY <1>1, <1>4, <1>5

(* The steps of a measuring session up to its finally block.               *)
LEMMA MeasuringKept ==
    ASSUME Shape, OptimizedBooks, script = "optimized",
           \/ ConfigureCopy \/ CopyDataset \/ ProfileOptimizedPage \/ EndOptimizedProfile
           \/ NextLoad("optimized") \/ StartOptimizedLoad \/ FinishLoad("optimized")
           \/ NoteOptimizedRun \/ FinishOptimized
    PROVE  OptimizedKept
<1> USE DEF stack, disk, process, At, Go, Save
<1>1. /\ memory.begun /\ OnePerItem(memory.runs) /\ saved["optimized"].begun
      /\ memory.runs \subseteq results["optimized"]
      /\ memory.controls \subseteq results["controls"]
      /\ "after" \in DOMAIN memory.images
      /\ SoundRuns(memory.controls) /\ SoundRuns(memory.runs)
      /\ CountsLeft /\ New
      /\ place # "finally" => ~memory.completed
  BY DEF OptimizedBooks, EitherSession, OptimizedInSession, Knows
<1>2. /\ script' = script /\ memory'.begun = memory.begun
      /\ memory'.images = memory.images /\ memory'.controls = memory.controls
  BY DEF ConfigureCopy, CopyDataset, ProfileOptimizedPage, ProfilePage, ExplainPage,
         EndOptimizedProfile, NextLoad, StartOptimizedLoad, StartComparedLoad, StartLoad,
         FinishLoad, NoteOptimizedRun, FinishOptimized, Compared, Shape, Blank
<1>3. ControlsSession'
  BY <1>2 DEF ControlsSession
<1>4. CASE ConfigureCopy
  <2>1. /\ UNCHANGED <<saved, results, memory, work>> /\ place = "dataset"
        /\ place' = "copying" /\ work.counts # <<>>
        /\ app'.image = memory.images["after"]
        /\ app'.database = OptimizedDb(Head(work.counts))
    BY <1>4 DEF ConfigureCopy, Connect
  <2>2. New' /\ CountsLeft'
    BY <1>1, <2>1 DEF New, CountsLeft, Measuring
  <2>3. OptimizedInSession'
    BY <1>1, <2>1, <2>2 DEF OptimizedBooks, OptimizedInSession, Measuring
  <2> QED
    BY <1>2, <1>3, <2>1, <2>2, <2>3, OptimizedGoesOn
<1>5. CASE CopyDataset
  <2>1. /\ UNCHANGED <<results, app>> /\ place = "copying" /\ place' \in {"profiling", "finally"}
        /\ memory'.runs = memory.runs /\ memory'.completed = memory.completed
        /\ work'.counts = work.counts /\ work'.profileOnly = work.profileOnly
    BY <1>5 DEF CopyDataset, Shape, Blank, NoWork
  <2>2. New' /\ CountsLeft'
    BY <1>1, <1>2, <2>1 DEF New, CountsLeft, Measuring
  <2>3. OptimizedInSession'
    BY <1>1, <1>2, <2>1, <2>2 DEF OptimizedBooks, OptimizedInSession, Measuring
  <2>4. CASE saved' = saved
    BY <1>2, <1>3, <2>1, <2>2, <2>3, <2>4, OptimizedGoesOn
  <2>5. CASE saved' = [saved EXCEPT !["optimized"] = memory']
    <3>1. saved'["optimized"] = memory' /\ OptimizedOnly
      BY <1>2, <2>1, <2>5 DEF Shape, Experiments, OptimizedOnly
    <3> QED
      BY <1>1, <1>2, <1>3, <2>1, <2>2, <2>3, <3>1, OptimizedNotes
  <2> QED
    BY <1>5, <2>4, <2>5 DEF CopyDataset
<1>6. CASE ProfileOptimizedPage
  <2>1. /\ UNCHANGED <<results, saved, app>> /\ place \in {"profiling", "explaining"}
        /\ place' \in {"profiling", "explaining", "finally"}
        /\ memory'.runs = memory.runs /\ memory'.completed = memory.completed
        /\ work'.counts = work.counts /\ work'.profileOnly = work.profileOnly
    BY <1>6 DEF ProfileOptimizedPage, ProfilePage, ExplainPage, Compared, Shape, Blank, NoWork
  <2>2. New' /\ CountsLeft'
    BY <1>1, <1>2, <2>1 DEF New, CountsLeft, Measuring
  <2>3. OptimizedInSession'
    BY <1>1, <1>2, <2>1, <2>2 DEF OptimizedBooks, OptimizedInSession, Measuring
  <2> QED
    BY <1>2, <1>3, <2>1, <2>2, <2>3, OptimizedGoesOn
<1>7. CASE EndOptimizedProfile
  <2>1. /\ UNCHANGED <<results, memory, app>> /\ place = "profiling"
        /\ place' \in {"dataset", "running"}
        /\ work'.profileOnly = work.profileOnly
        /\ place' = "running" => work'.counts = work.counts
        /\ place' = "dataset" => work'.counts = Tail(work.counts) /\ work.profileOnly
    BY <1>7 DEF EndOptimizedProfile, Shape, NoWork
  <2>2. CountsLeft'
    <3>1. CASE place' = "running"
      BY <1>1, <2>1, <3>1 DEF CountsLeft, Measuring
    <3>2. CASE place' = "dataset"
      BY <1>1, <2>1, <3>2, CountsTail DEF CountsLeft, Measuring
    <3> QED
      BY <2>1, <3>1, <3>2
  <2>3. New'
    BY <2>1 DEF New, Measuring
  <2>4. OptimizedInSession'
    BY <1>1, <1>2, <2>1, <2>2 DEF OptimizedBooks, OptimizedInSession, Measuring
  <2>5. saved'["optimized"] = memory' /\ OptimizedOnly
    BY <1>2, <1>7, <2>1 DEF EndOptimizedProfile, Shape, Experiments, OptimizedOnly
  <2> QED
    BY <1>1, <1>2, <1>3, <2>1, <2>3, <2>4, <2>5, OptimizedNotes
<1>8. CASE NextLoad("optimized")
  <2>1. UNCHANGED <<results, saved, memory, app>> /\ place = "running"
    BY <1>8 DEF NextLoad
  <2>2. CASE DatasetDone /\ place' = "dataset" /\ work' = [work EXCEPT !.counts = Tail(@)]
    <3>1. work'.counts = Tail(work.counts) /\ work'.profileOnly = work.profileOnly
      BY <2>2 DEF Shape, NoWork
    <3>2. Range(Items(Head(work.counts))) \subseteq Done(memory.runs)
      BY <2>2 DEF DatasetDone, AllDone
    <3>3. CountsLeft'
      BY <1>1, <2>1, <2>2, <3>1, <3>2, CountsTail DEF CountsLeft, Measuring
    <3>4. New'
      BY <2>2 DEF New, Measuring
    <3>5. OptimizedInSession'
      BY <1>1, <1>2, <2>1, <2>2, <3>3 DEF OptimizedBooks, OptimizedInSession, Measuring
    <3> QED
      BY <1>2, <1>3, <2>1, <2>2, <3>4, <3>5, OptimizedGoesOn
  <2>3. ASSUME NEW item \in Range(Items(Head(work.counts))), item \notin Done(memory.runs),
               place' = "measuring", work' = [work EXCEPT !.item = {item}]
        PROVE  OptimizedKept
    <3>1. /\ work'.counts = work.counts /\ work'.profileOnly = work.profileOnly
          /\ work'.item = {item}
      BY <2>3 DEF Shape, NoWork
    <3>2. CountsLeft'
      BY <1>1, <2>1, <2>3, <3>1 DEF CountsLeft, Measuring
    <3>3. New'
      BY <2>1, <2>3, <3>1 DEF New, Measuring
    <3>4. OptimizedInSession'
      BY <1>1, <1>2, <2>1, <2>3, <3>1, <3>2
         DEF OptimizedBooks, OptimizedInSession, Measuring
    <3> QED
      BY <1>2, <1>3, <2>1, <2>3, <3>3, <3>4, OptimizedGoesOn
  <2> QED
    BY <1>8, <2>2, <2>3 DEF NextLoad, IsNext
<1>9. CASE StartOptimizedLoad
  <2>1. /\ UNCHANGED <<results, saved, work, app>> /\ place = "measuring"
        /\ place' \in {"loading", "finally"}
        /\ memory'.runs = memory.runs /\ memory'.completed = memory.completed
    BY <1>9 DEF StartOptimizedLoad, StartComparedLoad, StartLoad, Compared, Shape, Blank
  <2>2. New' /\ CountsLeft'
    BY <1>1, <1>2, <2>1 DEF New, CountsLeft, Measuring
  <2>3. OptimizedInSession'
    BY <1>1, <1>2, <2>1, <2>2 DEF OptimizedBooks, OptimizedInSession, Measuring
  <2> QED
    BY <1>2, <1>3, <2>1, <2>2, <2>3, OptimizedGoesOn
<1>10. CASE FinishLoad("optimized")
  <2>1. UNCHANGED <<saved, memory, app>> /\ place = "loading"
    BY <1>10 DEF FinishLoad
  <2> "optimized" \in Experiments \cup {"controls"}
    BY DEF Experiments
  <2>2. /\ results["optimized"] \subseteq results'["optimized"]
        /\ \A r \in results'["optimized"] \ results["optimized"] :
              /\ r.item \in work.item
              /\ r.image = app.image /\ r.database = app.database
        /\ place' \in {"measured", "finally"}
        /\ place' = "measured" =>
              /\ results'["optimized"] = results["optimized"] \cup work'.row
              /\ \A r, t \in work'.row : r = t
              /\ \A r \in work'.row : r.sound /\ r.item \in work.item
        /\ work'.counts = work.counts /\ work'.profileOnly = work.profileOnly
    BY <1>10, NewRow
  <2>3. /\ results'["controls"] = results["controls"]
        /\ results'["baseline"] = results["baseline"]
        /\ results'["ablation"] = results["ablation"]
    BY <1>10, NewRow DEF Experiments
  <2>4. /\ memory.images = saved["optimized"].images
        /\ results["optimized"] \subseteq memory.runs
        /\ work.item \subseteq Range(Items(Head(work.counts)))
    BY <2>1 DEF OptimizedBooks, EitherSession, OptimizedInSession, Measuring
  <2>5. /\ app.image = memory.images["after"]
        /\ app.database = OptimizedDb(Head(work.counts))
        /\ Head(work.counts) \in Range(Counts)
    BY <1>1, <2>1, CountsTail DEF CountsLeft, Measuring
  <2>6. \A item \in work.item : item.dataset = Head(work.counts) /\ item \in Plan
    BY <2>4, <2>5, ItemsDataset, ItemsPlanned
  <2>7. OptimizedResults'
    BY <1>1, <2>1, <2>2, <2>3, <2>4, <2>5, <2>6
       DEF OptimizedBooks, OptimizedResults, OnePerItem
  <2>8. New'
    BY <1>1, <2>1, <2>2 DEF New, Measuring
  <2>9. EitherSession'
    BY <1>2, <2>1, <2>2, <2>3, <2>8
       DEF OptimizedBooks, EitherSession, Knows, OnePerItem
  <2>10. CountsLeft'
    BY <1>1, <2>1, <2>2 DEF CountsLeft, Measuring
  <2>11. OptimizedInSession'
    BY <1>1, <1>2, <2>1, <2>2, <2>4, <2>10
       DEF OptimizedInSession, Measuring, SoundRuns
  <2> QED
    BY <1>2, <1>3, <2>1, <2>3, <2>7, <2>9, <2>11
       DEF OptimizedKept, OptimizedBooks, Keeps, OptimizedOnly, OptimizedCompletes
<1>11. CASE NoteOptimizedRun
  <2>1. /\ place = "measured" /\ place' = "running" /\ UNCHANGED <<results, app>>
        /\ memory'.runs = memory.runs \cup work.row /\ memory'.completed = memory.completed
        /\ work'.counts = work.counts /\ work'.profileOnly = work.profileOnly
    BY <1>11 DEF NoteOptimizedRun, Shape, Blank, NoWork
  <2>2. saved'["optimized"] = memory' /\ OptimizedOnly
    BY <1>2, <1>11, <2>1 DEF NoteOptimizedRun, Shape, Experiments, OptimizedOnly
  <2>3. /\ work.row \subseteq results["optimized"]
        /\ results["optimized"] \subseteq memory.runs \cup work.row /\ SoundRuns(work.row)
        /\ \A r, s \in work.row : r = s /\ r.item \notin Done(memory.runs)
    BY <1>1, <2>1 DEF OptimizedBooks, EitherSession, OptimizedInSession, New
  <2>4. OnePerItem(memory'.runs) /\ SoundRuns(memory'.runs)
    BY <1>1, <2>1, <2>3 DEF OnePerItem, SoundRuns, Done
  <2>5. New' /\ CountsLeft'
    BY <1>1, <1>2, <2>1 DEF New, CountsLeft, Measuring, Done
  <2>6. OptimizedInSession'
    BY <1>1, <1>2, <2>1, <2>3, <2>4, <2>5 DEF OptimizedInSession, Measuring
  <2> QED
    BY <1>1, <1>2, <1>3, <2>1, <2>2, <2>3, <2>4, <2>5, <2>6, OptimizedNotes
<1>12. CASE FinishOptimized
  <2>1. /\ UNCHANGED <<results, saved, work, app>> /\ place = "dataset" /\ place' = "finally"
        /\ work.counts = <<>> /\ memory'.runs = memory.runs
        /\ memory'.completed => ~work.profileOnly
    BY <1>12 DEF FinishOptimized, Shape, Blank
  <2>2. New' /\ CountsLeft'
    BY <1>1, <1>2, <2>1 DEF New, CountsLeft, Measuring
  <2>3. memory'.completed => Plan \subseteq Done(memory.runs)
    <3>1. Range(work.counts) = {}
      BY <2>1 DEF Range
    <3> QED
      BY <1>1, <2>1, <3>1 DEF CountsLeft, Plan
  <2>4. results["optimized"] \subseteq memory.runs
    BY <2>1 DEF OptimizedBooks, OptimizedInSession
  <2>5. OptimizedInSession'
    BY <1>1, <1>2, <2>1, <2>2, <2>3, <2>4 DEF OptimizedInSession, Measuring
  <2> QED
    BY <1>2, <1>3, <2>1, <2>2, <2>5, OptimizedGoesOn
<1> QED
  BY <1>4, <1>5, <1>6, <1>7, <1>8, <1>9, <1>10, <1>11, <1>12

LEMMA OptimizedBooksStep ==
    ASSUME Shape, OptimizedBooks, OptimizedNext
    PROVE  OptimizedKept
<1>1. CASE OptimizedSession
  BY <1>1, StartControlsKept, StartOptimizedKept DEF OptimizedSession
<1>2. CASE \/ ConfigureControl \/ NoteControl \/ EndControls \/ FinishLoad("controls")
           \/ StartOptimizedLoad /\ script = "controls"
  <2>1. script = "controls"
    BY <1>2 DEF ConfigureControl, NoteControl, EndControls, FinishLoad, At
  <2> QED
    BY <1>2, <2>1, ControlsKept
<1>3. CASE \/ ConfigureCopy \/ CopyDataset \/ ProfileOptimizedPage \/ EndOptimizedProfile
           \/ NextLoad("optimized") \/ FinishLoad("optimized")
           \/ StartOptimizedLoad /\ script = "optimized"
           \/ NoteOptimizedRun \/ FinishOptimized
  <2>1. script = "optimized"
    BY <1>3 DEF ConfigureCopy, CopyDataset, ProfileOptimizedPage, ProfilePage, ExplainPage,
                EndOptimizedProfile, NextLoad, FinishLoad, NoteOptimizedRun, FinishOptimized,
                At
  <2> QED
    BY <1>3, <2>1, MeasuringKept
<1>4. StartOptimizedLoad => script \in {"controls", "optimized"}
  BY DEF StartOptimizedLoad
<1> QED
  BY <1>1, <1>2, <1>3, <1>4, RestoreOptimizedKept DEF OptimizedNext
-----------------------------------------------------------------------------
AblationOnly ==
    /\ script' \in {"ablation", "none"}
    /\ saved'["baseline"] = saved["baseline"] /\ saved'["optimized"] = saved["optimized"]
    /\ results'["baseline"] = results["baseline"]
    /\ results'["optimized"] = results["optimized"]
    /\ results'["controls"] = results["controls"]

(* What makes the completion of the ablation earned.                       *)
AblationEarned ==
    LET record == saved'["ablation"]
    IN  /\ ResultsOf("ablation") = record.runs /\ Done(record.runs) = Range(Schedule)
        /\ OnePerItem(results["ablation"])
        /\ \A r \in record.runs :
              /\ r.image = Variants[r.item.variant]
              /\ r.database = OptimizedDb(r.item.dataset)
        /\ app' = [image |-> record.original, database |-> Original]
        /\ \A d \in Tables : data[d] = record.before[d]

AblationCompletes ==
    saved'["ablation"].completed /\ ~saved["ablation"].completed => AblationEarned

AblationKept ==
    AblationBooks' /\ Keeps("ablation") /\ AblationOnly /\ AblationCompletes

(* A step within a session of the ablation that changes no disk.           *)
LEMMA AblationGoesOn ==
    ASSUME AblationBooks, script = "ablation", script' = "ablation",
           saved' = saved, results' = results, AblationInSession'
    PROVE  AblationKept
  BY DEF AblationBooks, AblationResults, AblationKept, Keeps, AblationOnly,
         AblationCompletes, OnePerItem

(* A step that saves a record of the same session.                         *)
LEMMA AblationNotes ==
    ASSUME AblationBooks, script = "ablation",
           AblationOnly, results' = results,
           NEW record, saved'["ablation"] = record, record.begun,
           memory.runs \subseteq record.runs, OnePerItem(record.runs),
           record.runs \subseteq results["ablation"],
           record.controls = {},
           record.profiled => Range(Schedule) \subseteq Done(results["ablation"]),
           record.completed => AblationEarned,
           AblationInSession'
    PROVE  AblationKept
<1>1. /\ saved["ablation"].runs \subseteq memory.runs /\ saved["ablation"].controls = {}
  BY DEF AblationBooks, AblationInSession, AblationResults, Knows
<1>2. AblationResults'
  BY <1>1 DEF AblationBooks, AblationResults
<1> QED
  BY <1>1, <1>2 DEF AblationKept, AblationBooks, Keeps, AblationCompletes

LEMMA BeginAblationKept ==
    ASSUME Ledger, AblationBooks, AblationSession PROVE AblationKept
<1> USE DEF stack, disk, process, Enter, Save, Ledger
<1>0. StartAblation \/ ResumeAblation
  BY DEF AblationSession
<1>1. /\ saved'["ablation"] = memory' /\ results' = results
      /\ script' = "ablation" /\ place' = "checking" /\ AblationOnly
  BY <1>0 DEF StartAblation, ResumeAblation, Shape, Experiments, AblationOnly
<1>2. /\ memory'.begun /\ memory'.controls = {} /\ memory'.active = {} /\ ~memory'.completed
  BY <1>0 DEF StartAblation, ResumeAblation, Collected, Shape, Blank, Experiments,
              AblationBooks, AblationResults
<1>3. /\ memory'.runs = results["ablation"] /\ OnePerItem(memory'.runs)
      /\ AnnotatedAll(memory'.runs)
      /\ saved["ablation"].runs \subseteq memory'.runs
  <2>1. CASE StartAblation
    <3>1. memory'.runs = {}
      BY <2>1 DEF StartAblation, Blank
    <3>2. results["ablation"] = {} /\ saved["ablation"].runs = {}
      BY <2>1 DEF StartAblation, AblationBooks, AblationResults
    <3> QED
      BY <3>1, <3>2 DEF AnnotatedAll, OnePerItem
  <2>2. CASE ResumeAblation
    <3>1. memory'.runs = results["ablation"] /\ Collectable(saved["ablation"])
      BY <2>2 DEF ResumeAblation, Collected, Shape, Blank, Experiments
    <3> QED
      BY <3>1 DEF Collectable, AnnotatedAll, AblationBooks, AblationResults
  <2> QED
    BY <1>0, <2>1, <2>2
<1>4. memory'.profiled => Range(Schedule) \subseteq Done(results["ablation"])
  <2>1. CASE StartAblation
    BY <2>1 DEF StartAblation, Blank
  <2>2. CASE ResumeAblation
    BY <2>2 DEF ResumeAblation, Collected, Shape, Blank, Experiments, AblationBooks,
                AblationResults
  <2> QED
    BY <1>0, <2>1, <2>2
<1>5. AblationInSession'
  BY <1>1, <1>2, <1>3, <1>4 DEF AblationInSession, Knows, New, Measuring
<1>6. AblationResults'
  BY <1>1, <1>2, <1>3, <1>4 DEF AblationBooks, AblationResults
<1>7. saved["ablation"].controls = {}
  BY DEF AblationBooks, AblationResults
<1> QED
  BY <1>1, <1>2, <1>3, <1>5, <1>6, <1>7
     DEF AblationKept, AblationBooks, Keeps, AblationCompletes

LEMMA RestoreAblationKept ==
    ASSUME Ledger, AblationBooks, RestoreAblation PROVE AblationKept
<1> USE DEF stack, disk, process, At, Exit, Ledger
<1> DEFINE record == [KeptRecord EXCEPT
                !.restored  = Recorded(KeptRecord, Original),
                !.completed = /\ Cardinality(KeptRecord.runs) = Len(Schedule)
                              /\ KeptRecord.profiled /\ Unchanged(KeptRecord)]
<1>1. /\ script = "ablation" /\ script' = "none" /\ place = "finally" /\ results' = results
      /\ saved'["ablation"] = record /\ AblationOnly
      /\ app' = [image |-> memory.original, database |-> Original]
  BY DEF RestoreAblation, Connect, Shape, Experiments, AblationOnly
<1>2. /\ memory.begun /\ OnePerItem(memory.runs) /\ memory.controls = {}
      /\ memory.runs \subseteq results["ablation"]
      /\ AnnotatedAll(memory.runs)
      /\ memory.profiled => /\ Range(Schedule) \subseteq Done(memory.runs)
                            /\ results["ablation"] \subseteq memory.runs
                            /\ memory.active = {}
  BY <1>1 DEF AblationBooks, AblationInSession, Knows
<1>3. /\ DOMAIN KeptRecord = DOMAIN Blank /\ KeptRecord.begun = memory.begun
      /\ KeptRecord.controls = memory.controls
      /\ KeptRecord.profiled = memory.profiled /\ KeptRecord.original = memory.original
      /\ KeptRecord.before = memory.before
      /\ KeptRecord.runs \in {memory.runs, results["ablation"]}
      /\ KeptRecord.runs # memory.runs => OnePerItem(results["ablation"])
  BY DEF KeptRecord, Collected, Collectable, Shape, Blank
<1>4. /\ record.begun = memory.begun /\ record.controls = memory.controls
      /\ record.profiled = memory.profiled /\ record.original = memory.original
      /\ record.before = memory.before /\ record.runs = KeptRecord.runs
      /\ record.completed => memory.profiled /\ Unchanged(KeptRecord)
  BY <1>3 DEF Blank
<1>5. /\ memory.runs \subseteq record.runs /\ OnePerItem(record.runs)
      /\ record.runs \subseteq results["ablation"]
  BY <1>2, <1>3, <1>4
<1>6. record.profiled => Range(Schedule) \subseteq Done(results["ablation"])
  BY <1>2, <1>4 DEF Done
<1>7. ASSUME record.completed PROVE AblationEarned
  <2>1. record.runs = results["ablation"] /\ record.runs = memory.runs
    BY <1>2, <1>4, <1>5, <1>7
  <2>2. ResultsOf("ablation") = record.runs
    BY <1>2, <2>1 DEF ResultsOf, AnnotatedAll, Annotated
  <2>3. Done(record.runs) = Range(Schedule)
    BY <1>2, <1>4, <1>7, <2>1 DEF AblationBooks, AblationResults, Done
  <2>4. \A r \in record.runs : /\ r.image = Variants[r.item.variant]
                               /\ r.database = OptimizedDb(r.item.dataset)
    BY <1>2, <2>1 DEF AnnotatedAll, Annotated, AblationBooks, AblationResults
  <2>5. \A d \in Tables : data[d] = record.before[d]
    BY <1>3, <1>4, <1>7 DEF Unchanged, Recorded
  <2>6. app' = [image |-> record.original, database |-> Original]
    BY <1>1, <1>4
  <2> HIDE DEF record
  <2> QED
    BY <1>1, <1>5, <2>1, <2>2, <2>3, <2>4, <2>5, <2>6 DEF AblationEarned
<1>8. AblationInSession'
  BY <1>1 DEF AblationInSession
<1> HIDE DEF record
<1> QED
  BY <1>1, <1>2, <1>4, <1>5, <1>6, <1>7, <1>8, AblationNotes

(* The steps of a session of the ablation up to its finally block.         *)
LEMMA AblatingKept ==
    ASSUME Ledger, AblationBooks, script = "ablation",
           \/ CheckDatasets \/ Stop \/ ConnectVariant \/ NoteActive \/ StartAblationLoad
           \/ FinishLoad("ablation") \/ NoteAblationRun \/ BeginProfiles \/ ConnectProfile
           \/ ProfileVariantPage \/ EndVariantProfile \/ FinishAblation
    PROVE  AblationKept
<1> USE DEF stack, disk, process, At, Go, Save, Ledger
<1>1. /\ memory.begun /\ OnePerItem(memory.runs) /\ saved["ablation"].begun
      /\ memory.controls = {} /\ ~memory.completed
      /\ memory.runs \subseteq results["ablation"]
      /\ AnnotatedAll(memory.runs) /\ New
      /\ saved["ablation"].runs \subseteq memory.runs
      /\ memory.profiled => Range(Schedule) \subseteq Done(memory.runs)
      /\ saved["ablation"].controls = {}
  BY DEF AblationBooks, AblationInSession, AblationResults, Knows
<1>2. /\ script' = "ablation" /\ memory'.begun = memory.begun
      /\ memory'.controls = memory.controls /\ memory'.completed = memory.completed
  BY DEF CheckDatasets, Stop, ConnectVariant, NoteActive, StartAblationLoad,
         StartComparedLoad, StartLoad, FinishLoad, NoteAblationRun, BeginProfiles,
         ConnectProfile, ProfileVariantPage, ProfilePage, ExplainPage, EndVariantProfile,
         FinishAblation, Compared, Shape, Blank
<1>3. CASE CheckDatasets \/ Stop
  <2>1. /\ UNCHANGED <<saved, results, memory, app>> /\ place' \in {"schedule", "finally"}
        /\ place \in {"checking", "schedule", "connected", "profiles"}
        /\ place' = "schedule" => place = "checking"
    BY <1>3 DEF CheckDatasets, Stop
  <2>2. New'
    BY <2>1 DEF New, Measuring
  <2>3. AblationInSession'
    BY <1>1, <1>2, <2>1, <2>2 DEF AblationBooks, AblationInSession, Knows, Measuring
  <2> QED
    BY <1>2, <2>1, <2>3, AblationGoesOn
<1>4. CASE ConnectVariant
  <2>1. UNCHANGED <<saved, results, memory>> /\ place = "schedule" /\ place' = "connected"
    BY <1>4 DEF ConnectVariant
  <2>2. PICK item \in Range(Schedule) :
           /\ item \notin Done(memory.runs)
           /\ ConnectAs(item.variant, item.dataset)
           /\ work' = [work EXCEPT !.item = {item}]
    BY <1>4 DEF ConnectVariant, IsNext
  <2>3. work'.item = {item}
    BY <2>2 DEF Shape, NoWork
  <2>4. app'.image = Variants[item.variant] /\ app'.database = OptimizedDb(item.dataset)
    BY <2>2 DEF ConnectAs, Connect
  <2>5. ~memory.profiled
    BY <1>1, <2>2
  <2>6. New'
    BY <2>1, <2>2, <2>3 DEF New, Measuring
  <2>7. AblationInSession'
    BY <1>1, <1>2, <2>1, <2>3, <2>4, <2>5, <2>6
       DEF AblationBooks, AblationInSession, Knows, Measuring
  <2> QED
    BY <1>2, <2>1, <2>7, AblationGoesOn
<1>5. CASE NoteActive
  <2>1. /\ UNCHANGED <<results, work, app>> /\ place = "connected" /\ place' = "measuring"
        /\ memory'.runs = memory.runs /\ memory'.profiled = memory.profiled
    BY <1>5 DEF NoteActive, Shape, Blank
  <2>2. saved'["ablation"] = memory' /\ AblationOnly
    BY <1>2, <1>5, <2>1 DEF NoteActive, Shape, Experiments, AblationOnly
  <2>3. New'
    BY <1>1, <2>1 DEF New, Measuring, Done
  <2>4. AblationInSession'
    BY <1>1, <1>2, <2>1, <2>2, <2>3
       DEF AblationBooks, AblationInSession, Knows, Measuring
  <2>5. memory'.profiled => Range(Schedule) \subseteq Done(results["ablation"])
    BY <1>1, <2>1 DEF Done
  <2> QED
    BY <1>1, <1>2, <2>1, <2>2, <2>4, <2>5, AblationNotes
<1>6. CASE StartAblationLoad
  <2>1. /\ UNCHANGED <<saved, results, work, app>> /\ place = "measuring"
        /\ place' \in {"loading", "finally"}
        /\ memory'.runs = memory.runs /\ memory'.profiled = memory.profiled
        /\ memory'.active = memory.active
    BY <1>6 DEF StartAblationLoad, StartComparedLoad, StartLoad, Compared, Shape, Blank
  <2>2. New'
    BY <1>1, <2>1 DEF New, Measuring, Done
  <2>3. AblationInSession'
    BY <1>1, <1>2, <2>1, <2>2 DEF AblationBooks, AblationInSession, Knows, Measuring
  <2> QED
    BY <1>2, <2>1, <2>3, AblationGoesOn
<1>7. CASE FinishLoad("ablation")
  <2>1. UNCHANGED <<saved, memory, app>> /\ place = "loading"
    BY <1>7 DEF FinishLoad
  <2> "ablation" \in Experiments \cup {"controls"}
    BY DEF Experiments
  <2>2. /\ results["ablation"] \subseteq results'["ablation"]
        /\ \A r \in results'["ablation"] \ results["ablation"] :
              r.item \in work.item /\ r.database = app.database
        /\ place' \in {"measured", "finally"}
        /\ place' = "measured" =>
              /\ results'["ablation"] = results["ablation"] \cup work'.row
              /\ \A r, t \in work'.row : r = t
              /\ \A r \in work'.row : /\ r.sound /\ r.item \in work.item
                                      /\ r.image = app.image
    BY <1>7, NewRow
  <2>3. /\ results'["controls"] = results["controls"]
        /\ results'["baseline"] = results["baseline"]
        /\ results'["optimized"] = results["optimized"]
    BY <1>7, NewRow DEF Experiments
  <2>4. /\ results["ablation"] \subseteq memory.runs /\ ~memory.profiled
        /\ \A item \in work.item : /\ item \in Range(Schedule)
                                   /\ app.image = Variants[item.variant]
                                   /\ app.database = OptimizedDb(item.dataset)
    BY <2>1 DEF AblationBooks, AblationInSession, Measuring
  <2>5. Done(results["ablation"]) \subseteq Done(results'["ablation"])
    BY <2>2 DEF Done
  <2>6. AblationResults'
    <3>1. /\ OnePerItem(saved'["ablation"].runs) /\ saved'["ablation"].controls = {}
          /\ saved'["ablation"].runs \subseteq results'["ablation"]
          /\ saved'["ablation"].begun
          /\ saved'["ablation"].profiled => Range(Schedule) \subseteq Done(results'["ablation"])
      BY <1>1, <2>1, <2>2, <2>5 DEF AblationBooks, AblationResults
    <3>2. \A r \in results'["ablation"] :
             r.database = OptimizedDb(r.item.dataset) /\ r.item \in Range(Schedule)
      BY <2>2, <2>4 DEF AblationBooks, AblationResults
    <3> QED
      BY <3>1, <3>2 DEF AblationResults
  <2>7. New'
    BY <1>1, <2>1, <2>2 DEF New, Measuring
  <2>8. AnnotatedAll(memory'.runs) /\ (place' = "measured" => AnnotatedAll(work'.row))
    BY <1>1, <2>1, <2>2, <2>4 DEF AnnotatedAll, Annotated
  <2>9. AblationInSession'
    BY <1>1, <1>2, <2>1, <2>2, <2>4, <2>7, <2>8
       DEF AblationInSession, Knows, Measuring
  <2> QED
    BY <1>2, <2>1, <2>3, <2>6, <2>9
       DEF AblationKept, AblationBooks, Keeps, AblationOnly, AblationCompletes
<1>8. CASE NoteAblationRun
  <2>1. /\ UNCHANGED <<results, app>> /\ place = "measured" /\ place' = "schedule"
        /\ memory'.runs = memory.runs \cup work.row /\ memory'.profiled = memory.profiled
        /\ memory'.active = {}
    BY <1>8 DEF NoteAblationRun, Shape, Blank
  <2>2. saved'["ablation"] = memory' /\ AblationOnly
    BY <1>2, <1>8, <2>1 DEF NoteAblationRun, Shape, Experiments, AblationOnly
  <2>3. /\ work.row \subseteq results["ablation"] /\ AnnotatedAll(work.row)
        /\ results["ablation"] \subseteq memory.runs \cup work.row
        /\ ~memory.profiled
        /\ \A r, s \in work.row : r = s /\ r.item \notin Done(memory.runs)
    BY <1>1, <2>1 DEF AblationBooks, AblationInSession, New
  <2>4. OnePerItem(memory'.runs) /\ AnnotatedAll(memory'.runs)
    BY <1>1, <2>1, <2>3 DEF OnePerItem, AnnotatedAll, Done
  <2>5. New'
    BY <2>1 DEF New, Measuring
  <2>6. AblationInSession'
    BY <1>1, <1>2, <2>1, <2>2, <2>3, <2>4, <2>5 DEF AblationInSession, Knows, Measuring
  <2> QED
    BY <1>1, <1>2, <2>1, <2>2, <2>3, <2>4, <2>6, AblationNotes
<1>9. CASE BeginProfiles \/ ConnectProfile
  <2>1. /\ UNCHANGED <<saved, results, memory>> /\ place' \in {"profiles", "profiling"}
        /\ place \in {"schedule", "profiles"}
        /\ place = "schedule" => Range(Schedule) \subseteq Done(memory.runs)
    BY <1>9 DEF BeginProfiles, ConnectProfile, AllDone
  <2>2. New'
    BY <2>1 DEF New, Measuring
  <2>3. AblationInSession'
    BY <1>1, <1>2, <2>1, <2>2 DEF AblationBooks, AblationInSession, Knows, Measuring
  <2> QED
    BY <1>2, <2>1, <2>3, AblationGoesOn
<1>10. CASE ProfileVariantPage
  <2>1. /\ UNCHANGED <<saved, results>> /\ place \in {"profiling", "explaining"}
        /\ place' \in {"profiling", "explaining", "finally"}
        /\ memory'.runs = memory.runs /\ memory'.profiled = memory.profiled
        /\ memory'.active = memory.active
    BY <1>10 DEF ProfileVariantPage, ProfilePage, ExplainPage, Compared, Shape, Blank
  <2>2. New'
    BY <2>1 DEF New, Measuring
  <2>3. AblationInSession'
    BY <1>1, <1>2, <2>1, <2>2 DEF AblationBooks, AblationInSession, Knows, Measuring
  <2> QED
    BY <1>2, <2>1, <2>3, AblationGoesOn
<1>11. CASE EndVariantProfile
  <2>1. UNCHANGED <<results, memory>> /\ place = "profiling" /\ place' = "profiles"
    BY <1>11 DEF EndVariantProfile
  <2>2. saved'["ablation"] = memory /\ AblationOnly
    BY <1>2, <1>11, <2>1 DEF EndVariantProfile, Shape, Experiments, AblationOnly
  <2>3. New'
    BY <2>1 DEF New, Measuring
  <2>4. AblationInSession'
    BY <1>1, <1>2, <2>1, <2>2, <2>3 DEF AblationBooks, AblationInSession, Knows, Measuring
  <2>5. memory.profiled => Range(Schedule) \subseteq Done(results["ablation"])
    BY <1>1 DEF Done
  <2> QED
    BY <1>1, <1>2, <2>1, <2>2, <2>4, <2>5, AblationNotes
<1>12. CASE FinishAblation
  <2>1. /\ UNCHANGED <<saved, results>> /\ place = "profiles" /\ place' = "finally"
        /\ memory'.runs = memory.runs /\ memory'.active = memory.active
    BY <1>12 DEF FinishAblation, Shape, Blank
  <2>2. New'
    BY <2>1 DEF New, Measuring
  <2>3. AblationInSession'
    BY <1>1, <1>2, <2>1, <2>2 DEF AblationBooks, AblationInSession, Knows, Measuring
  <2> QED
    BY <1>2, <2>1, <2>3, AblationGoesOn
<1> QED
  BY <1>3, <1>4, <1>5, <1>6, <1>7, <1>8, <1>9, <1>10, <1>11, <1>12

LEMMA AblationBooksStep ==
    ASSUME Ledger, AblationBooks, AblationNext PROVE AblationKept
<1>1. CASE \/ CheckDatasets \/ Stop \/ ConnectVariant \/ NoteActive \/ StartAblationLoad
           \/ FinishLoad("ablation") \/ NoteAblationRun \/ BeginProfiles \/ ConnectProfile
           \/ ProfileVariantPage \/ EndVariantProfile \/ FinishAblation
  <2>1. script = "ablation"
    BY <1>1 DEF CheckDatasets, Stop, ConnectVariant, NoteActive, StartAblationLoad,
                StartComparedLoad, StartLoad, FinishLoad, NoteAblationRun, BeginProfiles,
                ConnectProfile, ProfileVariantPage, ProfilePage, ExplainPage,
                EndVariantProfile, FinishAblation, At
  <2> QED
    BY <1>1, <2>1, AblatingKept
<1> QED
  BY <1>1, BeginAblationKept, RestoreAblationKept DEF AblationNext
-----------------------------------------------------------------------------
Books == BaselineBooks /\ OptimizedBooks /\ AblationBooks

BooksKept ==
    /\ Books'
    /\ \A e \in Experiments : Keeps(e)
    /\ OptimizedCompletes /\ AblationCompletes

(* The books of a script whose session does not run are left alone.        *)
LEMMA BaselineElsewhere ==
    ASSUME BaselineBooks, script' # "baseline", saved'["baseline"] = saved["baseline"]
    PROVE  BaselineBooks' /\ Keeps("baseline")
  BY DEF BaselineBooks, Keeps, OnePerItem

LEMMA OptimizedElsewhere ==
    ASSUME OptimizedBooks, script' \notin {"controls", "optimized"},
           saved'["optimized"] = saved["optimized"],
           results'["optimized"] = results["optimized"],
           results'["controls"] = results["controls"]
    PROVE  OptimizedBooks' /\ Keeps("optimized") /\ OptimizedCompletes
  BY DEF OptimizedBooks, OptimizedResults, EitherSession, ControlsSession,
         OptimizedInSession, Keeps, OptimizedCompletes, OnePerItem

LEMMA AblationElsewhere ==
    ASSUME AblationBooks, script' # "ablation",
           saved'["ablation"] = saved["ablation"],
           results'["ablation"] = results["ablation"]
    PROVE  AblationBooks' /\ Keeps("ablation") /\ AblationCompletes
  BY DEF AblationBooks, AblationResults, AblationInSession, Keeps, AblationCompletes,
         OnePerItem, Done

LEMMA InitBooks == ASSUME Init PROVE Books
<1>1. /\ script = "none"
      /\ \A e \in Experiments : saved[e] = Blank
      /\ \A e \in Experiments \cup {"controls"} : results[e] = {}
  BY DEF Init
<1>2. /\ saved["baseline"] = Blank /\ saved["optimized"] = Blank /\ saved["ablation"] = Blank
      /\ results["optimized"] = {} /\ results["controls"] = {} /\ results["ablation"] = {}
  BY <1>1 DEF Experiments
<1>3. BaselineBooks
  BY <1>1, <1>2 DEF BaselineBooks, Blank, OnePerItem
<1>4. OptimizedBooks
  BY <1>1, <1>2 DEF OptimizedBooks, OptimizedResults, EitherSession, ControlsSession,
                    OptimizedInSession, Blank, OnePerItem
<1>5. AblationBooks
  BY <1>1, <1>2 DEF AblationBooks, AblationResults, AblationInSession, Blank, OnePerItem
<1> QED
  BY <1>3, <1>4, <1>5 DEF Books

(* No session goes on: it is over, or none ran.                            *)
LEMMA NoSessionBooks ==
    ASSUME Books, script' = "none", saved' = saved, results' = results
    PROVE  BooksKept
  BY BaselineElsewhere, OptimizedElsewhere, AblationElsewhere
     DEF Books, BooksKept, Experiments

(* What the books speak of stays as it is.                                 *)
LEMMA SameBooks ==
    ASSUME Books, UNCHANGED <<script, place, memory, work, saved, results, app>>
    PROVE  BooksKept
<1>1. BaselineBooks'
  BY DEF Books, BaselineBooks, Knows, New, OnePerItem, Done
<1>2. OptimizedBooks'
  BY DEF Books, OptimizedBooks, OptimizedResults, EitherSession, ControlsSession,
         OptimizedInSession, CountsLeft, Knows, New, OnePerItem, Done
<1>3. AblationBooks'
  BY DEF Books, AblationBooks, AblationResults, AblationInSession, Knows, New, OnePerItem,
         Done
<1> QED
  BY <1>1, <1>2, <1>3
     DEF Books, BooksKept, Keeps, OptimizedCompletes, AblationCompletes

LEMMA RaiseBooks ==
    ASSUME Books, Raise PROVE BooksKept
<1>1. /\ place' = "finally" /\ UNCHANGED <<script, memory, work, saved, results, app>>
  BY DEF Raise, Go, stack, disk
<1>2. New'
  BY <1>1 DEF New, Measuring
<1>3. BaselineBooks'
  BY <1>1, <1>2 DEF Books, BaselineBooks, Knows, OnePerItem
<1>4. OptimizedResults' /\ EitherSession' /\ ControlsSession'
  BY <1>1, <1>2 DEF Books, OptimizedBooks, OptimizedResults, EitherSession, ControlsSession,
                    Knows, OnePerItem, Measuring
<1>5. OptimizedInSession'
  BY <1>1 DEF Books, OptimizedBooks, OptimizedInSession, CountsLeft, Measuring
<1>6. AblationBooks'
  BY <1>1, <1>2 DEF Books, AblationBooks, AblationResults, AblationInSession, Knows,
                    OnePerItem, Measuring
<1> QED
  BY <1>1, <1>3, <1>4, <1>5, <1>6
     DEF Books, OptimizedBooks, BooksKept, Keeps, OptimizedCompletes, AblationCompletes

LEMMA BooksStep == ASSUME Ledger, Books, [Next]_vars PROVE BooksKept
<1> USE DEF stack, disk, process
<1>1. CASE BaselineNext
  <2>1. BaselineBooks' /\ Keeps("baseline") /\ BaselineOnly
    BY <1>1, BaselineBooksStep DEF Ledger, Books
  <2> QED
    BY <2>1, OptimizedElsewhere, AblationElsewhere
       DEF BaselineOnly, Books, BooksKept, Experiments
<1>2. CASE OptimizedNext
  <2>1. OptimizedBooks' /\ Keeps("optimized") /\ OptimizedOnly /\ OptimizedCompletes
    BY <1>2, OptimizedBooksStep DEF Ledger, Books, OptimizedKept
  <2> QED
    BY <2>1, BaselineElsewhere, AblationElsewhere
       DEF OptimizedOnly, Books, BooksKept, Experiments
<1>3. CASE AblationNext
  <2>1. AblationBooks' /\ Keeps("ablation") /\ AblationOnly /\ AblationCompletes
    BY <1>3, AblationBooksStep DEF Books, AblationKept
  <2> QED
    BY <2>1, BaselineElsewhere, OptimizedElsewhere
       DEF AblationOnly, Books, BooksKept, Experiments
<1>4. CASE Kill \/ RestoreFails \/ Deploy
  BY <1>4, NoSessionBooks DEF Kill, RestoreFails, Deploy, Exit
<1>5. CASE Raise
  BY <1>5, RaiseBooks
<1>6. CASE ChangeRows \/ UNCHANGED vars
  BY <1>6, SameBooks DEF ChangeRows, vars
<1> QED
  BY <1>1, <1>2, <1>3, <1>4, <1>5, <1>6 DEF Next

(* What review-baseline.py, review-optimized.py and                        *)
(* review-index-ablation.py have noted stays noted, and no combination is  *)
(* ever noted with two results, whatever was killed, raised, resumed or    *)
(* reopened in between.  The argument: a session knows at least what its   *)
(* experiment.json holds, a load is begun for a combination without a      *)
(* noted run only, and what is taken from the results has been checked.    *)
THEOREM NothingNotedIsLost == Spec => NotedRunsStay
<1>1. Init => Ledger /\ Books
  BY InitLedger, InitBooks
<1>2. Ledger /\ Books /\ [Next]_vars => Ledger' /\ Books'
  BY LedgerStep, BooksStep DEF BooksKept
<1>3. Ledger /\ Books /\ [Next]_vars =>
        [\A e \in Experiments :
            /\ saved[e].runs \subseteq saved'[e].runs
            /\ saved[e].controls \subseteq saved'[e].controls
            /\ OnePerItem(saved'[e].runs)]_vars
  <2> SUFFICES ASSUME Ledger, Books, [Next]_vars, NEW e \in Experiments
               PROVE  /\ saved[e].runs \subseteq saved'[e].runs
                      /\ saved[e].controls \subseteq saved'[e].controls
                      /\ OnePerItem(saved'[e].runs)
    OBVIOUS
  <2>1. Books' /\ Keeps(e)
    BY BooksStep DEF BooksKept
  <2>2. OnePerItem(saved'[e].runs)
    BY <2>1 DEF Books, BaselineBooks, OptimizedBooks, OptimizedResults, AblationBooks,
                AblationResults, Experiments
  <2> QED
    BY <2>1, <2>2 DEF Keeps
<1> QED
  BY <1>1, <1>2, <1>3, PTL DEF Spec, NotedRunsStay

(* An experiment becomes complete only when it has earned it.  The         *)
(* argument: every result was measured with the image and the database its *)
(* experiment stands for, every noted run has a result and is sound, and   *)
(* the sizes a session has left behind are those that are done.            *)
THEOREM CompleteIsComplete == Spec => CompletionIsEarned
<1>1. Init => Ledger /\ Books
  BY InitLedger, InitBooks
<1>2. Ledger /\ Books /\ [Next]_vars => Ledger' /\ Books'
  BY LedgerStep, BooksStep DEF BooksKept
<1>3. Ledger /\ Books /\ [Next]_vars => OptimizedCompletes /\ AblationCompletes
  BY BooksStep DEF BooksKept
<1> QED
  BY <1>1, <1>2, <1>3, PTL
     DEF Spec, CompletionIsEarned, OptimizedCompletes, OptimizedEarned, AblationCompletes,
         AblationEarned
=============================================================================
