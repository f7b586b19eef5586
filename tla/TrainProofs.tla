----------------------------- MODULE TrainProofs -----------------------------
(***************************************************************************)
(* Theorems about project training, for every set of configurations, every *)
(* number of epochs and every number of failures.                          *)
(***************************************************************************)
EXTENDS TrainHistory, SequenceTheorems, TLAPS

USE DEF Epoch

(* The run every command forgets when it ends is well typed.                *)
LEMMA NoRunType == NoRun \in Run
<1>1. <<>> \in Params
  BY DEF Params
<1>2. FreshOptimizer \in OptimizerState
  BY <1>1 DEF FreshOptimizer, OptimizerState, Reasons
<1>3. 0 \in Epoch
  BY ConfigAssumption
<1> QED
  BY <1>1, <1>2, <1>3 DEF NoRun, Run, Reasons

(* The initial state: no file and no command.                               *)
LEMMA InitIInv == Init => IInv
<1> SUFFICES ASSUME Init PROVE IInv
  OBVIOUS
<1> USE DEF Init
<1>1. TypeOK
  <2>1. world \in [1 .. MaxEpoch -> Outcome \cup {Absent}]
    BY DEF NoOutcomes
  <2>2. faults \in 0 .. MaxFaults
    BY ConfigAssumption
  <2> QED
    BY NoRunType, <2>1, <2>2 DEF TypeOK
<1>2. KnownRun
  BY DEF KnownRun, KnownEpoch, KnownBest, NoRun
<1>3. RunShape /\ LedgerOrder
  BY DEF RunShape, LedgerOrder
<1>4. FilesInv
  BY DEF FilesInv, KnownFiles, OneProvenance
<1> QED
  BY <1>1, <1>2, <1>3, <1>4 DEF IInv

(* A command that ends with sound files keeps the invariant.                *)
LEMMA EndStep ==
  ASSUME NEW how \in {"success", "failed", "interrupted", "crashed",
                      "rejected"},
         IInv, End(how), FilesInv', UNCHANGED <<project, world>>,
         faults' \in 0 .. MaxFaults
  PROVE  IInv'
<1>1. TypeOK'
  BY NoRunType DEF IInv, TypeOK, FilesInv, End
<1>2. KnownRun'
  BY DEF KnownRun, KnownEpoch, KnownBest, End, NoRun
<1>3. (RunShape /\ LedgerOrder)'
  BY DEF RunShape, LedgerOrder, End
<1> QED
  BY <1>1, <1>2, <1>3 DEF IInv

(* The files stay sound when no action touches them.                        *)
LEMMA FilesKept ==
  ASSUME IInv, UNCHANGED <<weights, checkpoint, world>>
  PROVE  FilesInv'
  BY DEF IInv, FilesInv, KnownFiles, KnownEpoch, KnownBest, OneProvenance

LEMMA FaultCount == IInv /\ Fault => faults' \in 0 .. MaxFaults
  BY ConfigAssumption DEF IInv, TypeOK, Fault

-----------------------------------------------------------------------------
(* Starting a command.                                                      *)

LEMMA FreshStep == IInv /\ StartFresh => IInv'
<1> SUFFICES ASSUME IInv, StartFresh PROVE IInv'
  OBVIOUS
<1> USE DEF StartFresh, Begin, FreshAccepted
<1>a. project \in Config
  BY ConfigAssumption DEF IInv, TypeOK
<1>b. /\ run' \in Run
      /\ run'.epoch = 0 /\ run'.target = project.epochs
      /\ run'.config = project /\ run'.best = Absent
      /\ run'.optimizer = FreshOptimizer
  <2>1. FreshOptimizer \in OptimizerState /\ <<>> \in Params /\ 0 \in Epoch
    BY NoRunType DEF NoRun, Run
  <2>2. project.epochs \in Epoch
    BY <1>a, ConfigAssumption DEF Config
  <2>3. project \in Configs
    BY DEF IInv, TypeOK
  <2> QED
    BY <2>1, <2>2, <2>3 DEF NoRun, Run, Reasons
<1>1. TypeOK'
  <2>1. world' \in [1 .. MaxEpoch -> Outcome \cup {Absent}]
    BY DEF NoOutcomes
  <2>2. UNCHANGED <<weights, checkpoint, project, faults>>
    OBVIOUS
  <2>3. pc' = "train" /\ stop' = FALSE /\ result' = "none"
    OBVIOUS
  <2> QED
    BY <1>b, <2>1, <2>2, <2>3 DEF IInv, TypeOK
<1>2. KnownRun'
  BY <1>b DEF KnownRun, KnownEpoch, KnownBest
<1>3. FilesInv'
  BY DEF FilesInv, KnownFiles, OneProvenance
<1>4. (RunShape /\ LedgerOrder)'
  BY <1>a, <1>b DEF IInv, TypeOK, RunShape, LedgerOrder, Config,
                    FreshOptimizer
<1> QED
  BY <1>1, <1>2, <1>3, <1>4 DEF IInv

LEMMA AdditionalStep ==
  ASSUME NEW n \in Additional, IInv, StartAdditional(n)
  PROVE  IInv'
<1> USE DEF StartAdditional, Begin, AdditionalAccepted, AdditionalBaseline
<1>a. n \in Nat \ {0} /\ MaxEpoch \in Nat
  BY ConfigAssumption
<1>b. weights \in Weights /\ weights.completed \in Epoch
  BY DEF IInv, TypeOK, Weights
<1>c. weights.completed + n \in Epoch /\ weights.completed + n # 0
  BY <1>a, <1>b
<1>d. world[weights.selected] \in Outcome /\ weights.selected # 0
  BY <1>b DEF IInv, TypeOK, FilesInv, KnownFiles, KnownEpoch, Weights
<1>e. world[weights.selected].loss \in Nat
  BY <1>d, ConfigAssumption DEF Outcome
<1>f. /\ run'.epoch = weights.completed
      /\ run'.target = weights.completed + n
      /\ run'.config = project
      /\ run'.optimizer = FreshOptimizer
  BY DEF NoRun
<1>g. run'.best \in BestModel \cup {Absent}
  <2>1. weights.params \in Params /\ weights.selected \in Epoch
    BY <1>b DEF Weights
  <2> QED
    BY <1>e, <2>1 DEF BestModel, NoRun
<1>h. run'.best # Absent => run'.best.epoch = weights.selected
  BY DEF NoRun
<1>i. EarlyStopping(project) => run'.best # Absent
  BY <1>e, <1>b, AbsentAssumption DEF NoRun, BestModel, Weights
<1>1. TypeOK'
  <2>1. run' \in Run
    <3>1. weights.params \in Params /\ project \in Configs
      BY <1>b DEF IInv, TypeOK, Weights
    <3>2. FreshOptimizer \in OptimizerState
      BY NoRunType DEF NoRun, Run
    <3> QED
      BY <1>b, <1>c, <1>g, <3>1, <3>2 DEF NoRun, Run, Reasons
  <2> QED
    BY <2>1 DEF IInv, TypeOK
<1>2. KnownRun'
  BY <1>d, <1>f, <1>h, AbsentAssumption
  DEF KnownRun, KnownEpoch, KnownBest, IInv, FilesInv, KnownFiles
<1>3. FilesInv'
  BY FilesKept
<1>4. RunShape'
  BY <1>b, <1>c, <1>a, <1>f, <1>i DEF IInv, TypeOK, RunShape, FreshOptimizer
<1>5. LedgerOrder'
  BY <1>b, <1>f DEF LedgerOrder
<1> QED
  BY <1>1, <1>2, <1>3, <1>4, <1>5 DEF IInv

LEMMA ResumeStep == IInv /\ StartResume => IInv'
<1> SUFFICES ASSUME IInv, StartResume PROVE IInv'
  OBVIOUS
<1> USE DEF StartResume, Begin
<1>a. ResumeLoads
  BY DEF ResumeEarly, ResumePlain
<1>b. /\ checkpoint \in Checkpoint
      /\ checkpoint.digest = project /\ project \in Configs
      /\ weights # Absent => weights.digest = project
  BY <1>a DEF ResumeLoads, IInv, TypeOK
<1>c. weights # Absent => weights.completed <= checkpoint.completed
  BY <1>a DEF ResumeEarly, ResumePlain
<1>d. /\ checkpoint.completed \in Epoch /\ checkpoint.target \in Epoch
      /\ checkpoint.params \in Params
      /\ checkpoint.optimizer \in OptimizerState
      /\ checkpoint.best \in BestModel \cup {Absent}
  BY <1>b DEF Checkpoint
<1>e. checkpoint.completed \in 1 .. checkpoint.target
  BY <1>a DEF ResumeLoads, IInv, FilesInv
<1>f. /\ run'.epoch = checkpoint.completed
      /\ run'.target = checkpoint.target
      /\ run'.config = project
      /\ run'.optimizer = checkpoint.optimizer
      /\ run'.best = checkpoint.best
  BY DEF NoRun
<1>1. TypeOK'
  <2>1. run' \in Run
    BY <1>b, <1>d DEF NoRun, Run, Reasons
  <2> QED
    BY <2>1 DEF IInv, TypeOK
<1>2. KnownRun'
  BY <1>a, <1>f
  DEF KnownRun, KnownEpoch, KnownBest, IInv, FilesInv, KnownFiles, ResumeLoads
<1>3. FilesInv'
  BY FilesKept
<1>4. RunShape'
  BY <1>a, <1>b, <1>d, <1>e, <1>f, ConfigAssumption
  DEF IInv, FilesInv, KnownFiles, RunShape, ResumeLoads
<1>5. LedgerOrder'
  BY <1>a, <1>b, <1>c, <1>d, <1>f, ConfigAssumption DEF LedgerOrder, ResumeLoads
<1> QED
  BY <1>1, <1>2, <1>3, <1>4, <1>5 DEF IInv

LEMMA ReconcileStep == IInv /\ StartReconcile => IInv'
<1> SUFFICES ASSUME IInv, StartReconcile PROVE IInv'
  OBVIOUS
<1> USE DEF StartReconcile, Begin, ResumeFinalized
<1>a. /\ checkpoint \in Checkpoint /\ weights \in Weights
      /\ project \in Configs
  BY DEF ResumeLoads, IInv, TypeOK
<1>b. /\ weights.completed \in Epoch /\ weights.params \in Params
      /\ checkpoint.completed \in Epoch /\ checkpoint.target \in Epoch
  BY <1>a DEF Weights, Checkpoint
<1>c. checkpoint.completed \in 1 .. checkpoint.target
  BY DEF ResumeLoads, IInv, FilesInv
<1>d. /\ run'.epoch = weights.completed
      /\ run'.target = weights.completed
      /\ run'.config = project
      /\ run'.best = Absent
  BY DEF NoRun
<1>1. TypeOK'
  <2>1. run' \in Run
    <3>1. FreshOptimizer \in OptimizerState
      BY NoRunType DEF NoRun, Run
    <3> QED
      BY <1>a, <1>b, <3>1 DEF NoRun, Run, Reasons
  <2> QED
    BY <2>1 DEF IInv, TypeOK
<1>2. KnownRun'
  BY <1>d DEF KnownRun, KnownEpoch, KnownBest, IInv, FilesInv, KnownFiles
<1>3. FilesInv'
  BY FilesKept
<1>4. (RunShape /\ LedgerOrder)'
  BY <1>a, <1>b, <1>c, <1>d, ConfigAssumption DEF RunShape, LedgerOrder
<1> QED
  BY <1>1, <1>2, <1>3, <1>4 DEF IInv

-----------------------------------------------------------------------------
(* The epoch loop.                                                          *)

(* Leaving the loop: the memory keeps everything but the reason.            *)
LEMMA FinishStep ==
  ASSUME NEW why \in Reasons \cup {"target", "early_stopping"},
         IInv, Finish(why), run.epoch # 0, pc \in {"train", "notify"},
         UNCHANGED <<weights, checkpoint, project, world, stop, result,
                     faults>>
  PROVE  IInv'
<1> USE DEF Finish
<1>a. run \in Run
  BY DEF IInv, TypeOK
<1>b. /\ run' \in Run
      /\ run'.epoch = run.epoch /\ run'.target = run.target
      /\ run'.config = run.config /\ run'.best = run.best
  BY <1>a DEF Run
<1>1. TypeOK'
  BY <1>b DEF IInv, TypeOK
<1>2. KnownRun'
  BY <1>b DEF IInv, KnownRun, KnownEpoch, KnownBest
<1>3. FilesInv'
  BY FilesKept
<1>4. RunShape'
  BY <1>b DEF IInv, RunShape
<1>5. LedgerOrder'
  BY <1>b DEF IInv, LedgerOrder
<1> QED
  BY <1>1, <1>2, <1>3, <1>4, <1>5 DEF IInv

LEMMA EvaluateStep == IInv /\ EvaluateOnly => IInv'
<1> SUFFICES ASSUME IInv, EvaluateOnly PROVE IInv'
  OBVIOUS
<1>1. run.optimizer.reason \in Reasons
  BY DEF IInv, TypeOK, Run, OptimizerState
<1>2. run.epoch # 0
  BY DEF IInv, RunShape, EvaluateOnly
<1> QED
  BY <1>1, <1>2, FinishStep DEF EvaluateOnly

LEMMA ReportStep == IInv /\ ReportEpoch => IInv'
<1> SUFFICES ASSUME IInv, ReportEpoch PROVE IInv'
  OBVIOUS
<1>1. /\ pc = "notify"
      /\ UNCHANGED <<weights, checkpoint, project, world, faults>>
  BY DEF ReportEpoch
<1>2. run.optimizer.reason \in Reasons /\ run.epoch # 0
  BY <1>1 DEF IInv, TypeOK, Run, OptimizerState, RunShape
<1>3. CASE End("interrupted")
  <2>1. faults' \in 0 .. MaxFaults
    BY <1>1 DEF IInv, TypeOK
  <2> QED
    BY <1>1, <1>3, <2>1, EndStep, FilesKept
<1>4. CASE /\ UNCHANGED <<stop, result>>
           /\ \E why \in Reasons \cup {"target", "early_stopping"} :
                Finish(why)
  BY <1>1, <1>2, <1>4, FinishStep
<1>5. CASE /\ pc' = "train" /\ UNCHANGED <<run, stop, result>>
           /\ run.epoch # run.target /\ run.optimizer.reason = "none"
  <2>1. TypeOK'
    BY <1>1, <1>5 DEF IInv, TypeOK
  <2>2. KnownRun'
    BY <1>1, <1>5 DEF IInv, KnownRun, KnownEpoch, KnownBest
  <2>3. FilesInv'
    BY <1>1, FilesKept
  <2>4. (RunShape /\ LedgerOrder)'
    BY <1>1, <1>5 DEF IInv, RunShape, LedgerOrder
  <2> QED
    BY <2>1, <2>2, <2>3, <2>4 DEF IInv
<1> QED
  BY <1>2, <1>3, <1>4, <1>5 DEF ReportEpoch

LEMMA TrainStep == IInv /\ TrainEpoch => IInv'
<1> SUFFICES ASSUME IInv, TrainEpoch PROVE IInv'
  OBVIOUS
<1> DEFINE e == run.epoch + 1
<1>a. /\ run \in Run /\ run.epoch \in Epoch /\ run.target \in Epoch
      /\ run.model \in Params /\ run.optimizer \in OptimizerState
      /\ run.best \in BestModel \cup {Absent}
  BY DEF IInv, TypeOK, Run
<1>b. e \in 1 .. MaxEpoch /\ e <= run.target /\ MaxEpoch \in Nat
  BY <1>a, ConfigAssumption DEF TrainEpoch
<1>c. PICK o \in IF world[e] = Absent THEN Outcomes(run.config)
                 ELSE {world[e]} :
        /\ world' = [world EXCEPT ![e] = o]
        /\ run' = [run EXCEPT
                     !.epoch = e,
                     !.model = Append(@, e),
                     !.optimizer = [seen |-> Append(@.seen, e),
                                    reason |-> o.verdict]]
  BY DEF TrainEpoch
<1>d. o \in Outcome
  <2>1. world[e] \in Outcome \cup {Absent}
    BY <1>b DEF IInv, TypeOK
  <2> QED
    BY <1>c, <2>1 DEF Outcomes
<1>e. o # Absent
  BY <1>d, AbsentAssumption
<1>f. /\ world' \in [1 .. MaxEpoch -> Outcome \cup {Absent}]
      /\ world'[e] # Absent
      /\ \A x \in 1 .. MaxEpoch : world[x] # Absent => world'[x] # Absent
  BY <1>b, <1>c, <1>d, <1>e DEF IInv, TypeOK
<1>g. /\ run'.epoch = e /\ run'.target = run.target
      /\ run'.config = run.config /\ run'.best = run.best
  BY <1>a, <1>c DEF Run
<1>h. /\ pc = "train" /\ pc' = "observe"
      /\ UNCHANGED <<weights, checkpoint, project, stop, result, faults>>
  BY DEF TrainEpoch
<1>1. TypeOK'
  <2>1. Append(run.model, e) \in Params
    BY <1>a, <1>b DEF Params
  <2>2. [seen |-> Append(run.optimizer.seen, e), reason |-> o.verdict]
          \in OptimizerState
    BY <1>a, <1>b, <1>d DEF OptimizerState, Params, Outcome
  <2>3. e \in Epoch
    BY <1>b
  <2>4. run' \in Run
    BY <1>a, <1>c, <2>1, <2>2, <2>3 DEF Run
  <2> QED
    BY <1>f, <1>h, <2>4 DEF IInv, TypeOK
<1>2. KnownRun'
  <2>1. run.best # Absent => run.best.epoch \in Epoch
    BY <1>a DEF BestModel
  <2> QED
    BY <1>b, <1>f, <1>g, <2>1 DEF IInv, KnownRun, KnownEpoch, KnownBest
<1>3. FilesInv'
  <2>1. weights # Absent =>
          weights.selected \in Epoch /\ weights.completed \in Epoch
    BY DEF IInv, TypeOK, Weights
  <2>2. checkpoint # Absent =>
          /\ checkpoint.completed \in Epoch
          /\ checkpoint.best # Absent => checkpoint.best.epoch \in Epoch
    BY DEF IInv, TypeOK, Checkpoint, BestModel
  <2>3. KnownFiles'
    BY <1>b, <1>f, <1>h, <2>1, <2>2
    DEF IInv, FilesInv, KnownFiles, KnownEpoch, KnownBest
  <2> QED
    BY <1>h, <2>3 DEF IInv, FilesInv, OneProvenance
<1>4. RunShape'
  BY <1>a, <1>b, <1>g, <1>h DEF IInv, RunShape
<1>5. LedgerOrder'
  <2>1. weights # Absent => weights.completed \in Epoch
    BY DEF IInv, TypeOK, Weights
  <2>2. checkpoint # Absent => checkpoint.completed \in Epoch
    BY DEF IInv, TypeOK, Checkpoint
  <2> QED
    BY <1>a, <1>b, <1>g, <1>h, <2>1, <2>2, ConfigAssumption
    DEF IInv, LedgerOrder
<1> QED
  BY <1>1, <1>2, <1>3, <1>4, <1>5 DEF IInv

LEMMA ObservePlainStep == IInv /\ ObservePlain => IInv'
<1> SUFFICES ASSUME IInv, ObservePlain PROVE IInv'
  OBVIOUS
<1> USE DEF ObservePlain
<1>a. run \in Run /\ run.epoch \in Epoch /\ stop \in BOOLEAN
  BY DEF IInv, TypeOK, Run
<1>b. /\ run' \in Run
      /\ run'.epoch = run.epoch /\ run'.target = run.target
      /\ run'.config = run.config /\ run'.best = run.best
  BY <1>a DEF Run
<1>c. pc' \in {"save", "notify"}
  OBVIOUS
<1>1. TypeOK'
  BY <1>b, <1>c DEF IInv, TypeOK
<1>2. KnownRun'
  BY <1>b DEF IInv, KnownRun, KnownEpoch, KnownBest
<1>3. FilesInv'
  BY FilesKept
<1>4. RunShape'
  BY <1>b, <1>c DEF IInv, RunShape, EarlyStopping
<1>5. LedgerOrder'
  BY <1>b, <1>c DEF IInv, LedgerOrder
<1> QED
  BY <1>1, <1>2, <1>3, <1>4, <1>5 DEF IInv

(* The selected model always is a known one.                                *)
LEMMA SelectedKnown ==
  ASSUME IInv, pc = "observe"
  PROVE  /\ Selected \in BestModel
         /\ Selected.epoch # 0 /\ world[Selected.epoch] # Absent
<1>a. /\ run \in Run /\ run.epoch \in 1 .. MaxEpoch
      /\ run.model \in Params /\ run.epoch \in Epoch
      /\ run.best \in BestModel \cup {Absent}
  BY DEF IInv, TypeOK, Run, RunShape
<1>b. world[run.epoch] \in Outcome /\ world[run.epoch] # Absent
  BY <1>a DEF IInv, TypeOK, KnownRun, KnownEpoch
<1>c. world[run.epoch].loss \in Nat
  BY <1>b, ConfigAssumption DEF Outcome
<1>1. CASE run.best = Absent
  BY <1>1, <1>a, <1>b, <1>c DEF Selected, BestModel
<1>2. CASE run.best # Absent
  <2>1. /\ run.best \in BestModel /\ run.best.stale + 1 \in Nat
        /\ run.best.epoch # 0 /\ world[run.best.epoch] # Absent
    BY <1>2, <1>a DEF BestModel, IInv, KnownRun, KnownBest, KnownEpoch
  <2>2. [run.best EXCEPT !.stale = @ + 1] \in BestModel
    BY <2>1 DEF BestModel
  <2>3. [run.best EXCEPT !.stale = @ + 1].epoch = run.best.epoch
    BY <2>1 DEF BestModel
  <2>4. [params |-> run.model, epoch |-> run.epoch,
         loss |-> world[run.epoch].loss, stale |-> 0] \in BestModel
    BY <1>a, <1>c DEF BestModel
  <2> QED
    BY <1>a, <1>b, <2>1, <2>2, <2>3, <2>4 DEF Selected
<1> QED
  BY <1>1, <1>2

LEMMA ObserveEarlyStep == IInv /\ ObserveEarly => IInv'
<1> SUFFICES ASSUME IInv, ObserveEarly PROVE IInv'
  OBVIOUS
<1> USE DEF ObserveEarly
<1>a. run \in Run /\ run.epoch \in Epoch /\ stop \in BOOLEAN
  BY DEF IInv, TypeOK, Run
<1>b. /\ Selected \in BestModel
      /\ Selected.epoch # 0 /\ world[Selected.epoch] # Absent
  BY SelectedKnown
<1>c. /\ run' \in Run
      /\ run'.epoch = run.epoch /\ run'.target = run.target
      /\ run'.config = run.config /\ run'.best = Selected
  BY <1>a, <1>b DEF Run
<1>d. Selected # Absent
  BY <1>b, AbsentAssumption
<1>e. pc' \in {"save", "notify"}
  OBVIOUS
<1>1. TypeOK'
  BY <1>c, <1>e DEF IInv, TypeOK
<1>2. KnownRun'
  BY <1>b, <1>c DEF IInv, KnownRun, KnownEpoch, KnownBest
<1>3. FilesInv'
  BY FilesKept
<1>4. RunShape'
  BY <1>c, <1>d, <1>e DEF IInv, RunShape
<1>5. LedgerOrder'
  BY <1>c, <1>e DEF IInv, LedgerOrder
<1> QED
  BY <1>1, <1>2, <1>3, <1>4, <1>5 DEF IInv

-----------------------------------------------------------------------------
(* Writing the files.                                                       *)

(* The checkpoint of the running command is sound and ahead of both files.  *)
LEMMA CheckpointSound ==
  ASSUME IInv, pc = "save", checkpoint' = CheckpointOfRun,
         UNCHANGED <<weights, world>>
  PROVE  FilesInv' /\ checkpoint' # Absent
<1>a. /\ run \in Run /\ run.config \in Configs
      /\ run.epoch \in Epoch /\ run.target \in Epoch
      /\ run.epoch # 0 /\ run.epoch <= run.target
  BY DEF IInv, TypeOK, Run, RunShape
<1>b. checkpoint' \in Checkpoint
  BY <1>a DEF CheckpointOfRun, Checkpoint, Run
<1>c. checkpoint' # Absent
  BY <1>b, AbsentAssumption
<1>d. /\ checkpoint'.completed = run.epoch /\ checkpoint'.target = run.target
      /\ checkpoint'.best = run.best /\ checkpoint'.digest = run.config
  BY DEF CheckpointOfRun
<1>1. KnownFiles'
  BY <1>d DEF IInv, FilesInv, KnownFiles, KnownRun, KnownEpoch, KnownBest,
              RunShape, EarlyStopping
<1>2. checkpoint'.completed \in 1 .. checkpoint'.target
  BY <1>a, <1>d, ConfigAssumption
<1>3. OneProvenance'
  BY <1>d DEF IInv, LedgerOrder, OneProvenance
<1> QED
  BY <1>b, <1>c, <1>1, <1>2, <1>3 DEF IInv, FilesInv

LEMMA SaveStep == IInv /\ SaveCheckpoint => IInv'
<1> SUFFICES ASSUME IInv, SaveCheckpoint PROVE IInv'
  OBVIOUS
<1>a. /\ pc = "save" /\ checkpoint' = CheckpointOfRun
      /\ UNCHANGED <<weights, project, world, faults>>
  BY DEF SaveCheckpoint
<1>b. FilesInv' /\ checkpoint' # Absent
  BY <1>a, CheckpointSound
<1>1. CASE End("interrupted")
  <2>1. faults' \in 0 .. MaxFaults
    BY <1>a DEF IInv, TypeOK
  <2> QED
    BY <1>a, <1>b, <1>1, <2>1, EndStep
<1>2. CASE pc' = "notify" /\ UNCHANGED <<run, stop, result>>
  <2>1. TypeOK'
    BY <1>a, <1>b, <1>2 DEF IInv, TypeOK, FilesInv
  <2>2. KnownRun'
    BY <1>a, <1>2 DEF IInv, KnownRun, KnownEpoch, KnownBest
  <2>3. RunShape'
    BY <1>a, <1>2 DEF IInv, RunShape
  <2>4. run.epoch \in Epoch /\ run.target \in Epoch
    BY DEF IInv, TypeOK, Run
  <2>5. weights # Absent => weights.completed \in Epoch
    BY DEF IInv, TypeOK, Weights
  <2>6. LedgerOrder'
    BY <1>a, <1>2, <2>4, <2>5, ConfigAssumption
    DEF IInv, LedgerOrder, CheckpointOfRun
  <2> QED
    BY <1>b, <2>1, <2>2, <2>3, <2>6 DEF IInv
<1> QED
  BY <1>1, <1>2 DEF SaveCheckpoint

LEMMA SaveFailsStep == IInv /\ SaveCheckpointFails => IInv'
<1> SUFFICES ASSUME IInv, SaveCheckpointFails PROVE IInv'
  OBVIOUS
<1> USE DEF SaveCheckpointFails
<1>1. FilesInv'
  BY CheckpointSound, FilesKept
<1> QED
  BY <1>1, FaultCount, EndStep

(* The weights of the running command are sound and cover the checkpoint.   *)
LEMMA WeightsSound ==
  ASSUME IInv, pc = "finalize", weights' = WeightsOfRun,
         UNCHANGED <<checkpoint, world>>
  PROVE  /\ FilesInv' /\ weights' # Absent
         /\ weights'.completed = run.epoch
<1>a. /\ run \in Run /\ run.config \in Configs
      /\ run.epoch \in Epoch /\ run.target \in Epoch /\ run.epoch # 0
  BY DEF IInv, TypeOK, Run, RunShape
<1>b. EarlyStopping(run.config) =>
        /\ run.best \in BestModel
        /\ run.best.epoch \in Epoch /\ run.best.params \in Params
        /\ run.best.epoch # 0 /\ world[run.best.epoch] # Absent
  BY <1>a DEF IInv, TypeOK, Run, RunShape, BestModel, KnownRun, KnownBest,
              KnownEpoch
<1>c. weights' \in Weights
  BY <1>a, <1>b DEF WeightsOfRun, Weights, Run
<1>d. /\ weights'.completed = run.epoch /\ weights'.digest = run.config
      /\ weights'.selected \in {run.epoch, run.best.epoch}
      /\ weights'.selected = run.best.epoch => 
            EarlyStopping(run.config) \/ run.best.epoch = run.epoch
  BY DEF WeightsOfRun
<1>e. weights' # Absent
  BY <1>c, AbsentAssumption
<1>1. KnownFiles'
  BY <1>a, <1>b, <1>d
  DEF IInv, FilesInv, KnownFiles, KnownRun, KnownEpoch, KnownBest
<1>2. OneProvenance'
  BY <1>d DEF IInv, LedgerOrder, OneProvenance
<1> QED
  BY <1>c, <1>d, <1>e, <1>1, <1>2 DEF IInv, FilesInv

LEMMA PublishStep == IInv /\ PublishWeights => IInv'
<1> SUFFICES ASSUME IInv, PublishWeights PROVE IInv'
  OBVIOUS
<1> USE DEF PublishWeights
<1>a. FilesInv' /\ weights' # Absent /\ weights'.completed = run.epoch
  BY WeightsSound
<1>1. TypeOK'
  BY <1>a DEF IInv, TypeOK, FilesInv
<1>2. KnownRun'
  BY DEF IInv, KnownRun, KnownEpoch, KnownBest
<1>3. RunShape'
  BY DEF IInv, RunShape
<1>4. LedgerOrder'
  BY <1>a DEF IInv, LedgerOrder
<1> QED
  BY <1>a, <1>1, <1>2, <1>3, <1>4 DEF IInv

LEMMA PublishEndsStep == IInv /\ (PublishRefused \/ PublishFails) => IInv'
<1> SUFFICES ASSUME IInv, PublishRefused \/ PublishFails PROVE IInv'
  OBVIOUS
<1>1. CASE PublishRefused
  <2>1. faults' \in 0 .. MaxFaults
    BY <1>1 DEF IInv, TypeOK, PublishRefused
  <2> QED
    BY <1>1, <2>1, FilesKept, EndStep DEF PublishRefused
<1>2. CASE PublishFails
  <2>1. FilesInv'
    BY <1>2, WeightsSound, FilesKept DEF PublishFails
  <2> QED
    BY <1>2, <2>1, FaultCount, EndStep DEF PublishFails
<1> QED
  BY <1>1, <1>2

(* Without its checkpoint the directory is still sound.                     *)
LEMMA RemovalSound ==
  ASSUME IInv, checkpoint' = Absent, UNCHANGED <<weights, world>>
  PROVE  FilesInv'
  BY DEF IInv, FilesInv, KnownFiles, KnownEpoch, OneProvenance

LEMMA RemoveStep == IInv /\ (RemoveCheckpoint \/ RemoveCheckpointFails) => IInv'
<1> SUFFICES ASSUME IInv, RemoveCheckpoint \/ RemoveCheckpointFails
             PROVE  IInv'
  OBVIOUS
<1>1. CASE RemoveCheckpoint
  <2>1. faults' \in 0 .. MaxFaults
    BY <1>1 DEF IInv, TypeOK, RemoveCheckpoint
  <2> QED
    BY <1>1, <2>1, RemovalSound, EndStep DEF RemoveCheckpoint
<1>2. CASE RemoveCheckpointFails
  <2>1. FilesInv'
    BY <1>2, RemovalSound, FilesKept DEF RemoveCheckpointFails
  <2> QED
    BY <1>2, <2>1, FaultCount, EndStep DEF RemoveCheckpointFails
<1> QED
  BY <1>1, <1>2

(* Failures, signals and edits leave the files alone.                       *)
LEMMA EnvironmentStep ==
  IInv /\ (EpochFails \/ Crash \/ Signal \/ EditProject) => IInv'
<1> SUFFICES ASSUME IInv, EpochFails \/ Crash \/ Signal \/ EditProject
             PROVE  IInv'
  OBVIOUS
<1>1. CASE EpochFails \/ Crash
  BY <1>1, FilesKept, FaultCount, EndStep DEF EpochFails, Crash
<1>2. CASE Signal \/ EditProject
  <2>1. TypeOK'
    BY <1>2 DEF IInv, TypeOK, Signal, EditProject
  <2>2. FilesInv'
    BY <1>2, FilesKept DEF Signal, EditProject
  <2>3. (KnownRun /\ RunShape /\ LedgerOrder)'
    BY <1>2 DEF IInv, KnownRun, KnownEpoch, KnownBest, RunShape, LedgerOrder,
                Signal, EditProject
  <2> QED
    BY <2>1, <2>2, <2>3 DEF IInv
<1> QED
  BY <1>1, <1>2

LEMMA StutterStep == IInv /\ UNCHANGED vars => IInv'
<1> SUFFICES ASSUME IInv, UNCHANGED vars PROVE IInv'
  OBVIOUS
<1> USE DEF vars
<1>1. TypeOK' /\ FilesInv'
  BY FilesKept DEF IInv, TypeOK
<1>2. (KnownRun /\ RunShape /\ LedgerOrder)'
  BY DEF IInv, KnownRun, KnownEpoch, KnownBest, RunShape, LedgerOrder
<1> QED
  BY <1>1, <1>2 DEF IInv

-----------------------------------------------------------------------------

(* The invariant holds in every reachable state of every project.           *)
THEOREM Invariance == Spec => []IInv
<1>1. Init => IInv
  BY InitIInv
<1>2. IInv /\ [Next]_vars => IInv'
  <2> SUFFICES ASSUME IInv, [Next]_vars PROVE IInv'
    OBVIOUS
  <2>1. CASE Start
    BY <2>1, FreshStep, ResumeStep, ReconcileStep, AdditionalStep DEF Start
  <2>2. CASE Step
    BY <2>2, EvaluateStep, TrainStep, ObservePlainStep, ObserveEarlyStep,
       SaveStep, ReportStep, PublishStep, PublishEndsStep, RemoveStep
    DEF Step
  <2>3. CASE Failure
    BY <2>3, SaveFailsStep, EnvironmentStep, PublishEndsStep, RemoveStep
    DEF Failure
  <2>4. CASE Signal \/ EditProject
    BY <2>4, EnvironmentStep
  <2>5. CASE UNCHANGED vars
    BY <2>5, StutterStep
  <2> QED
    BY <2>1, <2>2, <2>3, <2>4, <2>5 DEF Next
<1> QED
  BY <1>1, <1>2, PTL DEF Spec

(* Type correctness of the files and of the memory of every command.        *)
THEOREM TypeCorrect == Spec => []TypeOK
<1>1. IInv => TypeOK
  BY DEF IInv
<1> QED
  BY <1>1, Invariance, PTL

(* The two files of a project always stem from the same configuration.      *)
THEOREM FilesShareProvenance == Spec => []OneProvenance
<1>1. IInv => OneProvenance
  BY DEF IInv, FilesInv
<1> QED
  BY <1>1, Invariance, PTL

-----------------------------------------------------------------------------
(* The two files implement the ledger of completed epochs.                  *)

(* The abstract files exist exactly when the files do.                      *)
LEMMA AbstractFiles ==
  ASSUME IInv
  PROVE  /\ weights # Absent =>
              /\ weights.completed \in Epoch
              /\ [completed |-> weights.completed] # Absent
         /\ checkpoint # Absent =>
              /\ checkpoint.completed \in Epoch /\ checkpoint.target \in Epoch
              /\ [completed |-> checkpoint.completed,
                  target |-> checkpoint.target] # Absent
<1>1. weights # Absent => weights.completed \in Epoch
  BY DEF IInv, TypeOK, Weights
<1>2. checkpoint # Absent =>
        checkpoint.completed \in Epoch /\ checkpoint.target \in Epoch
  BY DEF IInv, TypeOK, Checkpoint
<1>3. weights # Absent =>
        [completed |-> weights.completed] \in [completed : Epoch]
  BY <1>1
<1>4. checkpoint # Absent =>
        [completed |-> checkpoint.completed, target |-> checkpoint.target]
          \in [completed : Epoch, target : Epoch]
  BY <1>2
<1> QED
  BY <1>1, <1>2, <1>3, <1>4, LedgerAssumption

(* A written checkpoint is strictly ahead of both files.                    *)
LEMMA SaveIsCheckpoint ==
  ASSUME IInv, pc = "save", checkpoint' = CheckpointOfRun, UNCHANGED weights
  PROVE  Ledger!Next
<1>a. checkpoint' # Absent
  <2>1. CheckpointOfRun \in Checkpoint
    BY DEF CheckpointOfRun, Checkpoint, IInv, TypeOK, Run, RunShape
  <2> QED
    BY <2>1, AbsentAssumption
<1>b. checkpoint'.completed = run.epoch /\ checkpoint'.target = run.target
  BY DEF CheckpointOfRun
<1>c. run.epoch \in 1 .. run.target /\ run.target \in 1 .. MaxEpoch
  BY ConfigAssumption DEF IInv, TypeOK, Run, RunShape
<1>d. checkpoint # Absent => checkpoint.target = run.target
  BY DEF IInv, LedgerOrder
<1>e. /\ weights # Absent => run.epoch > weights.completed
      /\ checkpoint # Absent => run.epoch > checkpoint.completed
  BY <1>c, AbstractFiles, ConfigAssumption DEF IInv, LedgerOrder
<1>1. Ledger!Checkpoint(run.epoch, run.target)
  BY <1>a, <1>b, <1>c, <1>d, <1>e, AbstractFiles DEF Ledger!Checkpoint
<1> QED
  BY <1>1, <1>c DEF Ledger!Next

(* Published weights grow, or repeat the weights that are there.            *)
LEMMA PublishIsPublish ==
  ASSUME IInv, pc = "finalize", weights' = WeightsOfRun,
         UNCHANGED <<checkpoint, world>>
  PROVE  Ledger!Next \/ UNCHANGED Ledger!filesVars
<1>a. weights' # Absent /\ weights'.completed = run.epoch
  BY WeightsSound
<1>b. run.epoch \in 1 .. run.target /\ run.target \in 1 .. MaxEpoch
  BY ConfigAssumption DEF IInv, TypeOK, Run, RunShape
<1>c. /\ weights # Absent => weights.completed <= run.epoch
      /\ checkpoint # Absent =>
           run.epoch \in checkpoint.completed .. checkpoint.target
  BY <1>b, AbstractFiles, ConfigAssumption DEF IInv, LedgerOrder
<1>1. CASE weights # Absent /\ weights.completed = run.epoch
  BY <1>1, <1>a DEF Ledger!filesVars
<1>2. CASE weights # Absent => weights.completed < run.epoch
  <2>1. Ledger!Publish(run.epoch)
    BY <1>2, <1>a, <1>b, <1>c, AbstractFiles DEF Ledger!Publish
  <2> QED
    BY <2>1, <1>b, ConfigAssumption DEF Ledger!Next
<1> QED
  BY <1>1, <1>2, <1>b, <1>c, AbstractFiles, ConfigAssumption

(* The checkpoint that is removed is covered by the weights.                *)
LEMMA RemovalIsDiscard ==
  ASSUME IInv, pc = "remove", checkpoint' = Absent, UNCHANGED weights
  PROVE  Ledger!Next \/ UNCHANGED Ledger!filesVars
<1>1. CASE checkpoint = Absent
  BY <1>1 DEF Ledger!filesVars
<1>2. CASE checkpoint # Absent
  <2>1. weights # Absent /\ weights.completed >= checkpoint.completed
    BY <1>2 DEF IInv, LedgerOrder
  <2>2. Ledger!Discard
    BY <1>2, <2>1, AbstractFiles DEF Ledger!Discard
  <2> QED
    BY <2>2 DEF Ledger!Next
<1> QED
  BY <1>1, <1>2

LEMMA OtherFilesKept ==
  ASSUME UNCHANGED <<weights, checkpoint>>
  PROVE  UNCHANGED Ledger!filesVars
  BY DEF Ledger!filesVars

(* Every step of a command, of the user or of the system is a ledger step   *)
(* or leaves the ledger alone.                                              *)
LEMMA LedgerStep ==
  ASSUME IInv, [Next]_vars
  PROVE  Ledger!Next \/ UNCHANGED Ledger!filesVars
<1>1. CASE Start
  BY <1>1, OtherFilesKept
  DEF Start, StartFresh, StartResume, StartReconcile, StartAdditional, Begin
<1>2. CASE SaveCheckpoint \/ SaveCheckpointFails
  BY <1>2, SaveIsCheckpoint, OtherFilesKept
  DEF SaveCheckpoint, SaveCheckpointFails
<1>3. CASE PublishWeights \/ PublishFails
  BY <1>3, PublishIsPublish, OtherFilesKept DEF PublishWeights, PublishFails
<1>4. CASE RemoveCheckpoint \/ RemoveCheckpointFails
  BY <1>4, RemovalIsDiscard, OtherFilesKept
  DEF RemoveCheckpoint, RemoveCheckpointFails
<1>5. CASE \/ EvaluateOnly \/ TrainEpoch \/ ObservePlain \/ ObserveEarly
           \/ ReportEpoch \/ PublishRefused
  BY <1>5, OtherFilesKept
  DEF EvaluateOnly, TrainEpoch, ObservePlain, ObserveEarly, ReportEpoch,
      PublishRefused
<1>6. CASE EpochFails \/ Crash \/ Signal \/ EditProject \/ UNCHANGED vars
  BY <1>6, OtherFilesKept DEF EpochFails, Crash, Signal, EditProject, vars
<1> QED
  BY <1>1, <1>2, <1>3, <1>4, <1>5, <1>6 DEF Next, Step, Failure

(* Project training implements the ledger: progress recorded on disk is     *)
(* given up only when a finalized model covers it.                          *)
THEOREM LedgerImplemented == Spec => ImplementsLedger
<1>1. Init => Ledger!Init
  BY DEF Init, Ledger!Init
<1>2. IInv /\ [Next]_vars => [Ledger!Next]_(Ledger!filesVars)
  BY LedgerStep
<1> QED
  BY <1>1, <1>2, Invariance, PTL DEF Spec, ImplementsLedger, Ledger!Spec

-----------------------------------------------------------------------------
(* What replaces the weights.                                               *)

LEMMA FinishIsOver ==
  ASSUME NEW why \in Reasons \cup {"target", "early_stopping"},
         IInv, RunIsOver, Finish(why)
  PROVE  OverAtFinalize'
<1>1. run \in Run
  BY DEF IInv, TypeOK
<1>2. /\ run'.epoch = run.epoch /\ run'.target = run.target
      /\ run'.optimizer = run.optimizer /\ run'.config = run.config
      /\ run'.best = run.best
  BY <1>1 DEF Finish, Run
<1> QED
  BY <1>2 DEF RunIsOver, OverAtFinalize, OutOfPatience, EarlyStopping

LEMMA OverStep == IInv /\ OverAtFinalize /\ [Next]_vars => OverAtFinalize'
<1> SUFFICES ASSUME IInv, OverAtFinalize, [Next]_vars PROVE OverAtFinalize'
  OBVIOUS
<1>a. run.optimizer.reason \in Reasons
  BY DEF IInv, TypeOK, Run, OptimizerState
<1>1. CASE EvaluateOnly
  BY <1>1, <1>a, FinishIsOver DEF EvaluateOnly, RunIsOver
<1>2. CASE ReportEpoch
  <2>1. CASE End("interrupted")
    BY <2>1 DEF End, OverAtFinalize
  <2>2. CASE \E why \in Reasons \cup {"target", "early_stopping"} :
               Finish(why) /\ RunIsOver
    BY <2>2, FinishIsOver
  <2>3. CASE pc' = "train"
    BY <2>3 DEF OverAtFinalize
  <2> QED
    BY <1>2, <1>a, <2>1, <2>2, <2>3 DEF ReportEpoch, RunIsOver
<1>3. CASE Signal \/ EditProject \/ UNCHANGED vars
  BY <1>3 DEF Signal, EditProject, vars, OverAtFinalize, RunIsOver,
              OutOfPatience, EarlyStopping
<1>4. CASE Start
  BY <1>4 DEF Start, StartFresh, StartResume, StartReconcile,
              StartAdditional, Begin, OverAtFinalize
<1>5. CASE Failure
  BY <1>5 DEF Failure, SaveCheckpointFails, EpochFails, PublishFails,
              RemoveCheckpointFails, Crash, End, OverAtFinalize
<1>6. CASE \/ TrainEpoch \/ ObservePlain \/ ObserveEarly \/ SaveCheckpoint
           \/ PublishWeights \/ PublishRefused \/ RemoveCheckpoint
  BY <1>6 DEF TrainEpoch, ObservePlain, ObserveEarly, SaveCheckpoint,
              PublishWeights, PublishRefused, RemoveCheckpoint, End,
              OverAtFinalize
<1> QED
  BY <1>1, <1>2, <1>3, <1>4, <1>5, <1>6 DEF Next, Step

(* Weights on disk are replaced only by the model of a run that is over,    *)
(* whatever failed, crashed or was signalled before.                        *)
THEOREM BaselineKept == Spec => BaselineKeptUntilDone
<1> DEFINE Kept == weights' # weights =>
                     weights'.completed = run.epoch /\ RunIsOver
<1>1. Init => OverAtFinalize
  BY DEF Init, OverAtFinalize
<1>2. IInv /\ OverAtFinalize /\ [Next]_vars => OverAtFinalize'
  BY OverStep
<1>3. IInv /\ OverAtFinalize /\ [Next]_vars => [Kept]_vars
  <2> SUFFICES ASSUME IInv, OverAtFinalize, Next PROVE Kept
    BY DEF vars
  <2>1. CASE PublishWeights \/ PublishFails
    <3>1. weights' # weights => weights'.completed = run.epoch
      BY <2>1, WeightsSound DEF PublishWeights, PublishFails
    <3> QED
      BY <2>1, <3>1 DEF PublishWeights, PublishFails, OverAtFinalize
  <2>2. CASE UNCHANGED weights
    BY <2>2
  <2> QED
    BY <2>1, <2>2
    DEF Next, Start, Step, Failure, StartFresh, StartResume, StartReconcile,
        StartAdditional, Begin, EvaluateOnly, TrainEpoch, ObservePlain,
        ObserveEarly, SaveCheckpoint, ReportEpoch, PublishRefused,
        RemoveCheckpoint, SaveCheckpointFails, EpochFails,
        RemoveCheckpointFails, Crash, Signal, EditProject
<1>4. Spec => [][Kept]_vars
  BY <1>1, <1>2, <1>3, Invariance, PTL DEF Spec
<1> QED
  BY <1>4 DEF BaselineKeptUntilDone

-----------------------------------------------------------------------------
(* The models, the optimizer states and the selected models of a project,   *)
(* for every set of configurations, every number of epochs and every number *)
(* of failures.                                                             *)

(* Lemmas about the epochs 1 .. n of a run.                                 *)

(* What holds of the first epochs is kept while their outcomes are.         *)
LEMMA HistoryKept ==
  ASSUME NEW h, NEW g, NEW n \in Nat, Known(h, n),
         \A e \in 1 .. n : g[e] = h[e]
  PROVE  /\ Known(g, n)
         /\ \A o : Len(o.seen) \in Nat /\ OptimizerSound(h, n, o)
                     => OptimizerSound(g, n, o)
         /\ \A c, e : BestOf(h, c, n, e) => BestOf(g, c, n, e)
         /\ \A c, b : BestSound(h, c, n, b) => BestSound(g, c, n, b)
<1>1. Known(g, n)
  BY DEF Known
<1>2. ASSUME NEW o, Len(o.seen) \in Nat, OptimizerSound(h, n, o)
      PROVE  OptimizerSound(g, n, o)
  <2>1. \A e \in n - Len(o.seen) + 1 .. n - 1 : e \in 1 .. n
    BY <1>2 DEF OptimizerSound
  <2>2. Len(o.seen) # 0 => n \in 1 .. n
    BY <1>2 DEF OptimizerSound
  <2> QED
    BY <1>2, <2>1, <2>2 DEF OptimizerSound
<1>3. ASSUME NEW c, NEW e, BestOf(h, c, n, e) PROVE BestOf(g, c, n, e)
  BY <1>3 DEF BestOf
<1>4. ASSUME NEW c, NEW b, BestSound(h, c, n, b) PROVE BestSound(g, c, n, b)
  <2>1. CASE b # Absent
    <3>1. g[b.epoch] = h[b.epoch]
      BY <1>4, <2>1 DEF BestSound, BestOf
    <3> QED
      BY <1>3, <1>4, <2>1, <3>1 DEF BestSound
  <2> QED
    BY <2>1 DEF BestSound
<1> QED
  BY <1>1, <1>2, <1>3, <1>4

(* The epochs up to n, one by one.                                          *)
LEMMA EpochsProperties ==
  ASSUME NEW n \in Nat
  PROVE  /\ EpochsUpTo(n) \in Seq(Nat) /\ Len(EpochsUpTo(n)) = n
         /\ \A i \in 1 .. n : EpochsUpTo(n)[i] = i
  BY DEF EpochsUpTo

(* One more epoch is applied to a model.                                    *)
LEMMA ModelGrows ==
  ASSUME NEW c, NEW n \in Nat, NEW p \in Params, ModelSound(c, n, p)
  PROVE  /\ ModelSound(c, n + 1, Append(p, n + 1))
         /\ EndsAt(Append(p, n + 1), n + 1)
<1> DEFINE q == Append(p, n + 1)
<1>1. /\ p \in Seq(Nat) /\ Len(p) \in Nat
      /\ q \in Seq(Nat) /\ Len(q) = Len(p) + 1
      /\ \A i \in 1 .. Len(p) : q[i] = p[i] /\ p[i] \in Nat
      /\ q[Len(p) + 1] = n + 1
  <2>1. p \in Seq(Nat)
    BY ConfigAssumption DEF Params
  <2> QED
    BY <2>1, AppendProperties, LenProperties, ElementOfSeq
<1> HIDE DEF q
<1>2. EndsAt(q, n + 1)
  BY <1>1 DEF EndsAt
<1>3. CASE EarlyStopping(c)
  <2>1. Increasing(p) /\ (Len(p) # 0 => p[Len(p)] <= n)
    BY <1>3 DEF ModelSound
  <2>2. ASSUME NEW i \in 1 .. Len(q) - 1 PROVE q[i] < q[i + 1]
    <3>1. CASE i = Len(p)
      BY <1>1, <2>1, <3>1
    <3>2. CASE i \in 1 .. Len(p) - 1
      BY <1>1, <2>1, <3>2 DEF Increasing
    <3> QED
      BY <1>1, <3>1, <3>2
  <2> QED
    BY <1>1, <1>2, <1>3, <2>2 DEF ModelSound, Increasing, q
<1>4. CASE ~EarlyStopping(c)
  <2>1. p = EpochsUpTo(n)
    BY <1>4 DEF ModelSound
  <2>2. Len(p) = n /\ \A i \in 1 .. n : p[i] = i
    BY <2>1, EpochsProperties
  <2>3. \A i \in 1 .. n + 1 : q[i] = i
    BY <1>1, <2>2
  <2>4. q = EpochsUpTo(n + 1)
    BY <1>1, <2>2, <2>3, EpochsProperties, SeqEqual
  <2> QED
    BY <1>2, <1>4, <2>4 DEF ModelSound, q
<1> QED
  BY <1>3, <1>4

(* The optimizer has seen one more epoch.                                   *)
LEMMA OptimizerGrows ==
  ASSUME NEW h, NEW g, NEW n \in Nat, \A e \in 1 .. n : g[e] = h[e],
         NEW o \in OptimizerState, OptimizerSound(h, n, o), o.reason = "none"
  PROVE  LET s == [seen |-> Append(o.seen, n + 1),
                   reason |-> g[n + 1].verdict]
         IN  OptimizerSound(g, n + 1, s) /\ Len(s.seen) # 0
<1> DEFINE q == Append(o.seen, n + 1)
           k == Len(o.seen)
           s == [seen |-> q, reason |-> g[n + 1].verdict]
<1>1. /\ k \in Nat /\ Len(q) = k + 1
      /\ \A i \in 1 .. k : q[i] = o.seen[i]
      /\ q[k + 1] = n + 1
  <2>1. o.seen \in Seq(Nat)
    BY ConfigAssumption DEF OptimizerState, Params
  <2> QED
    BY <2>1, AppendProperties, LenProperties
<1>2. /\ k <= n /\ \A i \in 1 .. k : o.seen[i] = n - k + i
      /\ \A e \in n - k + 1 .. n - 1 : h[e].verdict = "none"
      /\ k # 0 => h[n].verdict = "none"
  BY DEF OptimizerSound
<1> HIDE DEF q, k
<1>3. \A i \in 1 .. k + 1 : q[i] = (n + 1) - (k + 1) + i
  BY <1>1, <1>2
<1>4. \A e \in (n + 1) - (k + 1) + 1 .. (n + 1) - 1 : g[e].verdict = "none"
  <2> TAKE e \in (n + 1) - (k + 1) + 1 .. (n + 1) - 1
  <2>1. e \in 1 .. n /\ (e = n \/ e \in n - k + 1 .. n - 1) /\ k # 0
    BY <1>1, <1>2
  <2> QED
    BY <1>2, <2>1
<1>5. s.seen = q /\ s.reason = g[n + 1].verdict
  OBVIOUS
<1>6. OptimizerSound(g, n + 1, s) /\ Len(s.seen) # 0
  <2> HIDE DEF s
  <2>1. Len(s.seen) = k + 1 /\ k + 1 <= n + 1 /\ k + 1 # 0
    BY <1>1, <1>2, <1>5
  <2>2. \A i \in 1 .. Len(s.seen) : s.seen[i] = (n + 1) - Len(s.seen) + i
    BY <1>3, <1>5, <2>1
  <2>3. \A e \in (n + 1) - Len(s.seen) + 1 .. (n + 1) - 1 : g[e].verdict = "none"
    BY <1>4, <2>1
  <2> QED
    BY <1>5, <2>1, <2>2, <2>3, Zenon DEF OptimizerSound
<1> QED
  BY <1>6 DEF q

-----------------------------------------------------------------------------
(* Outcomes, once drawn, stay until a fresh start.                          *)

LEMMA KnownOutcomes ==
  ASSUME IInv, NEW n \in Epoch, Known(world, n)
  PROVE  /\ \A e \in 1 .. n : world[e] \in Outcome /\ world[e].loss \in Nat
         /\ n \in Nat /\ \A e \in 1 .. n : e \in 1 .. MaxEpoch
<1>1. n \in Nat /\ \A e \in 1 .. n : e \in 1 .. MaxEpoch
  BY ConfigAssumption
<1>2. \A e \in 1 .. n : world[e] \in Outcome
  BY <1>1 DEF Known, IInv, TypeOK
<1> QED
  BY <1>1, <1>2, ConfigAssumption DEF Outcome

(* Only an epoch whose outcome is not known yet draws one.                  *)
LEMMA EpochDraws ==
  ASSUME IInv, TrainEpoch
  PROVE  LET e == run.epoch + 1
         IN  /\ e \in 1 .. MaxEpoch /\ world'[e] \in Outcome
             /\ world[e] # Absent => world' = world
             /\ world[e] = Absent => world'[e] \in Outcomes(run.config)
             /\ \A f \in 1 .. MaxEpoch \ {e} : world'[f] = world[f]
             /\ run' = [run EXCEPT
                          !.epoch = e,
                          !.model = Append(run.model, e),
                          !.optimizer = [seen |-> Append(run.optimizer.seen, e),
                                         reason |-> world'[e].verdict]]
<1> DEFINE e == run.epoch + 1
<1>a. run.epoch \in Epoch /\ run.target \in Epoch
  BY DEF IInv, TypeOK, Run
<1>b. e \in 1 .. MaxEpoch
  BY <1>a, ConfigAssumption DEF TrainEpoch
<1>c. world \in [1 .. MaxEpoch -> Outcome \cup {Absent}]
  BY DEF IInv, TypeOK
<1>d. PICK o \in IF world[e] = Absent THEN Outcomes(run.config)
                 ELSE {world[e]} :
        /\ world' = [world EXCEPT ![e] = o]
        /\ run' = [run EXCEPT
                     !.epoch = e,
                     !.model = Append(run.model, e),
                     !.optimizer = [seen |-> Append(run.optimizer.seen, e),
                                    reason |-> o.verdict]]
  BY DEF TrainEpoch
<1> HIDE DEF e
<1>e. world'[e] = o /\ \A f \in 1 .. MaxEpoch \ {e} : world'[f] = world[f]
  BY <1>b, <1>c, <1>d
<1>f. world[e] # Absent => world' = world
  BY <1>b, <1>c, <1>d
<1>g. o \in Outcome
  BY <1>b, <1>c, <1>d DEF Outcomes
<1> QED
  BY <1>b, <1>d, <1>e, <1>f, <1>g DEF e

LEMMA EpochMemory ==
  ASSUME IInv, TrainEpoch
  PROVE  /\ run'.epoch = run.epoch + 1 /\ run'.config = run.config
         /\ run'.target = run.target /\ run'.best = run.best
         /\ run'.model = Append(run.model, run.epoch + 1)
         /\ run'.optimizer = [seen |-> Append(run.optimizer.seen, run.epoch + 1),
                              reason |-> world'[run.epoch + 1].verdict]
<1>1. run \in Run
  BY DEF IInv, TypeOK
<1> QED
  BY <1>1, EpochDraws DEF Run

LEMMA WorldKept ==
  ASSUME [Next]_vars, ~StartFresh, ~TrainEpoch
  PROVE  UNCHANGED world
  BY DEF Next, Start, Step, Failure, StartResume, StartReconcile,
         StartAdditional, Begin, EvaluateOnly, ObservePlain, ObserveEarly,
         SaveCheckpoint, ReportEpoch, PublishWeights, PublishRefused,
         RemoveCheckpoint, SaveCheckpointFails, EpochFails, PublishFails,
         RemoveCheckpointFails, Crash, Signal, EditProject, vars

LEMMA PastKept ==
  ASSUME IInv, [Next]_vars, ~StartFresh, NEW n \in Epoch, Known(world, n)
  PROVE  \A e \in 1 .. n : world'[e] = world[e]
<1>1. \A e \in 1 .. n : e \in 1 .. MaxEpoch /\ world[e] # Absent
  BY KnownOutcomes DEF Known
<1>2. CASE TrainEpoch
  BY <1>1, <1>2, EpochDraws
<1> QED
  BY <1>2, WorldKept

LEMMA FitsKept ==
  ASSUME IInv, [Next]_vars, ~StartFresh, NEW c, Fits(world, c),
         pc = "train" => c = run.config
  PROVE  Fits(world', c)
<1>1. CASE TrainEpoch
  <2> DEFINE e == run.epoch + 1
  <2>1. c = run.config
    BY <1>1 DEF TrainEpoch
  <2>2. /\ e \in 1 .. MaxEpoch
        /\ \A f \in 1 .. MaxEpoch \ {e} : world'[f] = world[f]
        /\ world'[e] = world[e] \/ world'[e] \in Outcomes(run.config)
    BY <1>1, EpochDraws
  <2> HIDE DEF e
  <2> QED
    BY <2>1, <2>2 DEF Fits, Outcomes
<1> QED
  BY <1>1, WorldKept

-----------------------------------------------------------------------------
(* The files.                                                               *)

(* The published model is the last one, or the selected one.                *)
LEMMA PublishHistory ==
  ASSUME HistoryIInv, pc = "finalize", weights' = WeightsOfRun,
         UNCHANGED world
  PROVE  WeightsHistory'
<1>a. /\ RunHistory /\ Working /\ run.config \in Configs
      /\ EarlyStopping(run.config) => run.best # Absent
  BY DEF HistoryIInv, IInv, RunShape, Working
<1>b. /\ Known(world, run.epoch) /\ Fits(world, run.config)
      /\ ModelSound(run.config, run.epoch, run.model)
      /\ BestSound(world, run.config, run.epoch, run.best)
  BY <1>a DEF RunHistory
<1>c. /\ weights'.completed = run.epoch /\ weights'.digest = run.config
      /\ EarlyStopping(run.config) =>
           /\ weights'.selected = run.best.epoch
           /\ weights'.params = run.best.params
      /\ ~EarlyStopping(run.config) => weights'.params = run.model
  BY DEF WeightsOfRun
<1>1. CASE EarlyStopping(run.config)
  BY <1>a, <1>b, <1>c, <1>1 DEF WeightsHistory, BestSound
<1>2. CASE ~EarlyStopping(run.config)
  BY <1>b, <1>c, <1>2 DEF WeightsHistory, ModelSound
<1> QED
  BY <1>1, <1>2

LEMMA WeightsHistoryStep ==
  ASSUME HistoryIInv, [Next]_vars
  PROVE  WeightsHistory'
<1>a. IInv /\ WeightsHistory
  BY DEF HistoryIInv
<1>1. CASE StartFresh
  BY <1>1 DEF StartFresh, FreshAccepted, Begin, WeightsHistory
<1>2. CASE UNCHANGED weights /\ ~StartFresh /\ weights # Absent
  <2> DEFINE n == weights.completed
             c == weights.digest
  <2>1. n \in Epoch /\ n \in Nat /\ Known(world, n) /\ Fits(world, c)
    BY <1>a, <1>2, ConfigAssumption DEF WeightsHistory, IInv, TypeOK, Weights
  <2>2. \A e \in 1 .. n : world'[e] = world[e]
    BY <1>a, <1>2, <2>1, PastKept
  <2>3. Fits(world', c)
    <3>1. pc = "train" => c = run.config
      BY <1>a, <1>2 DEF IInv, LedgerOrder
    <3> QED
      BY <1>a, <1>2, <2>1, <3>1, FitsKept
  <2>4. /\ Known(world', n)
        /\ \A e : BestOf(world, c, n, e) => BestOf(world', c, n, e)
    BY <2>1, <2>2, HistoryKept
  <2> QED
    BY <1>a, <1>2, <2>3, <2>4 DEF WeightsHistory
<1>3. CASE UNCHANGED weights /\ weights = Absent
  BY <1>3 DEF WeightsHistory
<1>4. CASE PublishWeights \/ PublishFails
  BY <1>2, <1>3, <1>4, PublishHistory
  DEF PublishWeights, PublishFails, StartFresh, Begin
<1> QED
  BY <1>1, <1>2, <1>3, <1>4
  DEF Next, Start, Step, Failure, StartResume, StartReconcile,
      StartAdditional, Begin, EvaluateOnly, TrainEpoch, ObservePlain,
      ObserveEarly, SaveCheckpoint, ReportEpoch, PublishRefused,
      RemoveCheckpoint, SaveCheckpointFails, EpochFails,
      RemoveCheckpointFails, Crash, Signal, EditProject, vars

(* A checkpoint is the run.                                                 *)
LEMMA SaveHistory ==
  ASSUME HistoryIInv, pc = "save", checkpoint' = CheckpointOfRun,
         UNCHANGED world
  PROVE  CheckpointHistory'
<1>a. RunHistory /\ Working
  BY DEF HistoryIInv, Working
<1>b. /\ Known(world, run.epoch) /\ Fits(world, run.config)
      /\ ModelSound(run.config, run.epoch, run.model)
      /\ OptimizerSound(world, run.epoch, run.optimizer)
      /\ BestSound(world, run.config, run.epoch, run.best)
      /\ EndsAt(run.model, run.epoch) /\ Len(run.optimizer.seen) # 0
  BY <1>a DEF RunHistory
<1> QED
  BY <1>b DEF CheckpointHistory, CheckpointOfRun

LEMMA CheckpointHistoryStep ==
  ASSUME HistoryIInv, [Next]_vars
  PROVE  CheckpointHistory'
<1>a. IInv /\ CheckpointHistory
  BY DEF HistoryIInv
<1>1. CASE StartFresh
  BY <1>1 DEF StartFresh, FreshAccepted, Begin, CheckpointHistory
<1>2. CASE UNCHANGED checkpoint /\ ~StartFresh /\ checkpoint # Absent
  <2> DEFINE n == checkpoint.completed
             c == checkpoint.digest
  <2>1. n \in Epoch /\ n \in Nat /\ Known(world, n) /\ Fits(world, c)
    BY <1>a, <1>2, ConfigAssumption
    DEF CheckpointHistory, IInv, TypeOK, Checkpoint
  <2>2. \A e \in 1 .. n : world'[e] = world[e]
    BY <1>a, <1>2, <2>1, PastKept
  <2>3. Fits(world', c)
    <3>1. pc = "train" => c = run.config
      BY <1>a, <1>2 DEF IInv, LedgerOrder
    <3> QED
      BY <1>a, <1>2, <2>1, <3>1, FitsKept
  <2>4. Len(checkpoint.optimizer.seen) \in Nat
    BY <1>a, <1>2, LenProperties
    DEF IInv, TypeOK, Checkpoint, OptimizerState, Params
  <2>5. /\ Known(world', n)
        /\ OptimizerSound(world, n, checkpoint.optimizer) =>
             OptimizerSound(world', n, checkpoint.optimizer)
        /\ BestSound(world, c, n, checkpoint.best) =>
             BestSound(world', c, n, checkpoint.best)
    BY <2>1, <2>2, <2>4, HistoryKept
  <2> QED
    BY <1>a, <1>2, <2>3, <2>5 DEF CheckpointHistory
<1>3. CASE checkpoint' = Absent
  BY <1>3 DEF CheckpointHistory
<1>4. CASE SaveCheckpoint \/ SaveCheckpointFails
  BY <1>2, <1>3, <1>4, SaveHistory
  DEF SaveCheckpoint, SaveCheckpointFails, StartFresh, Begin
<1> QED
  BY <1>1, <1>2, <1>3, <1>4
  DEF Next, Start, Step, Failure, StartResume, StartReconcile,
      StartAdditional, Begin, EvaluateOnly, TrainEpoch, ObservePlain,
      ObserveEarly, PublishWeights, ReportEpoch, PublishRefused,
      RemoveCheckpoint, PublishFails, EpochFails,
      RemoveCheckpointFails, Crash, Signal, EditProject, vars

-----------------------------------------------------------------------------
(* The memory of a command.                                                 *)

(* A fresh run has no history.                                              *)
LEMMA FreshHistory == IInv /\ StartFresh => RunHistory'
<1> SUFFICES ASSUME IInv, StartFresh PROVE RunHistory'
  OBVIOUS
<1>1. /\ pc' = "train" /\ run'.epoch = 0 /\ run'.model = <<>>
      /\ run'.optimizer = FreshOptimizer /\ run'.best = Absent
      /\ run'.config = project
      /\ world' = NoOutcomes
  BY DEF StartFresh, Begin, NoRun
<1>2. Fits(world', run'.config)
  BY <1>1 DEF Fits, NoOutcomes
<1>3. ModelSound(run'.config, run'.epoch, run'.model)
  <2>1. EpochsUpTo(0) = <<>>
    BY DEF EpochsUpTo
  <2> QED
    BY <1>1, <2>1 DEF ModelSound, Increasing
<1>4. OptimizerSound(world', run'.epoch, run'.optimizer)
  BY <1>1 DEF OptimizerSound, FreshOptimizer
<1> QED
  BY <1>1, <1>2, <1>3, <1>4 DEF RunHistory, Known, BestSound

(* A resumed run has that of its checkpoint.                                *)
LEMMA ResumeHistory == HistoryIInv /\ StartResume => RunHistory'
<1> SUFFICES ASSUME HistoryIInv, StartResume PROVE RunHistory'
  OBVIOUS
<1>1. /\ pc' = "train" /\ world' = world
      /\ checkpoint # Absent /\ checkpoint.digest = project
      /\ run'.config = project
      /\ run'.epoch = checkpoint.completed
      /\ run'.model = checkpoint.params
      /\ run'.optimizer = checkpoint.optimizer
      /\ run'.best = checkpoint.best
  BY DEF StartResume, Begin, NoRun, ResumeEarly, ResumePlain, ResumeLoads
<1> QED
  BY <1>1 DEF HistoryIInv, CheckpointHistory, RunHistory

(* A refinement has the model of the weights and a new optimizer.           *)
LEMMA AdditionalHistory ==
  ASSUME NEW n \in Additional, HistoryIInv, StartAdditional(n)
  PROVE  RunHistory'
<1> DEFINE k == weights.completed
<1>a. /\ pc' = "train" /\ world' = world
      /\ weights # Absent /\ weights.digest = project
      /\ run'.config = project
      /\ run'.epoch = k
      /\ run'.model = weights.params
      /\ run'.optimizer = FreshOptimizer
      /\ ~EarlyStopping(project) => run'.best = Absent
      /\ EarlyStopping(project) =>
           run'.best = [params |-> weights.params, epoch |-> weights.selected,
                        loss |-> world[weights.selected].loss, stale |-> 0]
  BY DEF StartAdditional, Begin, NoRun, AdditionalAccepted, AdditionalBaseline
<1>b. /\ Known(world, k) /\ Fits(world, project) /\ k \in Nat
      /\ IF EarlyStopping(project)
           THEN /\ Increasing(weights.params)
                /\ EndsAt(weights.params, weights.selected)
                /\ BestOf(world, project, k, weights.selected)
           ELSE weights.params = EpochsUpTo(k)
  BY <1>a, ConfigAssumption
  DEF HistoryIInv, WeightsHistory, IInv, TypeOK, Weights
<1> HIDE DEF k
<1>1. ModelSound(project, k, weights.params)
  BY <1>b DEF ModelSound, EndsAt, BestOf
<1>2. OptimizerSound(world, k, FreshOptimizer)
  BY <1>b DEF OptimizerSound, FreshOptimizer
<1>3. BestSound(world, project, k, run'.best)
  BY <1>a, <1>b DEF BestSound
<1> QED
  BY <1>a, <1>b, <1>1, <1>2, <1>3 DEF RunHistory

(* An epoch extends it.                                                     *)
LEMMA TrainHistoryStep == HistoryIInv /\ TrainEpoch => RunHistory'
<1> SUFFICES ASSUME HistoryIInv, TrainEpoch PROVE RunHistory'
  OBVIOUS
<1> DEFINE n == run.epoch
           c == run.config
<1>a. /\ IInv /\ [Next]_vars /\ ~StartFresh /\ pc = "train" /\ pc' = "observe"
      /\ run.optimizer.reason = "none"
  BY DEF HistoryIInv, TrainEpoch, Next, Step, StartFresh, Begin
<1>b. /\ n \in Epoch /\ n \in Nat /\ run.model \in Params
      /\ run.optimizer \in OptimizerState /\ run \in Run
      /\ Len(run.optimizer.seen) \in Nat
  BY <1>a, ConfigAssumption, LenProperties
  DEF IInv, TypeOK, Run, OptimizerState, Params
<1>c. /\ Known(world, n) /\ Fits(world, c) /\ ModelSound(c, n, run.model)
      /\ OptimizerSound(world, n, run.optimizer)
      /\ BestSound(world, c, n, run.best)
  BY <1>a DEF HistoryIInv, RunHistory, Working
<1>d. /\ n + 1 \in 1 .. MaxEpoch /\ world'[n + 1] \in Outcome
      /\ run'.epoch = n + 1 /\ run'.config = c /\ run'.best = run.best
      /\ run'.model = Append(run.model, n + 1)
      /\ run'.optimizer = [seen |-> Append(run.optimizer.seen, n + 1),
                           reason |-> world'[n + 1].verdict]
  BY <1>a, EpochDraws, EpochMemory
<1>e. \A e \in 1 .. n : world'[e] = world[e]
  BY <1>a, <1>b, <1>c, PastKept
<1> HIDE DEF n, c
<1>1. Known(world', n + 1)
  <2>1. world'[n + 1] # Absent
    BY <1>d, AbsentAssumption
  <2> QED
    BY <1>b, <1>c, <1>e, <2>1 DEF Known
<1>2. Fits(world', c)
  BY <1>a, <1>c, FitsKept DEF c
<1>3. /\ ModelSound(c, n + 1, run'.model) /\ EndsAt(run'.model, n + 1)
  BY <1>b, <1>c, <1>d, ModelGrows
<1>4. /\ OptimizerSound(world', n + 1, run'.optimizer)
      /\ Len(run'.optimizer.seen) # 0
  BY <1>a, <1>b, <1>c, <1>d, <1>e, OptimizerGrows
<1>5. BestSound(world', c, n, run.best)
  BY <1>b, <1>c, <1>e, HistoryKept
<1>6. EarlyStopping(c) /\ run.best = Absent => n = 0
  BY <1>a DEF IInv, RunShape, n, c
<1>7. EarlyStopping(c) /\ run'.best = Absent => run'.epoch = 1
  BY <1>b, <1>d, <1>6
<1>8. n = (n + 1) - 1
  BY <1>b
<1> QED
  BY <1>a, <1>d, <1>1, <1>2, <1>3, <1>4, <1>5, <1>7, <1>8 DEF RunHistory

(* The selected model is the best one up to and with the present epoch.     *)
LEMMA SelectedBest ==
  ASSUME HistoryIInv, pc = "observe", EarlyStopping(run.config)
  PROVE  BestSound(world, run.config, run.epoch, Selected)
<1> DEFINE n == run.epoch
           c == run.config
           new == [params |-> run.model, epoch |-> n, loss |-> world[n].loss,
                   stale |-> 0]
           old == [run.best EXCEPT !.stale = @ + 1]
<1>a. /\ IInv /\ run \in Run /\ n \in Epoch /\ n # 0 /\ c \in Configs
      /\ run.best \in BestModel \cup {Absent}
  BY DEF HistoryIInv, IInv, TypeOK, Run, RunShape
<1>b. /\ Known(world, n) /\ ModelSound(c, n, run.model)
      /\ EndsAt(run.model, n) /\ BestSound(world, c, n - 1, run.best)
  BY DEF HistoryIInv, RunHistory, Working
<1>c. \A e \in 1 .. n : world[e].loss \in Nat
  BY <1>a, <1>b, KnownOutcomes
<1>d. c.minDelta \in Nat /\ n \in Nat /\ n \in 1 .. n
  BY <1>a, ConfigAssumption DEF Config
<1>e. run.best = Absent => n = 1
  BY DEF HistoryIInv, RunHistory, Working
<1> HIDE DEF n, c
<1>1. CASE run.best = Absent \/ run.best.loss - world[n].loss > c.minDelta
  <2>1. \A e \in 1 .. n : world[n].loss - world[e].loss <= c.minDelta
    <3>1. CASE run.best = Absent
      BY <1>c, <1>d, <1>e, <3>1
    <3>2. CASE /\ run.best # Absent
               /\ run.best.loss - world[n].loss > c.minDelta
      <4>1. /\ \A e \in 1 .. n - 1 : run.best.loss - world[e].loss <= c.minDelta
            /\ run.best.loss \in Nat
        BY <1>a, <1>b, <3>2 DEF BestSound, BestOf, BestModel
      <4> QED
        BY <1>c, <1>d, <3>2, <4>1
    <3> QED
      BY <1>1, <3>1, <3>2
  <2>2. Selected = new
    BY <1>1 DEF Selected, n, c
  <2>3. Increasing(run.model)
    BY <1>b DEF ModelSound, c
  <2> QED
    BY <1>b, <1>d, <2>1, <2>2, <2>3 DEF BestSound, BestOf, n, c
<1>2. CASE /\ run.best # Absent
           /\ ~(run.best.loss - world[n].loss > c.minDelta)
  <2>1. Selected = old
    BY <1>2 DEF Selected, n, c
  <2>2. /\ old.params = run.best.params /\ old.epoch = run.best.epoch
        /\ old.loss = run.best.loss /\ run.best.loss \in Nat
    BY <1>a, <1>2 DEF BestModel
  <2>3. run.best.loss - world[n].loss <= c.minDelta
    BY <1>c, <1>d, <1>2, <2>2
  <2>4. /\ Increasing(run.best.params) /\ EndsAt(run.best.params, run.best.epoch)
        /\ BestOf(world, c, n - 1, run.best.epoch)
        /\ run.best.loss = world[run.best.epoch].loss
    BY <1>b, <1>2 DEF BestSound
  <2>5. BestOf(world, c, n, run.best.epoch)
    BY <1>d, <2>3, <2>4 DEF BestOf
  <2> HIDE DEF old
  <2> QED
    BY <2>1, <2>2, <2>4, <2>5 DEF BestSound, n, c
<1> QED
  BY <1>1, <1>2

LEMMA RunHistoryStep ==
  ASSUME HistoryIInv, [Next]_vars
  PROVE  RunHistory'
<1> DEFINE Kept == /\ UNCHANGED world
                   /\ run'.config = run.config /\ run'.epoch = run.epoch
                   /\ run'.model = run.model
                   /\ run'.optimizer = run.optimizer
<1>a. IInv /\ RunHistory /\ run \in Run
  BY DEF HistoryIInv, IInv, TypeOK
<1>1. CASE Start
  BY <1>1, <1>a, FreshHistory, ResumeHistory, AdditionalHistory
  DEF Start, StartReconcile, Begin, RunHistory, Working
<1>2. CASE TrainEpoch
  BY <1>2, TrainHistoryStep
<1>3. CASE ObservePlain
  <2>1. Kept /\ run'.best = run.best /\ Working /\ pc' \in {"save", "notify"}
    BY <1>3, <1>a DEF ObservePlain, Run, Working
  <2>2. BestSound(world, run.config, run.epoch, run.best)
    BY <1>3, <1>a, <2>1 DEF ObservePlain, RunHistory, BestSound
  <2> QED
    BY <1>3, <1>a, <2>1, <2>2 DEF ObservePlain, RunHistory
<1>4. CASE ObserveEarly
  <2>1. Kept /\ run'.best = Selected /\ Working /\ pc' \in {"save", "notify"}
    BY <1>4, <1>a DEF ObserveEarly, Run, Working
  <2>2. BestSound(world, run.config, run.epoch, Selected)
    BY <1>4, SelectedBest DEF ObserveEarly
  <2> QED
    BY <1>4, <1>a, <2>1, <2>2 DEF ObserveEarly, RunHistory
<1>5. CASE /\ Kept /\ run'.best = run.best /\ Working
           /\ pc # "observe"
           /\ pc' \notin {"observe", "save"}
  BY <1>5, <1>a DEF RunHistory
<1>6. CASE UNCHANGED <<pc, run, world>>
  BY <1>6, <1>a DEF RunHistory, Working
<1>7. CASE pc' \in {"idle", "remove"}
  BY <1>7 DEF RunHistory, Working
<1>8. CASE EvaluateOnly \/ ReportEpoch
  <2>1. CASE \E why : Finish(why)
    BY <1>5, <1>8, <1>a, <2>1
    DEF EvaluateOnly, ReportEpoch, Finish, Run, Working
  <2>2. CASE pc' = "train" /\ UNCHANGED run
    BY <1>5, <1>8, <2>2 DEF EvaluateOnly, ReportEpoch, Working
  <2>3. CASE End("interrupted")
    BY <1>7, <2>3 DEF End
  <2> QED
    BY <1>8, <2>1, <2>2, <2>3 DEF EvaluateOnly, ReportEpoch
<1>9. CASE SaveCheckpoint
  <2>1. CASE pc' = "notify" /\ UNCHANGED run
    BY <1>5, <1>9, <2>1 DEF SaveCheckpoint, Working
  <2> QED
    BY <1>7, <1>9, <2>1 DEF SaveCheckpoint, End
<1> QED
  BY <1>1, <1>2, <1>3, <1>4, <1>6, <1>7, <1>8, <1>9
  DEF Next, Step, Failure, PublishWeights, PublishRefused, RemoveCheckpoint,
      SaveCheckpointFails, EpochFails, PublishFails, RemoveCheckpointFails,
      Crash, End, Signal, EditProject, vars

-----------------------------------------------------------------------------
(* Where the optimizer began.                                               *)

LEMMA SeenLength ==
  ASSUME IInv
  PROVE  /\ run.epoch \in Nat /\ Len(run.optimizer.seen) \in Nat
         /\ weights # Absent => weights.completed \in Nat
         /\ checkpoint # Absent =>
              /\ checkpoint.completed \in Nat
              /\ Len(checkpoint.optimizer.seen) \in Nat
<1>1. run.optimizer.seen \in Seq(Epoch) /\ run.epoch \in Nat
  BY ConfigAssumption DEF IInv, TypeOK, Run, OptimizerState, Params
<1>2. weights # Absent => weights.completed \in Nat
  BY ConfigAssumption DEF IInv, TypeOK, Weights
<1>3. checkpoint # Absent =>
        /\ checkpoint.completed \in Nat
        /\ checkpoint.optimizer.seen \in Seq(Epoch)
  BY ConfigAssumption
  DEF IInv, TypeOK, Checkpoint, OptimizerState, Params
<1> QED
  BY <1>1, <1>2, <1>3, LenProperties

(* The steps of a command that still works that leave both files alone.     *)
LEMMA QuietSteps ==
  ASSUME IInv, EvaluateOnly \/ ReportEpoch \/ ObservePlain \/ ObserveEarly
  PROVE  /\ UNCHANGED <<weights, checkpoint, project, world, faults>>
         /\ Working /\ pc # "finalize"
         /\ \/ /\ UNCHANGED result
               /\ run'.config = run.config /\ run'.epoch = run.epoch
               /\ run'.target = run.target /\ run'.optimizer = run.optimizer
               /\ pc' \in {"save", "notify", "finalize", "train"}
               /\ pc # "train" \/ pc' = "finalize"
            \/ End("interrupted") /\ pc = "notify" /\ run.caught
<1>a. run \in Run
  BY DEF IInv, TypeOK
<1>1. CASE EvaluateOnly
  BY <1>1, <1>a DEF EvaluateOnly, Finish, Run, Working
<1>2. CASE ReportEpoch
  BY <1>2, <1>a DEF ReportEpoch, Finish, Run, Working
<1>3. CASE ObservePlain
  BY <1>3, <1>a DEF ObservePlain, Run, Working
<1>4. CASE ObserveEarly
  BY <1>4, <1>a DEF ObserveEarly, Run, Working
<1> QED
  BY <1>1, <1>2, <1>3, <1>4

LEMMA RunBeganStep ==
  ASSUME HistoryIInv, [Next]_vars
  PROVE  RunBegan'
<1>a. IInv /\ RunBegan /\ CheckpointBegan /\ run \in Run
  BY DEF HistoryIInv, IInv, TypeOK
<1>1. CASE StartFresh
  BY <1>1 DEF StartFresh, Begin, FreshAccepted, NoRun, FreshOptimizer, RunBegan
<1>2. CASE StartResume
  <2>1. /\ pc' = "train" /\ UNCHANGED <<weights, checkpoint>>
        /\ checkpoint # Absent /\ checkpoint.digest = project
        /\ run'.config = project
        /\ run'.epoch = checkpoint.completed
        /\ run'.target = checkpoint.target
        /\ run'.optimizer = checkpoint.optimizer
    BY <1>2 DEF StartResume, Begin, NoRun, ResumeEarly, ResumePlain,
                ResumeLoads
  <2>2. ~EarlyStopping(project) /\ weights # Absent =>
          weights.completed <= checkpoint.completed
    BY <1>2 DEF StartResume, ResumeEarly, ResumePlain
  <2>3. ~EarlyStopping(project) /\ weights # Absent =>
          \/ weights.completed < checkpoint.completed
          \/ weights.completed = checkpoint.completed
    BY <1>a, <2>1, <2>2, SeenLength
  <2> QED
    BY <1>a, <2>1, <2>3 DEF RunBegan, CheckpointBegan
<1>3. ASSUME NEW n \in Additional, StartAdditional(n) PROVE RunBegan'
  <2>1. /\ UNCHANGED weights /\ weights # Absent
        /\ run'.epoch = weights.completed /\ run'.optimizer.seen = <<>>
    BY <1>3 DEF StartAdditional, Begin, AdditionalAccepted,
                AdditionalBaseline, NoRun, FreshOptimizer
  <2> QED
    BY <1>a, <2>1, SeenLength DEF RunBegan
<1>4. CASE TrainEpoch
  <2>a. UNCHANGED weights /\ Working /\ pc = "train"
    BY <1>4 DEF TrainEpoch, Working
  <2>1. /\ run'.config = run.config /\ run'.epoch = run.epoch + 1
        /\ run'.optimizer.seen = Append(run.optimizer.seen, run.epoch + 1)
    BY <1>4, <1>a, EpochMemory
  <2>2. Len(run'.optimizer.seen) = Len(run.optimizer.seen) + 1
    <3>1. run.optimizer.seen \in Seq(Epoch) /\ run.epoch + 1 \in Epoch
      BY <1>4, <1>a, EpochDraws DEF Run, OptimizerState, Params
    <3> QED
      BY <2>1, <3>1, AppendProperties
  <2>3. ~OptimizerOver(run.epoch, run.target, run.optimizer)
    BY <1>4, <1>a, SeenLength, ConfigAssumption
    DEF TrainEpoch, OptimizerOver, Run
  <2>4. run'.epoch - Len(run'.optimizer.seen) =
          run.epoch - Len(run.optimizer.seen)
    <3> DEFINE before == Len(run.optimizer.seen)
               after == Len(run'.optimizer.seen)
    <3>1. run'.epoch = run.epoch + 1 /\ after = before + 1
      BY <2>1, <2>2
    <3>2. run.epoch \in Nat /\ before \in Nat
      BY <1>a, SeenLength
    <3> HIDE DEF before, after
    <3>3. run'.epoch - after = run.epoch - before
      BY ONLY <3>1, <3>2
    <3> QED
      BY ONLY <3>3 DEF before, after
  <2> QED
    BY <1>a, <2>a, <2>1, <2>3, <2>4 DEF RunBegan
<1>5. CASE EvaluateOnly \/ ReportEpoch \/ ObservePlain \/ ObserveEarly
  <2>1. CASE End("interrupted")
    BY <2>1 DEF End, RunBegan, Working
  <2>2. CASE ~End("interrupted")
    BY <1>5, <1>a, <2>2, QuietSteps DEF RunBegan
  <2> QED
    BY <2>1, <2>2
<1>6. CASE UNCHANGED <<pc, run, weights>>
  BY <1>6, <1>a DEF RunBegan, Working
<1>7. CASE pc' \in {"idle", "remove"}
  BY <1>7 DEF RunBegan, Working
<1>8. CASE SaveCheckpoint
  <2>1. CASE UNCHANGED <<run, weights>> /\ pc = "save"
    BY <1>a, <2>1 DEF RunBegan, Working
  <2> QED
    BY <1>7, <1>8, <2>1 DEF SaveCheckpoint, End
<1> QED
  BY <1>1, <1>2, <1>3, <1>4, <1>5, <1>6, <1>7, <1>8
  DEF Next, Start, StartReconcile, Begin, Step, Failure, PublishWeights,
      PublishRefused, RemoveCheckpoint, SaveCheckpointFails, EpochFails,
      PublishFails, RemoveCheckpointFails, Crash, End, Signal, EditProject,
      vars

LEMMA CheckpointBeganStep ==
  ASSUME HistoryIInv, [Next]_vars
  PROVE  CheckpointBegan'
<1>a. IInv /\ OverAtFinalize /\ RunBegan /\ CheckpointBegan /\ CheckpointIsRun
  BY DEF HistoryIInv
<1>1. CASE UNCHANGED <<weights, checkpoint>>
  BY <1>1, <1>a DEF CheckpointBegan
<1>2. CASE checkpoint' = Absent
  BY <1>2 DEF CheckpointBegan
<1>3. CASE /\ pc = "save" /\ checkpoint' = CheckpointOfRun
           /\ UNCHANGED weights
  <2>1. /\ checkpoint'.digest = run.config
        /\ checkpoint'.completed = run.epoch
        /\ checkpoint'.optimizer = run.optimizer
    BY <1>3 DEF CheckpointOfRun
  <2>2. weights # Absent => weights.completed < run.epoch
    BY <1>3, <1>a DEF IInv, LedgerOrder
  <2>3. weights # Absent => weights.completed # run.epoch
    BY <1>a, <2>2, SeenLength
  <2> QED
    BY <1>3, <1>a, <2>1, <2>2, <2>3 DEF CheckpointBegan, RunBegan, Working
<1>4. CASE /\ pc = "finalize" /\ weights' = WeightsOfRun
           /\ UNCHANGED <<checkpoint, world>>
  <2>1. weights' # Absent /\ weights'.completed = run.epoch
    BY <1>4, <1>a, WeightsSound
  <2>2. ASSUME checkpoint # Absent
        PROVE  /\ checkpoint.digest = run.config
               /\ checkpoint.completed <= run.epoch
               /\ checkpoint.target = run.target
    BY <1>4, <1>a, <2>2 DEF IInv, LedgerOrder
  <2>3. ASSUME checkpoint # Absent, checkpoint.completed = run.epoch,
               ~EarlyStopping(checkpoint.digest)
        PROVE  OptimizerOver(checkpoint.completed, checkpoint.target,
                             checkpoint.optimizer)
    BY <1>4, <1>a, <2>2, <2>3
    DEF CheckpointIsRun, Working, OverAtFinalize, RunIsOver, OptimizerOver
  <2>4. checkpoint # Absent => ~(run.epoch < checkpoint.completed)
    BY <1>a, <2>2, SeenLength
  <2> QED
    BY <1>4, <2>1, <2>3, <2>4 DEF CheckpointBegan
<1>5. CASE SaveCheckpoint \/ SaveCheckpointFails
  BY <1>1, <1>3, <1>5 DEF SaveCheckpoint, SaveCheckpointFails
<1>6. CASE PublishWeights \/ PublishFails
  BY <1>1, <1>4, <1>6 DEF PublishWeights, PublishFails
<1> QED
  BY <1>1, <1>2, <1>5, <1>6
  DEF Next, Start, Step, Failure, StartFresh, StartResume, StartReconcile,
      StartAdditional, Begin, EvaluateOnly, TrainEpoch, ObservePlain,
      ObserveEarly, ReportEpoch, PublishRefused, RemoveCheckpoint, EpochFails,
      RemoveCheckpointFails, Crash, Signal, EditProject, vars

LEMMA CheckpointIsRunStep ==
  ASSUME HistoryIInv, [Next]_vars
  PROVE  CheckpointIsRun'
<1>a. IInv /\ CheckpointIsRun /\ run \in Run
  BY DEF HistoryIInv, IInv, TypeOK
<1>1. CASE Start
  BY <1>1 DEF Start, StartFresh, StartResume, StartReconcile, StartAdditional,
              Begin, NoRun, FreshAccepted, AdditionalAccepted,
              AdditionalBaseline, CheckpointIsRun, Working
<1>2. CASE TrainEpoch
  <2>1. /\ UNCHANGED checkpoint /\ run'.epoch = run.epoch + 1
        /\ checkpoint # Absent => checkpoint.completed <= run.epoch
    BY <1>2, <1>a, EpochDraws DEF TrainEpoch, Run, IInv, LedgerOrder
  <2> QED
    BY <1>a, <2>1, SeenLength DEF CheckpointIsRun
<1>3. CASE EvaluateOnly \/ ReportEpoch \/ ObservePlain \/ ObserveEarly
  BY <1>3, <1>a, QuietSteps DEF CheckpointIsRun, End, Working
<1>4. CASE UNCHANGED <<pc, run, checkpoint>>
  BY <1>4, <1>a DEF CheckpointIsRun, Working
<1>5. CASE pc' \in {"idle", "remove"}
  BY <1>5 DEF CheckpointIsRun, Working
<1>6. CASE SaveCheckpoint
  BY <1>5, <1>6 DEF SaveCheckpoint, CheckpointOfRun, CheckpointIsRun, End
<1> QED
  BY <1>1, <1>2, <1>3, <1>4, <1>5, <1>6
  DEF Next, Step, Failure, PublishWeights, PublishRefused, RemoveCheckpoint,
      SaveCheckpointFails, EpochFails, PublishFails, RemoveCheckpointFails,
      Crash, End, Signal, EditProject, vars

-----------------------------------------------------------------------------
(* Targets and interruptions.                                               *)

(* Without early stopping and convergence only the target ends a run.       *)
LEMMA TargetEnds ==
  ASSUME HistoryIInv, pc = "finalize", RunsToTarget(run.config)
  PROVE  run.epoch = run.target
<1>a. /\ IInv /\ OverAtFinalize /\ run.epoch \in Epoch
      /\ Len(run.optimizer.seen) \in Nat
      /\ ~EarlyStopping(run.config)
  BY SeenLength DEF HistoryIInv, IInv, TypeOK, Run, RunsToTarget, EarlyStopping
<1>b. /\ Known(world, run.epoch) /\ Fits(world, run.config)
      /\ OptimizerSound(world, run.epoch, run.optimizer)
  BY DEF HistoryIInv, RunHistory, Working
<1>1. CASE Len(run.optimizer.seen) = 0
  BY <1>a, <1>b, <1>1 DEF OptimizerSound, OverAtFinalize, RunIsOver
<1>2. CASE Len(run.optimizer.seen) # 0
  <2>1. run.epoch \in 1 .. run.epoch /\ run.epoch \in 1 .. MaxEpoch
    BY <1>a, <1>b, <1>2, KnownOutcomes DEF OptimizerSound
  <2>2. world[run.epoch].verdict = "none"
    BY <1>b, <2>1 DEF Known, Fits, RunsToTarget
  <2> QED
    BY <1>a, <1>b, <1>2, <2>2 DEF OptimizerSound, OverAtFinalize, RunIsOver
<1> QED
  BY <1>1, <1>2

(* What the steps that may still write preserve of the targets.             *)
LEMMA TargetTypes ==
  ASSUME IInv
  PROVE  /\ run.epoch \in Nat /\ run.target \in Nat
         /\ weights # Absent => weights.completed \in Nat
         /\ checkpoint # Absent =>
              checkpoint.completed \in Nat /\ checkpoint.target \in Nat
         /\ project \in Configs /\ project.epochs \in Nat
<1>1. TypeOK
  BY DEF IInv
<1>2. run.epoch \in Nat /\ run.target \in Nat
  BY <1>1 DEF TypeOK, Run
<1>3. weights # Absent => weights.completed \in Nat
  BY <1>1 DEF TypeOK, Weights
<1>4. checkpoint # Absent =>
        checkpoint.completed \in Nat /\ checkpoint.target \in Nat
  BY <1>1 DEF TypeOK, Checkpoint
<1>5. project \in Configs /\ project.epochs \in Nat
  BY <1>1, ConfigAssumption DEF TypeOK, Config
<1> QED
  BY <1>2, <1>3, <1>4, <1>5

LEMMA TargetsStep ==
  ASSUME HistoryIInv, [Next]_vars
  PROVE  Targets'
<1>a. IInv /\ Targets /\ run \in Run
  BY DEF HistoryIInv, IInv, TypeOK
<1>1. CASE StartFresh
  <2>1. /\ weights' = Absent /\ checkpoint' = Absent
        /\ run'.config = project /\ run'.target = project.epochs
    BY <1>1 DEF StartFresh, Begin, FreshAccepted, NoRun
  <2> QED
    BY <1>a, <2>1, TargetTypes DEF Targets
<1>2. CASE StartResume
  <2>1. /\ UNCHANGED <<weights, checkpoint>>
        /\ checkpoint # Absent /\ checkpoint.digest = project
        /\ weights # Absent => weights.digest = project
        /\ run'.config = project /\ run'.target = checkpoint.target
    BY <1>2 DEF StartResume, Begin, NoRun, ResumeEarly, ResumePlain,
                ResumeLoads
  <2>2. RunsToTarget(project) /\ weights # Absent =>
          weights.completed < checkpoint.target
    BY <1>2 DEF StartResume, ResumeEarly, ResumePlain, RunsToTarget,
                EarlyStopping
  <2>3. RunsToTarget(project) => checkpoint.target >= project.epochs
    <3>1. CASE weights = Absent
      BY <1>a, <2>1, <3>1, TargetTypes DEF Targets
    <3>2. CASE weights # Absent
      <4>1. RunsToTarget(project) => weights.completed >= project.epochs
        BY <1>a, <2>1, <3>2 DEF Targets
      <4> QED
        BY <1>a, <2>1, <2>2, <3>2, <4>1, TargetTypes
    <3> QED
      BY <3>1, <3>2
  <2> QED
    BY <1>a, <2>1, <2>3 DEF Targets
<1>3. ASSUME NEW n \in Additional, StartAdditional(n) PROVE Targets'
  <2>1. /\ UNCHANGED <<weights, checkpoint>>
        /\ weights # Absent /\ weights.digest = project
        /\ run'.config = project /\ run'.target = weights.completed + n
    BY <1>3 DEF StartAdditional, Begin, AdditionalAccepted,
                AdditionalBaseline, NoRun
  <2>2. RunsToTarget(project) => weights.completed + n >= project.epochs
    <3>1. n \in Nat
      BY ConfigAssumption
    <3> QED
      BY <1>a, <2>1, <3>1, TargetTypes DEF Targets
  <2> QED
    BY <1>a, <2>1, <2>2 DEF Targets
<1>4. CASE /\ UNCHANGED <<weights, checkpoint>>
           /\ Working' => /\ Working /\ run'.config = run.config
                          /\ run'.target = run.target
  BY <1>4, <1>a DEF Targets
<1>5. CASE /\ checkpoint' = Absent /\ UNCHANGED weights /\ ~Working'
  BY <1>5, <1>a DEF Targets
<1>6. CASE /\ pc = "save" /\ checkpoint' = CheckpointOfRun
           /\ UNCHANGED weights
           /\ UNCHANGED run \/ ~Working'
  <2>1. /\ checkpoint'.target = run.target /\ checkpoint'.digest = run.config
        /\ checkpoint'.completed = run.epoch
    BY <1>6 DEF CheckpointOfRun
  <2>2. weights # Absent => weights.completed <= run.epoch
    BY <1>6, <1>a DEF IInv, LedgerOrder
  <2> QED
    BY <1>6, <1>a, <2>1, <2>2 DEF Targets, Working
<1>7. CASE /\ pc = "finalize" /\ weights' = WeightsOfRun
           /\ UNCHANGED <<checkpoint, world>> /\ ~Working'
  <2>1. weights' # Absent /\ weights'.completed = run.epoch
    BY <1>7, <1>a, WeightsSound
  <2>2. weights'.digest = run.config
    BY <1>7 DEF WeightsOfRun
  <2>3. checkpoint # Absent => checkpoint.target = run.target
    BY <1>7, <1>a DEF IInv, LedgerOrder
  <2>4. RunsToTarget(run.config) =>
          run.epoch = run.target /\ run.target >= run.config.epochs
    BY <1>7, <1>a, TargetEnds DEF Targets, Working
  <2> QED
    BY <1>7, <2>1, <2>2, <2>3, <2>4 DEF Targets
<1>8. CASE SaveCheckpoint \/ SaveCheckpointFails
  BY <1>4, <1>6, <1>8
  DEF SaveCheckpoint, SaveCheckpointFails, End, Working
<1>9. CASE PublishWeights \/ PublishFails
  BY <1>4, <1>7, <1>9 DEF PublishWeights, PublishFails, End, Working
<1>10. CASE RemoveCheckpoint \/ RemoveCheckpointFails
  BY <1>4, <1>5, <1>10 DEF RemoveCheckpoint, RemoveCheckpointFails, End, Working
<1>11. CASE EvaluateOnly \/ ReportEpoch \/ ObservePlain \/ ObserveEarly
  BY <1>4, <1>11, <1>a, QuietSteps DEF End, Working
<1>12. CASE TrainEpoch
  BY <1>4, <1>12, <1>a, EpochMemory DEF TrainEpoch, Working
<1>13. CASE \/ StartReconcile \/ PublishRefused \/ EpochFails \/ Crash
            \/ Signal \/ EditProject \/ UNCHANGED vars
  BY <1>4, <1>13 DEF StartReconcile, Begin, PublishRefused, EpochFails, Crash,
                     End, Signal, EditProject, vars, Working
<1> QED
  BY <1>1, <1>2, <1>3, <1>8, <1>9, <1>10, <1>11, <1>12, <1>13
  DEF Next, Start, Step, Failure

(* An interrupted command has just saved what it has trained.               *)
LEMMA InterruptionStep ==
  ASSUME HistoryIInv, [Next]_vars
  PROVE  Interruption'
<1>a. IInv /\ Interruption /\ run \in Run
  BY DEF HistoryIInv, IInv, TypeOK
<1> DEFINE Caught == pc = "notify" /\ run.caught =>
                       /\ EarlyStopping(run.config)
                       /\ checkpoint # Absent
                       /\ checkpoint.completed = run.epoch
           Covered == /\ checkpoint # Absent
                      /\ weights # Absent =>
                           /\ weights.completed <= checkpoint.completed
                           /\ ~EarlyStopping(checkpoint.digest) =>
                                weights.completed < checkpoint.target
<1>b. /\ Caught
      /\ result = "interrupted" => pc = "idle" /\ Covered
  BY <1>a DEF Interruption
<1>1. CASE SaveCheckpoint
  <2>1. pc = "save" /\ checkpoint' = CheckpointOfRun /\ UNCHANGED <<weights, world>>
    BY <1>1 DEF SaveCheckpoint
  <2>2. /\ checkpoint' # Absent /\ checkpoint'.completed = run.epoch
        /\ checkpoint'.target = run.target
    BY <1>a, <2>1, CheckpointSound DEF CheckpointOfRun
  <2>3. /\ weights # Absent => weights.completed < run.epoch
        /\ run.epoch <= run.target
    BY <1>a, <2>1 DEF IInv, LedgerOrder, RunShape
  <2>4. Covered'
    BY <1>a, <2>1, <2>2, <2>3, TargetTypes
  <2>5. CASE run.caught /\ ~EarlyStopping(run.config)
    BY <1>1, <2>4, <2>5 DEF SaveCheckpoint, End, Interruption
  <2>6. CASE ~(run.caught /\ ~EarlyStopping(run.config))
    <3>1. UNCHANGED <<run, result>>
      BY <1>1, <2>6 DEF SaveCheckpoint
    <3> QED
      BY <1>b, <2>1, <2>2, <2>6, <3>1 DEF Interruption
  <2> QED
    BY <2>5, <2>6
<1>2. CASE EvaluateOnly \/ ReportEpoch \/ ObservePlain \/ ObserveEarly
  <2>1. /\ UNCHANGED <<weights, checkpoint>> /\ Working
        /\ \/ UNCHANGED result
           \/ End("interrupted") /\ pc = "notify" /\ run.caught
    BY <1>2, <1>a, QuietSteps
  <2>2. CASE End("interrupted") /\ pc = "notify" /\ run.caught
    <3>1. /\ checkpoint # Absent /\ checkpoint.completed = run.epoch
          /\ EarlyStopping(run.config)
      BY <1>b, <2>2
    <3>2. /\ checkpoint.digest = run.config
          /\ weights # Absent => weights.completed <= run.epoch
      BY <1>a, <2>2, <3>1 DEF IInv, LedgerOrder
    <3> QED
      BY <2>1, <2>2, <3>1, <3>2 DEF End, Interruption
  <2>3. CASE UNCHANGED result
    <3>1. result' # "interrupted"
      BY <1>b, <2>1, <2>3 DEF Working
    <3>2. ~(pc' = "notify" /\ run'.caught)
      BY <1>2, <1>a DEF EvaluateOnly, ReportEpoch, ObservePlain, ObserveEarly,
                        Finish, Run, End
    <3> QED
      BY <3>1, <3>2 DEF Interruption
  <2> QED
    BY <2>1, <2>2, <2>3
<1>3. CASE \/ Start
           \/ \E how \in {"success", "failed", "crashed", "rejected"} : End(how)
  BY <1>3 DEF Start, StartFresh, StartResume, StartReconcile,
              StartAdditional, Begin, End, Interruption
<1>4. CASE TrainEpoch \/ PublishWeights
  BY <1>4, <1>b DEF TrainEpoch, PublishWeights, Interruption
<1>5. CASE Signal \/ EditProject \/ UNCHANGED vars
  BY <1>5, <1>a DEF Signal, EditProject, vars, Interruption
<1>6. CASE \/ PublishRefused \/ RemoveCheckpoint \/ Failure
  BY <1>3, <1>6
  DEF PublishRefused, RemoveCheckpoint, Failure, SaveCheckpointFails,
      EpochFails, PublishFails, RemoveCheckpointFails, Crash
<1> QED
  BY <1>1, <1>2, <1>3, <1>4, <1>5, <1>6 DEF Next, Step

-----------------------------------------------------------------------------

(* The history of a project in every reachable state.                       *)
THEOREM HistoryInvariance == Spec => []HistoryIInv
<1>1. Init => HistoryIInv
  <2> SUFFICES ASSUME Init PROVE HistoryIInv
    OBVIOUS
  <2>1. pc = "idle" /\ weights = Absent /\ checkpoint = Absent /\ result = "none"
    BY DEF Init
  <2>2. OverAtFinalize /\ RunHistory /\ CheckpointHistory /\ WeightsHistory
    BY <2>1
    DEF OverAtFinalize, RunHistory, CheckpointHistory, WeightsHistory, Working
  <2>3. RunBegan /\ CheckpointBegan /\ CheckpointIsRun /\ Targets /\ Interruption
    BY <2>1 DEF RunBegan, CheckpointBegan, CheckpointIsRun, Targets,
                Interruption, Working
  <2> QED
    BY <2>2, <2>3, InitIInv DEF HistoryIInv
<1>2. HistoryIInv /\ [Next]_vars /\ IInv' => HistoryIInv'
  <2> SUFFICES ASSUME HistoryIInv, [Next]_vars, IInv' PROVE HistoryIInv'
    OBVIOUS
  <2>1. OverAtFinalize'
    BY OverStep DEF HistoryIInv
  <2>2. RunHistory' /\ CheckpointHistory' /\ WeightsHistory'
    BY RunHistoryStep, CheckpointHistoryStep, WeightsHistoryStep
  <2>3. RunBegan' /\ CheckpointBegan' /\ CheckpointIsRun'
    BY RunBeganStep, CheckpointBeganStep, CheckpointIsRunStep
  <2>4. Targets' /\ Interruption'
    BY TargetsStep, InterruptionStep
  <2> QED
    BY <2>1, <2>2, <2>3, <2>4 DEF HistoryIInv
<1> QED
  BY <1>1, <1>2, Invariance, PTL DEF Spec

(* However a run is interrupted, resumed and refined, a persisted model     *)
(* contains every epoch it reports exactly once, in order.                  *)
THEOREM NoEpochTwice == Spec => []EpochsAppliedOnce
<1>1. HistoryIInv => EpochsAppliedOnce
  <2> SUFFICES ASSUME HistoryIInv PROVE EpochsAppliedOnce
    OBVIOUS
  <2>1. Len(<<>>) = 0
    OBVIOUS
  <2>2. WeightsHistory /\ CheckpointHistory
    BY DEF HistoryIInv
  <2> QED
    BY <2>1, <2>2 DEF WeightsHistory, CheckpointHistory, ModelSound, EndsAt,
                      EpochsAppliedOnce
<1> QED
  BY <1>1, HistoryInvariance, PTL

(* The optimizer of a checkpoint has seen all of its run and nothing else:  *)
(* from the first epoch, or from the weights that are being refined.        *)
THEOREM OptimizerContinues == Spec => []OptimizerSawWholeRun
<1>1. HistoryIInv => OptimizerSawWholeRun
  <2> SUFFICES ASSUME HistoryIInv, checkpoint # Absent,
                      ~EarlyStopping(checkpoint.digest)
               PROVE  LET seen == checkpoint.optimizer.seen
                          base == checkpoint.completed - Len(seen)
                          refining == weights # Absent /\
                                        weights.completed < checkpoint.completed
                      IN  /\ seen = [i \in 1 .. Len(seen) |-> base + i]
                          /\ weights = Absent => base = 0
                          /\ refining => base = weights.completed
    BY DEF OptimizerSawWholeRun
  <2> DEFINE seen == checkpoint.optimizer.seen
             base == checkpoint.completed - Len(seen)
  <2>1. seen \in Seq(Epoch)
    BY DEF HistoryIInv, IInv, TypeOK, Checkpoint, OptimizerState, Params
  <2>2. \A i \in 1 .. Len(seen) : seen[i] = base + i
    BY DEF HistoryIInv, CheckpointHistory, OptimizerSound
  <2>3. seen = [i \in 1 .. Len(seen) |-> base + i]
    <3> HIDE DEF seen, base
    <3>1. seen = [i \in 1 .. Len(seen) |-> seen[i]]
      BY <2>1, LenProperties
    <3> QED
      BY <2>2, <3>1
  <2>4. /\ weights = Absent => base = 0
        /\ weights # Absent /\ weights.completed < checkpoint.completed =>
             base = weights.completed
    BY DEF HistoryIInv, CheckpointBegan
  <2> QED
    BY <2>3, <2>4
<1> QED
  BY <1>1, HistoryInvariance, PTL

(* No checkpoint holds an epoch after one at which the run had converged.   *)
THEOREM NothingAfterConvergence == Spec => []ConvergenceEndsTheRun
<1>1. HistoryIInv => ConvergenceEndsTheRun
  <2> SUFFICES ASSUME HistoryIInv, checkpoint # Absent
               PROVE  LET seen == checkpoint.optimizer.seen
                          verdict(i) == world[seen[i]].verdict
                      IN  /\ \A i \in 1 .. Len(seen) - 1 : verdict(i) = "none"
                          /\ checkpoint.optimizer.reason = verdict(Len(seen))
    BY DEF ConvergenceEndsTheRun
  <2> DEFINE seen == checkpoint.optimizer.seen
             n == checkpoint.completed
             k == Len(seen)
  <2>1. n \in Nat /\ k \in Nat
    BY SeenLength DEF HistoryIInv
  <2>2. /\ k # 0 /\ \A i \in 1 .. k : seen[i] = n - k + i
        /\ \A e \in n - k + 1 .. n - 1 : world[e].verdict = "none"
        /\ checkpoint.optimizer.reason = world[n].verdict
    BY DEF HistoryIInv, CheckpointHistory, OptimizerSound
  <2> HIDE DEF n, k, seen
  <2>3. \A i \in 1 .. k - 1 : /\ n - k + i \in n - k + 1 .. n - 1
                              /\ seen[i] = n - k + i
    BY <2>1, <2>2
  <2>4. seen[k] = n
    BY <2>1, <2>2
  <2> QED
    BY <2>2, <2>3, <2>4 DEF k, seen
<1> QED
  BY <1>1, HistoryInvariance, PTL

(* The model that early stopping publishes is within the minimum delta of   *)
(* the best epoch of its whole history, baseline included.                  *)
THEOREM BestIsPublished == Spec => []SelectedModelIsBest
<1>1. HistoryIInv => SelectedModelIsBest
  BY DEF HistoryIInv, WeightsHistory, BestOf, SelectedModelIsBest
<1> QED
  BY <1>1, HistoryInvariance, PTL

(* Between commands, some training command goes on from the files of a run  *)
(* that only its target can end, whatever has failed or crashed.            *)
LEMMA SomeCommandAccepted ==
  ASSUME HistoryIInv, RunsToTarget(project),
         weights # Absent => InUse(weights),
         checkpoint # Absent => InUse(checkpoint)
  PROVE  FreshAccepted \/ AdditionalBaseline \/ ResumePlain \/ ResumeFinalized
<1>a. /\ IInv /\ Targets /\ WeightsHistory /\ CheckpointHistory
      /\ ~EarlyStopping(project)
  BY DEF HistoryIInv, RunsToTarget, EarlyStopping
<1>b. /\ weights # Absent =>
           /\ weights.digest = project
           /\ weights.completed >= project.epochs
      /\ checkpoint # Absent =>
           /\ checkpoint.digest = project
           /\ weights = Absent => checkpoint.target = project.epochs
  BY <1>a DEF InUse, Targets
<1>1. CASE weights = Absent /\ checkpoint = Absent
  BY <1>1 DEF FreshAccepted
<1>2. CASE weights # Absent /\ checkpoint = Absent
  BY <1>b, <1>2 DEF AdditionalBaseline, WeightsComplete
<1>c. checkpoint # Absent =>
        /\ ResumeLoads
        /\ checkpoint.completed <= checkpoint.target
  BY <1>a, <1>b, TargetTypes DEF ResumeLoads, IInv, FilesInv
<1>3. CASE weights = Absent /\ checkpoint # Absent
  BY <1>a, <1>b, <1>c, <1>3 DEF ResumePlain
<1>4. CASE weights # Absent /\ checkpoint # Absent
  <2>1. weights.completed = checkpoint.completed =>
          checkpoint.params = weights.params
    BY <1>a, <1>b, <1>4 DEF WeightsHistory, CheckpointHistory, ModelSound
  <2>2. CASE weights.completed = checkpoint.target
    BY <1>a, <1>b, <1>c, <1>4, <2>1, <2>2 DEF ResumeFinalized
  <2>3. CASE weights.completed # checkpoint.target
    <3>1. /\ weights.completed <= checkpoint.completed
          /\ weights.completed < checkpoint.target
      BY <1>a, <1>b, <1>c, <1>4, <2>3, TargetTypes DEF Targets
    <3> QED
      BY <1>a, <1>b, <1>c, <1>4, <2>1, <3>1 DEF ResumePlain
  <2> QED
    BY <2>2, <2>3
<1> QED
  BY <1>1, <1>2, <1>3, <1>4

(* An interruption leaves a checkpoint.                                     *)
LEMMA InterruptionSaved ==
  ASSUME HistoryIInv, result = "interrupted"
  PROVE  checkpoint # Absent
  BY DEF HistoryIInv, Interruption

(* One of the present project is accepted by resume.                        *)
LEMMA InterruptionResumes ==
  ASSUME HistoryIInv, result = "interrupted", checkpoint.digest = project,
         ~project.converges
  PROVE  ResumePlain \/ ResumeEarly
<1>a. /\ IInv /\ Targets /\ Interruption /\ WeightsHistory /\ CheckpointHistory
  BY DEF HistoryIInv
<1>b. /\ checkpoint # Absent /\ checkpoint.digest = project
      /\ weights # Absent =>
           /\ weights.digest = project
           /\ weights.completed <= checkpoint.completed
           /\ ~EarlyStopping(project) => weights.completed < checkpoint.target
      /\ weights = Absent => checkpoint.target = project.epochs
  BY <1>a, InterruptionSaved
  DEF Interruption, Targets, IInv, FilesInv, OneProvenance
<1>1. ResumeLoads
  BY <1>b DEF ResumeLoads
<1>2. CASE EarlyStopping(project)
  BY <1>b, <1>1, <1>2 DEF ResumeEarly
<1>3. CASE ~EarlyStopping(project)
  <2>1. weights # Absent =>
          /\ weights.completed >= project.epochs
          /\ weights.completed = checkpoint.completed =>
               checkpoint.params = weights.params
    BY <1>a, <1>b, <1>3 DEF Targets, RunsToTarget, EarlyStopping,
                            WeightsHistory, CheckpointHistory, ModelSound
  <2> QED
    BY <1>b, <1>1, <1>3, <2>1 DEF ResumePlain
<1> QED
  BY <1>2, <1>3

(* No sequence of failures, crashes and signals leaves a project that       *)
(* training can no longer continue, and an interruption is never reported   *)
(* without a checkpoint to continue from.                                   *)
THEOREM Continuable == Spec => []AlwaysContinuable
<1>1. HistoryIInv => AlwaysContinuable
  BY SomeCommandAccepted, InterruptionSaved, InterruptionResumes
  DEF AlwaysContinuable
<1> QED
  BY <1>1, HistoryInvariance, PTL
=============================================================================
