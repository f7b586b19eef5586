# Verification of neural-c

TLA+ models of neural-c (a C command-line program that trains, stores and uses
small feed-forward networks), TLC configurations that check them on small
instances, and TLAPS proofs of what matters most. Source paths below are
relative to the repository; most files are in `src/`.

Contents: [system](#1-the-system), [models](#2-models),
[runs and bounds](#3-runs), [fairness](#4-fairness), [proofs](#5-proofs),
[disagreements found](#6-where-code-and-documentation-disagree),
[not modelled](#7-what-is-not-modelled), [plan](#8-plan).

## 1. The system

| Component | State it keeps | Operations | What makes it correct |
|---|---|---|---|
| **Project training** (`train_project.c`, `project_checkpoint.c`, `training.c`) | `weights.txt`, `checkpoint.txt`; in memory the model, optimizer, best model, epoch, target | fresh run, `--resume`, `--additional-epochs N`, epoch loop, observers, finalization | no epoch is repeated or lost, whatever is interrupted; both files belong together; finished models replace old ones, unfinished ones never do |
| **Worker pool** (`executor.c`, `parallel.c`, `batch.c`) | per worker a flag, a task, a context; `pending_worker_count`, `stopping`, `synchronization_failed` under one mutex | create, batch gradient in waves, worker loop, free | results independent of thread count and schedule; no lost wakeup; shutdown joins all |
| **Optimizer** (`optimizer.c`) | step count, buffers, learning-rate schedule, convergence counters | create, step, observe an epoch, restore | a resumed optimizer continues as if never stopped; schedules and limits act at the right epoch |
| **Persistence formats** (`persistence.c`, `parse.c`) | text files, versions 1 to 3 | write, read, validate | what is written is read back; what is inconsistent is refused |
| **Project files** (`init.c`, `data_import.c`) | six managed and four imported files, staged and backup files | `init`, `init --force`, the installation of `import-csv` | all or nothing; old files survive a failure |
| **CSV import** (`data_import.c`) and **preprocessing** (`preprocessing.c`) | the rows of a CSV file, its schema, their digests, the split, the transform and `preprocessing.txt` | read, split, fit, apply, write, load | what is installed is one content of the source; the split has the counts asked for; held-out rows have no part in the statistics; a prediction prepares its inputs as the import did |
| **Project lock** (`project_lock.c`) | `.neural-c.lock` and the advisory lock on its inode | acquire, release, discard | one writer or several readers |
| Atomic file writes (`atomic_file.c`) | a temporary file | write, remove, each with directory sync | old or new content, never a mix |
| **Prediction**, evaluation (`predict_project.c`, `input_document.c`, `main.c`, `evaluation.c`) | a snapshot read under the shared lock, one pair of buffers, worker threads, a staged answer | load, read a batch, prepare, answer in threads, stage, copy | the files read belong together; the answer is complete and in order, or absent, for any threads and batches |
| **Configuration** (`project.c`, `init.c`, with `activation.c` and `loss.c`) and **digests** (`digest.c`, `sha256.c`) | `project.conf`, `model.txt`, the three digests in saved files | write, read line by line, validate, hash, compare | a file means what its user asked for or is refused; saved parameters are continued only with what they were made with |
| Network mathematics (`model.c`, `dense.c`, `backprop.c`, ...) | parameters, gradients | arithmetic | IEEE arithmetic |
| Command line (`main.c`, `cli_options.c`) | options, the signal flag | dispatch, reports | input and output |

How they interact. `main.c` installs signal handlers that only set a
`sig_atomic_t`, takes the exclusive lock (through the project functions) and
calls `train_project.c`, which loads the project, decides from the two files
whether the command is acceptable, and runs the epoch loop of `training.c`. The
loop asks the pool for the gradient of each batch, steps the optimizer, reports
the epoch to the optimizer's schedule and then calls an observer, which selects
the best model (early stopping), reads the signal flag once and saves a
checkpoint. After the loop `train_project.c` publishes `weights.txt` and removes
`checkpoint.txt`, in this order. `init` and `import-csv` replace the inputs of
all this under the same lock; prediction reads under the shared lock.

What is hard: the two files after any sequence of interruptions, failures,
crashes, edits, refinements and resumes; the interleaving of coordinator and
workers with spurious wakeups and failing synchronization calls; the lifetime of
the lock file's inode; a file installation that stops between two renames; the
equivalence of a resumed and an uninterrupted run through a text format; sources
that are edited while they are imported; integer arithmetic at the limits of
`size_t` and statistics that are rounded, overflow or underflow. `PROJECT.json` lists each hazard with its
line and the properties that cover it.

## 2. Models

Each model abstracts data to what its properties distinguish. Operators named
`...Unchecked`, `...Late`, `Resume...` etc. under a comment "Mutant:" are
deliberately broken versions of a definition: for each property one of them shows that the
property can fail. They are used by no specification.

### Training: `TrainProject`, `TrainProperties`, `TrainHistory`, `TrainingFiles`

`TrainProject` is one project directory with its two files and one running
command (the exclusive lock is `ProjectLock`'s subject). `pc` is the place in
the code: `train` (the batches of an epoch and `observe_epoch`), `observe` (the
observer up to its decision to save), `save`, `notify` (the rest of the
observer and the loop's end test), `finalize` (publication of weights), `remove`
(of the checkpoint). A model's parameters are the sequence of absolute epochs
whose updates they contain: sample order and batches depend only on
configuration and epoch index, so equal sequences are equal parameters. `world`
draws the loss and convergence verdict of each epoch once, so that a repeated
epoch repeats its outcome, as the deterministic program does.

| Code | Action or operator |
|---|---|
| acceptance tests in `neural_project_train_{fresh,resume,additional}_controlled` | `FreshAccepted`, `ResumePlain`, `ResumeEarly`, `ResumeFinalized`, `AdditionalAccepted` |
| loading and start of the loop | `StartFresh`, `StartResume`, `StartReconcile`, `StartAdditional` |
| `train_range` with nothing left to do | `EvaluateOnly` |
| an epoch of `train_range` | `TrainEpoch`, `EpochFails` |
| `neural_project_checkpoint_observe`, `observe_early_stopping` | `ObservePlain`, `ObserveEarly`, `SaveCheckpoint(Fails)`, `ReportEpoch` |
| `save_completed_weights`, `neural_early_weights_save_atomic` | `PublishWeights`, `PublishRefused`, `PublishFails` |
| `neural_atomic_file_remove` | `RemoveCheckpoint(Fails)` |
| signal handler, process death, the user's editor | `Signal`, `Crash`, `EditProject` |

A failed atomic write leaves the old file (failure before the rename) or the
new one (the directory sync failed): both outcomes are taken.

`TrainingFiles` is the abstract specification: a ledger of `stable` (finalized)
and `recoverable` (checkpointed) epochs, where progress on disk is given up only
when a finalized model covers it. `TrainProperties!ImplementsLedger` states that
`TrainProject` implements it. `TrainHistory` holds the invariants its proofs need.

### Worker pool: `Executor`, `ExecutorProperties`, `SerialBatches`

All shared fields are accessed under the pool's mutex, so a critical section
(lock to unlock or wait) is one action; gradients are computed outside. The
coordinator creates threads one by one (any may fail), dispatches waves of at
most `WorkerCount` tasks, sleeps until `pending` is zero, collects, reduces, and
frees the pool at any time between batches. A gradient is the pair of its sample
and of the model version it was computed with; `bad` samples give a non-finite
gradient. Both waits may wake spuriously, and lock, wait, unlock and broadcast
calls may fail, which ends in `broken`. `SerialBatches` is the abstract
specification: whole batches, in logical order, from current parameters, as one
thread would compute them.

### Optimizer and persistence: `Optimizer`, `Persistence`, `Continuation`

`Optimizer` translates `optimizer.c`: state as a record, `Observed` as the
epoch's transition with saturating arithmetic, `CanObserve` as its error
returns. A learning rate and Adam's beta powers are the number of factors below
one applied so far; from `NormalPowers` on a double is subnormal, from
`NonzeroPowers` on it is zero. `Persistence` writes and reads the files as
sequences of keyed lines in file order, with versions, optional lines and every
acceptance rule; a reader compares the keys with those it expects from the flags
it has read, as `persistence.c` does. `Continuation` composes both: a run that
trains, saves, stops and resumes in any order, beside a `shadow` optimizer that
sees the same losses without interruption.

### Files and split: `ProjectFiles`, `ImportSplit`

`ProjectFiles` runs `init`, `init --force` and `import-csv` as scripts. A script is
the set of the file operations that are left to do, each the pair of an operation and a
file, and `Turn` is the order of the source: `init` does one kind of operation for all
files before the next, an import backs up and places file by file, synchronizes the
directory and discards the backups. Each operation may fail (which replaces the rest of
the script by the rollback the code would do, an import's backwards), be the last before a
crash, or have its failure ignored where the code casts it to void. A file's
content is the number of the command that wrote it. Temporary names belong to
`init` (fixed names) or to a process id, which the system may use again.
Training and archiving are included as they decide what an import may do.

`ImportSplit` is `create_split` with the quota division of
`multiply_divide_size` bit by bit in wrapping `size_t` arithmetic and the
largest-remainder allocation place by place, for the test and then the
validation samples.

### CSV import: `DataImport`, `CsvLine`, `CsvSchema`, `Preprocessing`, `BinaryFloat`, `Selection`, `ImportProperties`

`DataImport` is `neural_data_import_csv` from its checks to the installation
(one step here; its failures are `ProjectFiles`'). It extends `ImportSplit`, whose steps run
between the reading of the rows and the assignment of each row to a part.

| Code | Action or operator |
|---|---|
| checks of model, loss and existing parameters | `Begin` |
| `digest_file`, at the start and at the end | `DigestLine`, `DigestFiles`; `DigestLine`, `CompareFiles` |
| `schema_load`, `schema_validate` | `ReadSchema` (`CsvSchema!LoadSchema`) |
| `csv_load`, `parse_csv_line` | `ReadHeader`, `ReadRow`, `EndRows` (`CsvLine!ParseCsvLine`) |
| `neural_loss_validate_targets`, start of `create_split` | `BeginSplit` |
| `allocate_stratified_counts`, `shuffle_indices`, assignment | `Split` with `ImportSplit!Next`, `Orders`, `Assigned` |
| `fit_preprocessing`, `neural_preprocessing_validate`, `_apply` | `Fit` (`Preprocessing`) |
| `write_dataset`, `neural_preprocessing_write`, `install_files` | `Install` (`Preprocessing!WriteMetadata`) |
| the owner of the source, who takes no lock | `EditCsv`, `EditSchema` |

A pass over the CSV file is a step per line, so that an edit may fall between two lines and a
pass may see parts of two contents; the schema is read in one step, as it is
shorter than a buffer. A digest is the content it was made of. `CsvLine` is the scanner that
decodes quoted fields in the buffer it reads from, with its read and write
positions; beside it stands `FieldsOf`, what a line says without a scanner.
`CsvSchema` reads a schema line by line; beside it stands `Describes`, what a
complete schema is. `BinaryFloat` is binary floating point at a small
precision: rounding to nearest even, subnormals and overflow; `Preprocessing`
computes in it, so that a rounded mean, a variance that underflows and a
range that overflows occur. `Selection` takes the rows of a part in the order of the file,
as `write_dataset` and `fit_preprocessing` do, as a recursive function, which can be reasoned
about, and so are the sums of `Preprocessing`. A ratio is the count `ratio_count` gives for it, and the
generator of the shuffle gives any order.

### Prediction: `Prediction`, `PredictionDocument`

`Prediction` runs `predict` with arguments or `--input`, and `evaluate`, after
the snapshot is loaded (`ProjectLock`, `ProjectSettings` and `TrainProject` model what a
snapshot is made of). `place` is where the main thread is.

| Code | Action |
|---|---|
| `neural_input_document_open`, header; arguments; dataset | `OpenDocument`, `TakeAll` |
| `neural_input_document_read` | `ReadBatch` |
| `neural_prediction_prepare_inputs` | `Prepare` |
| `neural_execution_plan_create`, creation of threads | `Plan`, `Create`, `CreateFails`, `AllCreated` |
| `prediction_worker_run`, a sample | `Work` |
| joining, the lowest failed sample, clean-up after a refusal | `Join`, `Settle`, `Abandon` |
| `write_prediction_samples`, end of the document | `Stage`, `Finish`, `Write` |
| `neural_evaluation_compute` | `Evaluate` |
| `copy_stream` and the output calls | `Show`, `Done` |

An output is the line of the request it was computed from, so that an answer
left over from an earlier batch or of another sample shows. `printed` is what was
handed to the C library's stream; the command does not flush it (section 6).
`RequestAssumption` types a request: sizes and thread counts are validated positive
numbers, and a loaded dataset has no missing inputs.
`PredictionDocument` is the abstract specification: a request is answered with
the whole answer or refused, and a refusal names the first sample that fails in its way.
What number the refusal gives to a sample of a later batch of a document is left open,
since it is not the promised one (section 6).

### Settings: `Configuration`, `Architecture`, `Fingerprint`, `ProjectSettings`

`Configuration` has the settings of `project.conf` with the loader's defaults,
the values it reads for each key, the validation of the whole, the loader as a
recursive function of the lines read so far (`ConfigReaders`) and the writer of `init` (`WriteConfig`), which
leaves out what the optimizer and schedule do not use. `Architecture` does the
same for `model.txt`. A real number is a number of halves: the values below zero,
zero, between zero and one, and one are what the rules tell apart. `Fingerprint`
has the streams of items that `digest.c` hashes, and, taken from the code that
trains (`train_range`, the optimizer, the observer), which settings are made use of.
`ProjectSettings` is a project that `init` has written, in which any line, layer
or data file is changed, added, repeated, removed or moved before and after a
training run; a command then loads the project, compares digests and continues.
`asked` is a history variable with the settings the user means by the edits.

### Lock: `ProjectLock`

Every system call of acquire, release and discard is a step on inodes, run by
`init`, `init --force`, an importing writer and a reader, with crashes anywhere.
The two files of a project stand for all files that must be read together.

### What composes what

`TrainProject` and `Continuation` are two views of training: the first has all
the control (files, commands, failures) with an abstract optimizer, the second
the optimizer and the formats in full with a plain stop and resume. `ProjectLock`
justifies the single command of `TrainProject` and `ProjectFiles`; its
`lock_discard` run shows the one case in which that fails (section 6).
`ProjectSettings` justifies that `TrainProject` compares one `project` value where
the code compares three digests. `DataImport` composes `ImportSplit`, `CsvLine`,
`CsvSchema` and `Preprocessing`; `ProjectFiles` takes its installation apart.

## 3. Runs

Passing runs:

| Run | Bounds | Shows |
|---|---|---|
| `train` | three configurations (to the target with periodic saves; early stopping with patience 2; convergence controls), 3 losses, epochs up to 5, refinements of 1 or 2 epochs, 2 faults | types (no epoch overflow), `EpochsAppliedOnce`, `OptimizerSawWholeRun`, `ConvergenceEndsTheRun`, `SelectedModelIsBest`, `OneProvenance`, `AlwaysContinuable`, `BaselineKeptUntilDone`, the ledger, `InterruptedRunFinishes` |
| `executor` | 3 workers, 5 shuffled samples, batches of 4 and 1, 2 requests, no, one or two bad samples | types, `CallerOwnsModel`, `FirstFailureReported`, refinement of `SerialBatches`, `CallsReturn`; deadlock is checked |
| `lock` | 3 commands of any kind, directory present or not | types, `ExclusiveUntilDiscard`, `CoherentView` |
| `install` | 4 commands, 2 faults, 2 process ids | types, `AllOrNothing` (success installs one set, failure restores the old one), `CoherentData`, `NothingLost` |
| `continuation` | 10 configurations, 3 losses, 5 epochs, `SizeMax` 6, subnormal after 4 factors, zero after 5 | types, `ResumeIsTransparent`, `ControlsFollowHistory` (learning rate and convergence are those of the losses seen), `SavedFilesReload` |
| `import` | every line of up to 6 characters of quote, comma, digit and question mark; files of up to 3 rows with every order, ratio, normalization and policy; 2 schemas with every line left out, repeated, exchanged or replaced; 1 edit; files of up to 9 rows in up to 3 classes with all counts; 4-bit `size_t`, floats of 3 bits | types (datasets exactly after success, a row of each class trained on), `QuotaIsExact`, `SplitAsDocumented`, `ReadAsWritten`, `InstalledIsRecorded` (the contents whose digests are recorded), `FittedOnTrainingRows`, `PreparedAlike`, `ImportEnds`; deadlock is checked |
| `predict` | documents of up to 3 arbitrary lines, of 4 and 5 samples; batches of 1 to 5, 1 to 3 threads; refused threads, failing output; the same as arguments and datasets | types (threads run only while the main thread waits for them), refinement of `PredictionDocument` (not the number a failure gives to a sample of a later batch), `PredictionEnds` |
| `settings` | 4 initialized projects (every optimizer and schedule, early stopping, convergence, regularization), 59 lines that may be written, 6 models, 3 data sets, 2 edits | types (batches fit the data), `ContinuedAlike`, `FilesMeanWhatWasAsked` |

Why the bounds are enough. In `train`, a target of 3 with limit 5 allows a
fresh run, an interruption, a resume and a refinement that meets the limit; two
faults allow a failure during the recovery from a failure; the number of
commands is not bounded. In `executor`, 3 workers and a batch of 4 give a full
wave, a partial wave and a batch smaller than the pool. In `install`, 4 commands
are init, import, a failed or dead import, and one that meets its leftovers. In
`continuation`, plateau patience 2 with 5 epochs gives two transitions, a step
interval of 5 meets `SizeMax`, and the rate reaches zero. In `import`, products
of 9 rows exceed 15, and one-row classes force several rounds; six characters
hold a quoted field with a doubled quote between separators; three rows with
three bits of precision round a mean, and the values include one whose sum overflows and
one whose square vanishes. One edit is the bound there on purpose: with two, a pass over the file can see
a first content again in parts of two others, which two digests cannot tell, and
a file that was changed and restored is not told apart either. In `predict`, five samples and three threads give
workers with two samples, with one and a batch smaller than the threads; batches of
two leave a last batch of one. In `settings`, two edits are
what a mistake takes: one that brings a setting into use or out of it, and one
that changes it; every key has a line, and most kinds of values one that is
refused. Deadlock is not checked where the system rightly stops: when the user starts no further command,
when the bounded commands are used up, or when a prediction has ended.

Runs that end in a counterexample are described in section 6.

## 4. Fairness

- `TrainProject!FairSpec`: weak fairness of `Step`: a running command is not
  suspended for ever and has no wait inside; weak fairness of
  `StartResume \/ StartReconcile`: the assumption about the user that
  `InterruptedRunFinishes` is about. Nothing is assumed of signals, failures and
  edits; failures and crashes are bounded by `MaxFaults`, signals are not: each
  interruption still saves at least one more epoch.
- `Executor!FairSpec`: weak fairness of the coordinator and of each worker: the
  system schedules all threads. A critical section is one action, so this
  includes that a free mutex is obtained. Spurious wakeups, faults, requests and
  the call of free are not fair.
- `DataImport!ImportSpec`: the import, a sequential program, goes on whatever its
  owner edits. It is weak fairness of `Import`, which is enabled until the import has
  ended (the run checks for deadlocks, with `Stop` as the only step of an ended import),
  written without `ENABLED`.
- `Prediction!Spec`: weak fairness of the main thread and of each worker.
- `ImportSplit!Spec`, which the proofs are about: weak fairness of its next step.

## 5. Proofs

All proofs are checked by TLAPS with SMT, Zenon and LS4.

`TrainProofs`, for all configurations, losses, bounds and refinements
(assumptions `ConfigAssumption`, `AbsentAssumption`, `LedgerAssumption`, which
only type the constants and keep `Absent` apart):

| Theorem | Statement |
|---|---|
| `Invariance` | `Spec => []IInv` |
| `TypeCorrect` | `Spec => []TypeOK` |
| `FilesShareProvenance` | `Spec => []OneProvenance` |
| `LedgerImplemented` | `Spec => ImplementsLedger` |
| `BaselineKept` | `Spec => BaselineKeptUntilDone` |

`IInv` is `TypeOK /\ KnownRun /\ RunShape /\ FilesInv /\ LedgerOrder`. None of the
properties is inductive alone. Types need `KnownRun` (every epoch that a model
ends with has an outcome, else the selection would read one that does not exist)
and `RunShape` (what memory holds at each place: a configuration, a best model
after the first observation, epochs within the target). That weights and
checkpoint share their digests needs `LedgerOrder`: while a command runs, files
that exist carry the configuration the command was started with, even when
`project` has been edited since, and their epochs are ordered with the run's,
which also gives the steps of the ledger. One lemma per action shows
that it preserves `IInv`; the theorems follow by temporal logic.

and, on top of `IInv`, in the same module:

| Theorem | Statement |
|---|---|
| `HistoryInvariance` | `Spec => []HistoryIInv` |
| `NoEpochTwice` | `Spec => []EpochsAppliedOnce` |
| `OptimizerContinues` | `Spec => []OptimizerSawWholeRun` |
| `NothingAfterConvergence` | `Spec => []ConvergenceEndsTheRun` |
| `BestIsPublished` | `Spec => []SelectedModelIsBest` |
| `Continuable` | `Spec => []AlwaysContinuable` |

`HistoryIInv` adds to `IInv` the history of the three places that hold a model
(`RunHistory`, `CheckpointHistory`, `WeightsHistory`): its parameters are those of all
epochs up to its last one (or an increasing part of them that ends at the selected
epoch), its optimizer saw the last of these and converged at none but the very last, and
no epoch beats its best model. Where the optimizer began (`RunBegan`,
`CheckpointBegan`) cannot be said of one file alone: weights that are published while
their checkpoint is not yet removed are no baseline of it, which is told by the target
or the reason the optimizer carries. `Targets` and `Interruption` relate the two files
to the result of the last command: a stop request that was read is reported only with the
checkpoint of its epoch on disk, so that there is one after an interruption, and that
resume accepts it (`AlwaysContinuable`) is a case analysis of the acceptance tests. The lemma `HistoryKept` lets the outcome of a new epoch be
added to `world` without a change to what is known of the earlier ones.

`ExecutorProofs`, for any number of workers and samples, any batch size and order
(`PoolAssumption`):

| Theorem | Statement |
|---|---|
| `PoolInvariance` | `Spec => []PoolIInv` |
| `PoolTypeCorrect` | `Spec => []TypeOK` |
| `CallerOwns` | `Spec => []CallerOwnsModel` |
| `FirstFailure` | `Spec => []FirstFailureReported` |
| `SerialImplemented` | `Spec => ImplementsSerial` |

`PendingCountsBusy` says that `pending` is the number of workers that have a task or
compute one; it holds even after the pool has given a wave up, and gives
`CallerOwnsModel` and that the count never wraps. `PlanFollowed` places the wave in the batch and the
batch in the plan, `WaveComputed` says that a worker of the wave that is not busy holds
the result of its task, and `ReducedInOrder` that the sum is made of the gradients of the
batch's first samples, in order, of the current parameters. The refinement follows: the
step that updates the model is the step of `SerialBatches`, all others stutter.

`ProjectLockProofs`, for any set of commands (`CommandAssumption` keeps two values apart from it):

| Theorem | Statement |
|---|---|
| `LockInvariance` | `Spec => []LockIInv` |
| `LockTypeCorrect` | `Spec => []TypeOK` |
| `LockExcludes` | `Spec => []ExclusiveUntilDiscard` |
| `ReadersCoherent` | `Spec => []CoherentView` |

Exclusion needs three facts: a command under the lock holds it in the mode of what it
does (`HoldersHold`), the system never admits conflicting holders of one inode
(`LocksCompatible`), and until a discard all descriptors refer to the inode that has the
name (`OneInode`). `FilesCoherent` then says that the files belong together except while
a writer is between them.

`ProjectFilesProofs`, for all bounds (`BoundAssumption`):

| Theorem | Statement |
|---|---|
| `FilesInvariance` | `Spec => []FilesIInv` |
| `FilesTypeCorrect` | `Spec => []TypeOK` |
| `ReplacedOrRestored` | `Spec => []AllOrNothing` |
| `DataOfOneImport` | `Spec => []CoherentData` |
| `LostOnlyWhenReplaced` | `Spec => NothingLost` |

As long as nothing failed, the script is the last part of the whole script
(`ScriptSound`), so that each file's content, backup and staged file follow from which of
its own operations are still to be done (`ForwardSound`). A rollback is described by
its end: `Outcome` is what becomes of a file when the remaining operations of the
rollback are done, and `RollbackSound` says that this is what the file was before the
command, whichever operation failed; an operation of the rollback keeps the
outcome, and when none is left the outcome is the file.

`PredictionProofs`, for any requests (`RequestAssumption`):

| Theorem | Statement |
|---|---|
| `PredictionInvariance` | `Spec => []PredictionIInv` |
| `PredictionTypeCorrect` | `Spec => []TypeOK` |
| `DocumentImplemented` | `Spec => ImplementsDocument` |

`WorkSound` is about the threads: with `p` threads, a sample's worker is the remainder of
its index by `p`, and a worker has answered every sample of its own before its next one, or all
of them when it has ended without failure. The lemmas `Workers`, `NextRemainder` and `SameRemainder`
give that a worker's next sample is `p` later with none of its own between. From this follows
that the batch is complete when all threads are joined, and that the least sample at
which one stopped is the first of the batch that has no answer. `BatchSound` and
`DocumentSound` place the batch in the document (all batches but the last have the full
size, so that a later batch lies beyond the first `batch` samples), `OutputSound` says that what is
staged are the answers to all earlier batches. Each failure is then one the abstract
specification allows, and each output call shows one more part of its answer.

`ContinuationProofs`, for any settings, losses and precision of the powers
(`RangeAssumption`, `SettingAssumption`: validated options and a positive target;
`NoneAssumption`: the mark of "nothing" is no optimizer state):

| Theorem | Statement |
|---|---|
| `ContinuationInvariance` | `Spec => []Invariant` |
| `ContinuationTypeCorrect` | `Spec => []TypeOK` |
| `ResumedRunIsTheRun` | `Spec => []ResumeIsTransparent` |
| `FilesReload` | `Spec => []SavedFilesReload` |
| `HistoryControlsTheRun` | `Target < SizeMax`: `Spec => []ControlsFollowHistory` |

`ResumeIsTransparent` is not inductive: what a resumption restores depends on what was
written, possibly many epochs and stops ago. `Invariant` therefore says of memory and of the
checkpoint alike that they belong to the history: the optimizer in memory is the `shadow`
(or the parts of it that a kind without state needs), and the file was written from the
optimizer that the shadow was after the file's epochs. The rest is a round trip: the lemmas
about `Persistence` show for every state, line by line, that a written file has the keys the
reader expects from its flags and gives the state back. `HistoryControlsTheRun` is by
induction over the losses: the optimizer's counters are the functions of the history that
`ControlsFollowHistory` names. It needs a target below `SIZE_MAX`, since a step schedule's
saturated next transition would be due at that very epoch; TLC shows this at
`SizeMax = Target = 6` with an interval of 4, no real run has 2^64 - 1 epochs.

`ProjectSettingsProofs`, for models of any depth, any settings, lines, data and any
number of edits:

| Theorem | Statement |
|---|---|
| `FilesAreReadAsAsked` | `Spec => []FilesMeanWhatWasAsked` |
| `SettingsTypeCorrect` | `Spec => []TypeOK` |
| `OnlyContinuedAlike` | `Spec => []ContinuedAlike` |

`SettingsAssumption` says that a project begins as `init` leaves it (validated settings, a
written model, a dataset that is not empty) and that a dataset's digest tells the dataset,
SHA-256 being taken for injective. `FilesInv` relates each line of the two files to what the
user asked for, for every kind of edit (a line changed, added, repeated, moved, one or two
dropped); with the induction over the reader it gives the first theorem. `SavedInv` says that
saved parameters carry the digests of settings that were loaded. That equal digests mean
equal use is a decoding argument over streams of any length: the training stream is
told apart section by section (`SectionCancel`), the model's layer by layer (`LayerTold`), where
no layer's stream begins another's (`NoneBeginsAnother`).

`ImportProofs`, for every width of `size_t` (`BitAssumption`: `Bits` are
the powers of two below the modulus, stated by halving). First the split alone:

| Theorem | Statement |
|---|---|
| `QuotasAreExact` | `Spec => []QuotaIsExact` |
| `SplitTypeCorrect` | `Spec => []TypeOK`: capacities never wrap, and every class keeps a row for training |
| `PlacesAreFair` | `Spec => []PlacesFair`, the part of `SplitAsDocumented` that compares classes |
| `SplitsAreAsDocumented` | `Spec => []SplitAsDocumented` |

Its loop invariant `Divided` says that quotient and remainder so far divide the
product of the class size with the prefix of the target's bits read so far. The
lemma `Addition` shows that one step of the C code is an addition modulo `rows`
whose carry enters the quotient, without an intermediate number that wraps. `Spared` says
that what is held out of a class leaves one of its rows, from which `CapacityKnown` derives
that its capacity is the difference the code means. `PlacesIInv` adds the rounds: in the round
after `k` rounds the classes that got a place have `k + 1` places beyond their quota, the
others `k` or no capacity (`InRound`), and a class that got its place had precedence over
those that wait (`Ahead`), since nothing it is compared by changes for them within a round.
`TotalsInv` counts: the quotas of the first classes together are at most the part of the
target that these classes have of the rows (`QuotasCounted`), so the "overflow" never
occurs, and classes without capacity together hold out all rows but one for each class
(`AllTaken`), so the allocation is never stuck after the refusals of `Acceptable`.

Then the whole import, for every CSV file, schema and edit:

| Theorem | Statement |
|---|---|
| `ImportTypeCorrect` | `ImportSpec => []ImportTypeOK` |
| `ImportQuotasAreExact` | `ImportSpec => []QuotaIsExact` |
| `ImportSplitsAsDocumented` | `ImportSpec => []SplitAsDocumented` |
| `ImportIsRecorded` | `ImportSpec => [](Len(csvFile) <= 2 => InstalledIsRecorded)` |
| `ImportFitsTraining` | `ImportSpec => [](Len(csvFile) <= 2 => FittedOnTrainingRows)` |
| `ImportPreparesAlike` | `ImportSpec => [](Len(csvFile) <= 2 => PreparedAlike)` |
| `ImportScansInPlace` | `ImportSpec => [](place = "rows" /\ More => Line!ScansInPlace(NextCsvLine))` |

`WordAssumption` says that words that are counts are no negative numbers and words that are
numbers finite (`parse.c:111` refuses all others), `FloatAssumption` that the powers of two are
such and have no gap, `CasesAssumption` that files are sequences of lines, fewer in a CSV file than a `size_t` counts.
`ImportInv` says what is known at every place: a schema that was accepted has columns, inputs,
targets and classes that fit each other and the project (`SchemaFits`, by induction over
its lines), so that every row read with it has the project's inputs and outputs and one of its
classes (`RowFits`); the sizes of the classes are those of the rows (`SizesSound`) and add
up to them (`RowsCounted`), so that the split begins in a state from which the first part's
invariants hold (`Starting`); and the assignment leaves each class a row to train on, since
the split held out less than all of it (`LastRowTrains`).

The next three theorems are about what is stored. `RecordedInv` follows the three passes over
the CSV file (digest, rows, digest) and the three readings of the schema. The schema is read at once
and contents do not come back, so equal digests around its loading mean that the loaded
content is the digested one, however often it is edited (`SchemaRecorded`). The CSV file is
read line by line, and a pass over a file that is edited in its middle sees lines of two contents. With
at most one edit (`Len(csvFile) <= 2`: `csvFile` holds all contents so far), either the digest is of the
first content and the rows too, or the last pass reads from the second content alone, and
equal digests then say that the rows are the second's (`PassSound`, `RowsSound`, `RowsRecorded`).
With two edits this is false: a pass over the second and third content together may read the lines
of the first, so that the digests agree while the rows are of another mixture. The restriction is what
the code gives, and an import of a file that is edited twice while it is read has no such promise.
From `RowsRecorded` follow the stored rows (`MetadataRecorded`, `StoredIs`), the
statistics (`SameStatistics`: they are the same for all rows that agree in the training rows) and the
metadata: `LinesAre` and `ReadsFields` say what is on each line of
`preprocessing.txt` and what a reader takes from it, for any number of inputs.

That the training inputs which are scaled to their extremes lie between zero and one
(`ScaledToExtremes`) is about rounding, in any precision: each of a difference and its quotient by the
rounded range is rounded, and so is the mean among whose extremes it is looked for. Rounding is monotone
(`NearestGrows`): of two numbers with the same spacing by their quotients
(`RoundsTo`), and of two with different spacings since the smaller one divides the other
(`PowerDivides`), so that what rounds with the smaller stays below what rounds with the other. Hence a difference
of finite numbers is at most the range it is divided by, the quotient rounds to at most
`One` (`DivAtMostOne`, `ScaledBetween`), and a range that overflows is refused. `ValuesSound`, inductive
beside `RecordedInv`, says that what is fitted are finite numbers or missing ones.

The last theorem is about the scanner that decodes the fields of a line in its buffer (`ScansInPlace`,
a part of `ReadAsWritten`). `ScanSound` says of each of its states that the writing position is not
ahead of the reading one, that the buffer ends with the end of the line, and that each field starts behind the
end of the one before; `Counted`, that at least every other step reads on, so that the scanner has ended after
`Steps(line)`.

Each inductive invariant was checked with TLC on the instance of its component's run before it
was proved; several of its parts were found that way (the outcome of a rollback, the two ways in which an
optimizer begins). They are not invariants of the runs, whose properties they imply.

Only model-checked: liveness and everything stated under fairness (the prover has no such
rules here) and what the lines of an import mean: of `ReadAsWritten`, that the fields found in a
line are those that it says, that a schema is accepted exactly when it is complete, and that rows are what both describe. A recursive function can be
reasoned about (the proofs above derive its equations from the induction over the naturals as a
set), but what the scanner and the schema are compared with is built with `SelectSeq`, which takes an operator
and which no prover here expands.

## 6. Where code and documentation disagree

Each is a run with `expect: violation`; TLC prints the behaviour.

- `train_success`: a refinement of an early-converged model that reaches its own
  target below `epochs` ends well but writes version 1 weights
  (`train_project.c:65`) that prediction (`predict_project.c:87`) and further
  refinement refuse.
- `train_finalize`: with early stopping, a crash between publication and removal
  leaves weights that are ahead of the checkpoint if an earlier checkpoint was
  the last, and resume refuses the pair (`train_project.c:843`).
- `lock_discard`: a failed `init` of a directory it made unlinks the lock file
  while others use or open it, and two writers run together
  (`project_lock.c:131`).
- `continuation_subnormal`: once Adam's beta1 power is subnormal (after about
  6723 steps with the default 0.9) every checkpoint is written but cannot be
  read: `parse.c:111` refuses `ERANGE`, which `strtod` sets for subnormal
  numbers. A binary built from the source shows the same.

`AlwaysContinuable` is stated for the cases outside `train_success` and
`train_finalize`: that some command goes on, for runs that only their target can end; that resume accepts
the checkpoint of an interruption, outside convergence controls and unless the project was
edited. That an interruption leaves a checkpoint is stated without exception.

Also modelled, without runs of their own:

- The checkpoint of an interrupted refinement of an early-converged baseline is
  refused by `--resume`, which wants the baseline to reach `epochs` (`train_project.c:889`);
  `docs/training-resume.md:112` says that an early-finalized baseline is valid. The
  cause is that of `train_success`.
- Patience that runs out exactly at the
  target epoch gives metadata that the writer refuses (`PublishRefused`;
  `persistence.c:1595` takes early weights at their target for the reason `target`
  only), and the trained run fails with its checkpoint kept; and a run that is resumed from a checkpoint
  at which patience was exhausted trains at least one more epoch, since
  `training.c:215` asks only for the convergence reason before the first epoch.
- "Constant features use scale 1" (`docs/data-interfaces.md:120`) fails when the mean of
  equal values is rounded: three rows of 0.1 have the mean 0.10000000000000002, the deviation
  from it is not zero, and the built program stores the inputs as -1 with a scale of
  1.4e-17. In the model, three rows of 3 have the mean 2.5. With `minmax` the
  same happens, since the extremes are looked for from the mean on
  (`data_import.c:1084`). `FittedOnTrainingRows` and `PreparedAlike` hold nevertheless.
- `docs/prediction.md:57-58` says that the lowest failing sample index is reported, and the lines of
  an answer count from the start of the document (`main.c:1118`). A failing sample in a later batch
  of `predict --input` is counted from the start of its batch: `main.c:1247` gives
  `neural_prediction_run` the batch alone, and `:1243` does so for missing inputs. `Settle` and `Prepare` do
  what the code does. `ImplementsDocument` claims of these numbers only that they are not past the
  sample, and would hold of a corrected program too; everything else that it says holds for later batches.
- An import succeeds with values or statistics that are subnormal, which the loader
  refuses (`parse.c:111`); `PreparedAlike` says that this is the only reason for which
  `preprocessing.txt` cannot be loaded.
- `predict` does not flush its output: with `> /dev/full` the built program exits with success.
- `inspect --state` reads a version 3 checkpoint without the optimizer options it
  needs (`main.c:1684`); the inspection command is not modelled.

## 7. What is not modelled

- Floating-point arithmetic of the network, losses and gradients;
  models see whether a value is finite, normal, better or worse. That of preprocessing
  is modelled at a small precision.
- Text: tokens, numbers and messages, except keys, their order, values that are
  refused, versions and the refusal of subnormal numbers.
- The lines of a data set; limits on lines and words; exhausted memory; SHA-256 is taken for
  injective.
- Options, reports, `inspect`, evaluation metrics, gradient check, build files.
- A failing `pthread_join`, which POSIX excludes for the threads of a prediction.
- The system calls inside an atomic write: its three outcomes are modelled.
- In `Continuation`, refinements (`--additional-epochs`), which start with a new
  optimizer, and several batches per epoch, which differ only in the step count.

## 8. Plan

Done, in this order: `TrainingFiles`, `TrainProject`, `TrainProperties` with
`TrainProofs`; `SerialBatches`, `Executor`; `ProjectLock`; `ProjectFiles`;
`Optimizer`, `Persistence`, `Continuation`; `ImportSplit` with
its part of `ImportProofs`; `Configuration`, `Architecture`, `Fingerprint`,
`ProjectSettings`; `CsvLine`, `CsvSchema`, `BinaryFloat`, `Preprocessing`,
`DataImport`; `PredictionDocument`, `Prediction`; `ProjectLockProofs`,
`ExecutorProofs`, `TrainHistory` with its part of `TrainProofs`, `ProjectFilesProofs`,
`PredictionProofs`; `ContinuationProofs`, `ProjectSettingsProofs`, and the sums and
the import in `ImportProofs`.

Next, in order of weight:

1. `DataImport`: the rest of `ReadAsWritten` as a theorem, with what a line and a schema
   say as recursive functions.
2. Gradients (`gradient.c`) on `BinaryFloat`: compensated sums, clipping, and updates
   that change all parameters or none.
