----------------------------- MODULE ProjectFiles -----------------------------
(***************************************************************************)
(* How init, init --force (src/init.c) and import-csv (src/data_import.c)  *)
(* replace the files of a project: new files are staged beside the old     *)
(* ones, the old ones are moved to backups, the new ones are renamed into  *)
(* place, and a failure undoes what was done.                              *)
(*                                                                         *)
(* One command runs at a time, under the exclusive project lock.  It is a  *)
(* sequence of file operations, each of which may fail or be the last one  *)
(* before the process dies.  The content of a file is the number of the    *)
(* command that wrote it.  Temporary files belong to their owner: "init"   *)
(* has fixed names, an import has names that contain its process id.       *)
(***************************************************************************)
EXTENDS Integers

CONSTANTS
  Pids,         \* process ids, which the system may use again
  MaxCommands,  \* bound on the commands that write
  MaxFaults     \* bound on failed operations and crashes

ASSUME BoundAssumption ==
  "init" \notin Pids /\ MaxCommands \in Nat /\ MaxFaults \in Nat

Generated == {"model", "project", "dataset"}
Managed == Generated \cup {"weights", "checkpoint", "preprocessing"}
Imported == {"dataset", "validation", "test", "preprocessing"}

Names == Managed \cup Imported

(* The order of the files in both commands; the directory comes last.       *)
Position ==
  [model |-> 1, project |-> 2, dataset |-> 3, validation |-> 4, test |-> 5,
   weights |-> 6, checkpoint |-> 7, preprocessing |-> 8, directory |-> 9]

Owners == {"init"} \cup Pids

Absent == 0
Content == Absent .. MaxCommands
NoFiles == [n \in Names |-> Absent]

Operation ==
  {"stage", "backup", "place", "sync", "discard", "remove", "restore", "clean"}
  \X (Names \cup {"directory"})

VARIABLES
  file,     \* the files of the project
  new,      \* staged files, by owner
  backup,   \* files moved away, by owner
  cmd,      \* the running or last command: its parameters and its flags
  script,   \* the operations it still has to do, each <<what, file>>
  result,   \* "running", or how it ended
  before,   \* history: the files when it started
  ignored,  \* history: it went on after a failed operation
  writers,  \* commands started so far
  faults,   \* failed operations and crashes so far
  incident  \* history: a command died or ignored a failure

vars == <<file, new, backup, cmd, script, result, before, ignored, writers,
          faults, incident>>

NoCommand ==
  [owner |-> "init", number |-> 0, wanted |-> {}, originals |-> {},
   created |-> {}, placed |-> {}, failed |-> FALSE]

Init ==
  /\ file = NoFiles
  /\ new = [o \in Owners |-> NoFiles]
  /\ backup = [o \in Owners |-> NoFiles]
  /\ cmd = NoCommand
  /\ script = {}
  /\ result = "none"
  /\ before = NoFiles
  /\ ignored = FALSE
  /\ writers = 0
  /\ faults = 0
  /\ incident = FALSE

-----------------------------------------------------------------------------
(* The operations of a command, and their order in the source.              *)

Each(op, names) == {op} \X names

Present == {n \in Names : file[n] # Absent}

InitScript(originals) ==
  Each("stage", Generated) \cup Each("backup", originals)
  \cup Each("place", Generated) \cup Each("discard", originals)

(* Mutant: only the files that are replaced are moved away.                 *)
ImportScriptKeeping(wanted) ==
  Each("stage", Imported) \cup Each("backup", wanted)
  \cup Each("place", wanted) \cup Each("sync", {"directory"})
  \cup Each("discard", Imported)

(* Mutant: a split without samples is placed too.                           *)
ImportScriptUnstaged(wanted) ==
  Each("stage", Imported) \cup Each("backup", Imported)
  \cup Each("place", Imported) \cup Each("sync", {"directory"})
  \cup Each("discard", Imported)

ImportScript(wanted) ==
  Each("stage", Imported) \cup Each("backup", Imported)
  \cup Each("place", wanted) \cup Each("sync", {"directory"})
  \cup Each("discard", Imported)

(* What init does when an operation fails.                                  *)
UndoInit(op) ==
  (IF op = "stage" THEN {}
   ELSE Each("remove", cmd.placed) \cup Each("restore", cmd.originals))
  \cup Each("clean", cmd.created)

(* Mutant: the file at which the install failed is not rolled back.         *)
UndoImportShort(op, n) ==
  IF op = "stage" THEN {}
  ELSE LET reached == {m \in Imported : Position[m] < Position[n]}
       IN  Each("remove", cmd.placed \cap reached)
           \cup Each("restore", cmd.originals \cap reached)
           \cup Each("clean", cmd.wanted)

(* An import that fails at n undoes the files up to n.  Files staged by an  *)
(* import that fails to stage a later one stay behind.                      *)
UndoImport(op, n) ==
  IF op = "stage" THEN {}
  ELSE LET reached == {m \in Imported : Position[m] <= Position[n]}
       IN  Each("remove", cmd.placed \cap reached)
           \cup Each("restore", cmd.originals \cap reached)
           \cup Each("clean", cmd.wanted)

(* init does one kind of operation for all files before the next: all       *)
(* originals are moved away before the first new file is placed.  An import *)
(* installs file by file, and undoes that backwards.                        *)
Turn(owner, op, n) ==
  LET k == Position[n]
  IN  IF owner = "init"
        THEN CASE op = "stage" -> k
               [] op = "backup" -> 10 + k
               [] op = "place" -> 20 + k
               [] op = "discard" -> 30 + k
               [] op = "remove" -> 40 + k
               [] op = "restore" -> 50 + k
               [] OTHER -> 60 + k
        ELSE CASE op = "stage" -> k
               [] op = "backup" -> 10 + 2 * k
               [] op = "place" -> 11 + 2 * k
               [] op = "sync" -> 30
               [] op = "discard" -> 40 + k
               [] op = "remove" -> 70 - 2 * k
               [] op = "restore" -> 71 - 2 * k
               [] OTHER -> 80 + k

-----------------------------------------------------------------------------
(* Commands.                                                                *)

Begin(owner, wanted, originals, steps) ==
  /\ result # "running"
  /\ writers < MaxCommands
  /\ writers' = writers + 1
  /\ cmd' = [NoCommand EXCEPT !.owner = owner, !.number = writers + 1,
                              !.wanted = wanted, !.originals = originals]
  /\ script' = steps
  /\ result' = "running"
  /\ before' = file
  /\ ignored' = FALSE
  /\ UNCHANGED <<file, new, backup, faults, incident>>

(* init and init --force refuse any temporary file of an earlier init.      *)
StartInit ==
  /\ new["init"] = NoFiles
  /\ backup["init"] = NoFiles
  /\ LET originals == Present \cap Managed
     IN  Begin("init", Generated, originals, InitScript(originals))

(* import-csv needs a project, and no trained state that it would outdate.  *)
StartImport(pid, wanted) ==
  /\ file.model # Absent
  /\ file.project # Absent
  /\ file.weights = Absent
  /\ file.checkpoint = Absent
  /\ Begin(pid, wanted, {}, ImportScript(wanted))

(* A training command leaves weights or a checkpoint.                       *)
Train ==
  /\ result # "running"
  /\ writers < MaxCommands
  /\ Generated \subseteq Present
  /\ \E n \in {"weights", "checkpoint"} :
       file' = [file EXCEPT ![n] = writers + 1]
  /\ writers' = writers + 1
  /\ result' = "none"
  /\ UNCHANGED <<new, backup, cmd, script, before, ignored, faults, incident>>

(* The user archives or removes the trained state.                          *)
Archive ==
  /\ result # "running"
  /\ file' = [file EXCEPT !.weights = Absent, !.checkpoint = Absent]
  /\ result' = "none"
  /\ UNCHANGED <<new, backup, cmd, script, before, ignored, writers, faults,
                 incident>>

-----------------------------------------------------------------------------
(* The operations.                                                          *)

Owner == cmd.owner

Pending(op, n) == <<op, n>> \in script

(* The operation whose turn it is.                                          *)
Due(op, n) ==
  /\ result = "running"
  /\ Pending(op, n)
  /\ \A x \in script :
       x # <<op, n>> => Turn(Owner, op, n) < Turn(Owner, x[1], x[2])

Proceed(op, n) == script' = script \ {<<op, n>>}

(* From the first failure on, a command undoes.                             *)
Undo(op, n) ==
  /\ script' = IF Owner = "init" THEN UndoInit(op) ELSE UndoImport(op, n)
  /\ cmd' = [cmd EXCEPT !.failed = TRUE]

history == <<before, writers, incident>>

(* Mutant: a backup of an earlier import with this process id is not seen.  *)
StageableUnseen(n) == n \in cmd.wanted => new[Owner][n] = Absent

(* An import refuses its process id's old backups and staged files.         *)
Stageable(n) ==
  /\ Owner # "init" => backup[Owner][n] = Absent
  /\ n \in cmd.wanted => new[Owner][n] = Absent

Stage(n) ==
  /\ Due("stage", n)
  /\ \/ /\ ~Stageable(n)
        /\ Undo("stage", n)
        /\ UNCHANGED new
     \/ /\ Stageable(n)
        /\ n \in cmd.wanted
        /\ new' = [new EXCEPT ![Owner][n] = cmd.number]
        /\ cmd' = [cmd EXCEPT !.created = @ \cup {n}]
        /\ Proceed("stage", n)
     \/ /\ Stageable(n)
        /\ n \notin cmd.wanted
        /\ Proceed("stage", n)
        /\ UNCHANGED <<new, cmd>>
  /\ UNCHANGED <<file, backup, result, ignored, faults, history>>

(* rename(final, old), when there is a file; had_old records it.            *)
Backup(n) ==
  /\ Due("backup", n)
  /\ \/ /\ file[n] = Absent
        /\ UNCHANGED <<file, backup, cmd>>
     \/ /\ file[n] # Absent
        /\ backup' = [backup EXCEPT ![Owner][n] = file[n]]
        /\ file' = [file EXCEPT ![n] = Absent]
        /\ cmd' = [cmd EXCEPT !.originals = @ \cup {n}]
  /\ Proceed("backup", n)
  /\ UNCHANGED <<new, result, ignored, faults, history>>

(* rename(new, final).                                                      *)
Place(n) ==
  /\ Due("place", n)
  /\ file' = [file EXCEPT ![n] = new[Owner][n]]
  /\ new' = [new EXCEPT ![Owner][n] = Absent]
  /\ cmd' = [cmd EXCEPT !.placed = @ \cup {n}, !.created = @ \ {n}]
  /\ Proceed("place", n)
  /\ UNCHANGED <<backup, result, ignored, faults, history>>

Sync ==
  /\ Due("sync", "directory")
  /\ Proceed("sync", "directory")
  /\ UNCHANGED <<file, new, backup, cmd, result, ignored, faults, history>>

(* unlink(old), of a file that was moved away.                              *)
Discard(n) ==
  /\ Due("discard", n)
  /\ \/ /\ n \in cmd.originals
        /\ backup' = [backup EXCEPT ![Owner][n] = Absent]
     \/ /\ n \notin cmd.originals
        /\ UNCHANGED backup
  /\ Proceed("discard", n)
  /\ UNCHANGED <<file, new, cmd, result, ignored, faults, history>>

(* unlink(final), of a file that was placed.                                *)
Remove(n) ==
  /\ Due("remove", n)
  /\ file' = [file EXCEPT ![n] = Absent]
  /\ Proceed("remove", n)
  /\ UNCHANGED <<new, backup, cmd, result, ignored, faults, history>>

(* rename(old, final); without an old file it does nothing.                 *)
Restore(n) ==
  /\ Due("restore", n)
  /\ \/ /\ backup[Owner][n] = Absent
        /\ UNCHANGED <<file, backup>>
     \/ /\ backup[Owner][n] # Absent
        /\ file' = [file EXCEPT ![n] = backup[Owner][n]]
        /\ backup' = [backup EXCEPT ![Owner][n] = Absent]
  /\ Proceed("restore", n)
  /\ UNCHANGED <<new, cmd, result, ignored, faults, history>>

(* unlink(new).                                                             *)
Clean(n) ==
  /\ Due("clean", n)
  /\ new' = [new EXCEPT ![Owner][n] = Absent]
  /\ Proceed("clean", n)
  /\ UNCHANGED <<file, backup, cmd, result, ignored, faults, history>>

Fault == faults < MaxFaults /\ faults' = faults + 1

(* A failure up to the last placed file or the sync is rolled back.         *)
OperationFails(op, n) ==
  /\ Due(op, n)
  /\ Fault
  /\ Undo(op, n)
  /\ UNCHANGED <<file, new, backup, result, ignored, history>>

(* Failures of the rollback and of the removal of backups are ignored.      *)
FailureIgnored(op, n) ==
  /\ Due(op, n)
  /\ Fault
  /\ Proceed(op, n)
  /\ ignored' = TRUE
  /\ incident' = TRUE
  /\ UNCHANGED <<file, new, backup, cmd, result, before, writers>>

Finish ==
  /\ result = "running"
  /\ script = {}
  /\ result' = IF cmd.failed THEN "failed" ELSE "success"
  /\ UNCHANGED <<file, new, backup, cmd, script, ignored, faults, history>>

Crash ==
  /\ result = "running"
  /\ Fault
  /\ result' = "crashed"
  /\ script' = {}
  /\ incident' = TRUE
  /\ UNCHANGED <<file, new, backup, cmd, before, ignored, writers>>

Splits ==
  {{"dataset", "preprocessing"} \cup S : S \in SUBSET {"validation", "test"}}

Start ==
  \/ StartInit
  \/ \E pid \in Pids, wanted \in Splits : StartImport(pid, wanted)
  \/ Train \/ Archive

Step ==
  \/ \E n \in Names : \/ Stage(n) \/ Backup(n) \/ Place(n)
                       \/ Discard(n) \/ Remove(n) \/ Restore(n) \/ Clean(n)
  \/ Sync
  \/ Finish

Failure ==
  \/ \E n \in Names \cup {"directory"} :
       \E op \in {"stage", "backup", "place", "sync"} : OperationFails(op, n)
  \/ \E n \in Names :
       \E op \in {"remove", "restore", "discard", "clean"} :
         FailureIgnored(op, n)
  \/ Crash

Next == Start \/ Step \/ Failure

Spec == Init /\ [][Next]_vars

-----------------------------------------------------------------------------

Command ==
  [owner : Owners, number : Content, wanted : SUBSET Names,
   originals : SUBSET Names, created : SUBSET Names, placed : SUBSET Names,
   failed : BOOLEAN]

Typed ==
  /\ file \in [Names -> Content]
  /\ new \in [Owners -> [Names -> Content]]
  /\ backup \in [Owners -> [Names -> Content]]
  /\ cmd \in Command
  /\ script \subseteq Operation
  /\ result \in {"none", "running", "success", "failed", "crashed"}
  /\ before \in [Names -> Content]
  /\ ignored \in BOOLEAN
  /\ writers \in 0 .. MaxCommands
  /\ faults \in 0 .. MaxFaults
  /\ incident \in BOOLEAN

(* Type invariant; a file whose turn it is to be placed is staged, so that  *)
(* no rename can miss its source.                                           *)
TypeOK ==
  /\ Typed
  /\ \A n \in Names : Due("place", n) => new[Owner][n] = cmd.number

(* The files a command manages.                                             *)
Area(owner) == IF owner = "init" THEN Managed ELSE Imported

(* What the files are after a command that succeeds: those it wrote, none   *)
(* of the others it manages, and the rest as before.                        *)
Replaced ==
  [n \in Names |->
     IF n \in cmd.wanted THEN cmd.number
     ELSE IF n \in Area(Owner) THEN Absent
     ELSE before[n]]

(* A command that fails leaves the project as it found it and no backup, or *)
(* else it could not undo an operation.  A successful init leaves nothing   *)
(* of the former project that it manages, a successful import nothing of    *)
(* the former data.                                                         *)
AllOrNothing ==
  /\ result = "failed" /\ ~ignored =>
       /\ file = before
       /\ Owner = "init" => new["init"] = NoFiles /\ backup["init"] = NoFiles
  /\ result = "success" =>
       /\ file = Replaced
       /\ ~ignored => backup[Owner] = NoFiles
       /\ \A n \in cmd.wanted : new[Owner][n] = Absent

(* Splits of one import, if the data carries the metadata of an import.     *)
Coherent(f) ==
  f["preprocessing"] # Absent =>
    /\ f["dataset"] = f["preprocessing"]
    /\ f["validation"] \in {Absent, f["preprocessing"]}
    /\ f["test"] \in {Absent, f["preprocessing"]}

(* Between commands, data that carries preprocessing metadata is the data   *)
(* of one import in all its splits.                                         *)
CoherentData == ~incident /\ result # "running" => Coherent(file)

Kept(n, v) == file[n] = v \/ \E o \in Owners : backup[o][n] = v

(* A file of an earlier command, in place or in a backup that a dead        *)
(* command left, is lost only to a command that has placed all its own.     *)
NothingLost ==
  [][result = "running" =>
       \A n \in Names, v \in 1 .. writers :
         Kept(n, v) /\ ~Kept(n, v)' =>
           \/ v = writers
           \/ ~cmd.failed /\ \A w \in cmd.wanted : file[w] = cmd.number]_vars

-----------------------------------------------------------------------------
(* What holds at every operation, from which the properties above follow.   *)

(* A command touches temporary files of its own names only.                 *)
OwnNames ==
  \A o \in Owners : \A n \in Names \ Area(o) :
    new[o][n] = Absent /\ backup[o][n] = Absent

(* What the running command is about.                                       *)
CommandSound ==
  result = "running" =>
    /\ cmd.number = writers
    /\ cmd.wanted \subseteq Area(Owner)
    /\ cmd.originals \subseteq Area(Owner)
    /\ cmd.created \subseteq cmd.wanted
    /\ cmd.placed \subseteq cmd.wanted
    /\ Owner = "init" => cmd.wanted = Generated

Forward == result = "running" /\ ~cmd.failed

Undoing == result = "running" /\ cmd.failed

WholeScript ==
  IF Owner = "init" THEN InitScript(cmd.originals) ELSE ImportScript(cmd.wanted)

(* What is left of a command that has not failed are its last operations.   *)
ScriptSound ==
  Forward =>
    /\ script \subseteq WholeScript
    /\ \A x \in script, y \in WholeScript :
         Turn(Owner, x[1], x[2]) < Turn(Owner, y[1], y[2]) => y \in script

MovedAway(n) == n \in cmd.originals /\ ~Pending("backup", n)

(* The three places of a file n while the command goes forward.             *)
FileSound(n) ==
  /\ file[n] = IF n \in cmd.placed THEN cmd.number
               ELSE IF MovedAway(n) THEN Absent
               ELSE before[n]
  /\ n \in cmd.originals => before[n] # Absent
  /\ n \in cmd.originals /\ Owner # "init" => ~Pending("backup", n)
  /\ n \in Area(Owner) /\ before[n] # Absent /\ ~Pending("backup", n) =>
       n \in cmd.originals

BackupSound(n) ==
  /\ MovedAway(n) /\ Pending("discard", n) => backup[Owner][n] = before[n]
  /\ backup[Owner][n] # Absent =>
       \/ Owner # "init" /\ Pending("stage", n)
       \/ MovedAway(n) /\ (Pending("discard", n) \/ ignored)

NewSound(n) ==
  /\ n \in cmd.wanted /\ ~Pending("stage", n) /\ Pending("place", n) =>
       new[Owner][n] = cmd.number
  /\ n \in cmd.placed <=> n \in cmd.wanted /\ ~Pending("place", n)
  /\ n \in cmd.placed => new[Owner][n] = Absent
  /\ Owner = "init" /\ new[Owner][n] # Absent => n \in cmd.created

ForwardSound ==
  Forward => \A n \in Names : FileSound(n) /\ BackupSound(n) /\ NewSound(n)

(* What becomes of a file when the rest of the rollback is done.            *)
Outcome(n) ==
  IF Pending("restore", n) /\ backup[Owner][n] # Absent THEN backup[Owner][n]
  ELSE IF Pending("remove", n) THEN Absent
  ELSE file[n]

UndoSound(n) ==
  /\ Pending("remove", n) => file[n] = cmd.number
  /\ Pending("restore", n) /\ backup[Owner][n] # Absent =>
       file[n] \in {Absent, cmd.number}
  /\ ~ignored => Outcome(n) = before[n]
  /\ Owner = "init" /\ ~ignored =>
       /\ new[Owner][n] # Absent => Pending("clean", n)
       /\ backup[Owner][n] # Absent => Pending("restore", n)

RollbackSound ==
  Undoing =>
    /\ script \subseteq {"remove", "restore", "clean"} \X Area(Owner)
    /\ \A n \in Names : UndoSound(n)

(* An import writes both of these.                                          *)
ImportsBoth ==
  result = "running" /\ Owner # "init" =>
    {"dataset", "preprocessing"} \subseteq cmd.wanted

CoherentHistory ==
  /\ ignored => incident
  /\ ~incident => Coherent(IF result = "running" THEN before ELSE file)

FilesIInv ==
  /\ Typed
  /\ OwnNames
  /\ CommandSound
  /\ ImportsBoth
  /\ ScriptSound
  /\ ForwardSound
  /\ RollbackSound
  /\ AllOrNothing
  /\ CoherentHistory
=============================================================================
