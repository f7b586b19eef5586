------------------------------ MODULE ProjectLock ------------------------------
(***************************************************************************)
(* The project lock (src/project_lock.c) as the commands use it: init and  *)
(* init --force (src/init.c), import-csv (src/data_import.c) as a writer   *)
(* of an existing project, and the loading phase of prediction             *)
(* (src/predict_project.c) as a reader.                                    *)
(*                                                                         *)
(* Each command is a process that runs once; every system call is a step.  *)
(* An advisory lock belongs to an inode, not to a path: the lock file is   *)
(* the inode it names, an inode is named after the command that created    *)
(* it, and the two files of a project after the command that wrote them.   *)
(***************************************************************************)
CONSTANTS
  Commands,  \* the commands started on one project path
  None,      \* no inode, no file
  Old        \* what an earlier command left

ASSUME CommandAssumption == None \notin Commands /\ Old \notin Commands /\ None # Old

Kinds == {"init", "force", "import", "read"}

Origin == Commands \cup {None, Old}

Files == [first : Origin, second : Origin]

NoFiles == [first |-> None, second |-> None]

VARIABLES
  dir,       \* whether the project directory exists
  lockfile,  \* the inode that .neural-c.lock names
  files,     \* two project files that belong together
  staged,    \* the commands whose temporary files are in the directory
  pc,        \* where each command is
  kind,      \* what it does
  made,      \* whether it made the directory
  fd,        \* the inode its descriptor refers to
  held,      \* the lock it holds on that inode
  view,      \* what it has read, or what it would restore
  incidents  \* history: lock files discarded, commands killed

vars == <<dir, lockfile, files, staged, pc, kind, made, fd, held, view, incidents>>

directoryVars == <<dir, lockfile, files, staged>>

Init ==
  /\ dir \in BOOLEAN
  /\ files \in IF dir THEN {NoFiles, [first |-> Old, second |-> Old]} ELSE {NoFiles}
  /\ lockfile \in IF dir THEN {None, Old} ELSE {None}
  /\ staged = {}
  /\ pc = [c \in Commands |-> "new"]
  /\ kind \in [Commands -> Kinds]
  /\ made = [c \in Commands |-> FALSE]
  /\ fd = [c \in Commands |-> None]
  /\ held = [c \in Commands |-> "none"]
  /\ view = [c \in Commands |-> NoFiles]
  /\ incidents = {}

Goto(c, place) == pc' = [pc EXCEPT ![c] = place]

Mode(c) == IF kind[c] = "read" THEN "shared" ELSE "exclusive"

(* An init that fails removes the directory if it made it.                  *)
GiveUp(c) == Goto(c, IF made[c] THEN "rmdir" ELSE "ended")

-----------------------------------------------------------------------------
(* Reaching the directory.                                                  *)

Stat(c) ==
  /\ pc[c] = "new"
  /\ Goto(c, IF kind[c] \notin {"init", "force"} THEN "open"
             ELSE IF ~dir THEN "mkdir"
             ELSE IF kind[c] = "force" THEN "open" ELSE "ended")
  /\ UNCHANGED <<directoryVars, kind, made, fd, held, view, incidents>>

(* mkdir fails when another command made the directory meanwhile.           *)
Mkdir(c) ==
  /\ pc[c] = "mkdir"
  /\ IF dir
       THEN Goto(c, "ended") /\ UNCHANGED <<dir, made>>
       ELSE Goto(c, "open") /\ dir' = TRUE /\ made' = [made EXCEPT ![c] = TRUE]
  /\ UNCHANGED <<lockfile, files, staged, kind, fd, held, view, incidents>>

-----------------------------------------------------------------------------
(* Acquiring the lock.                                                      *)

(* O_CREAT | O_EXCL: a new inode, unless the file is there already.         *)
Open(c) ==
  /\ pc[c] = "open"
  /\ IF ~dir
       THEN GiveUp(c) /\ UNCHANGED <<lockfile, fd>>
     ELSE IF lockfile = None
       THEN /\ lockfile' = c
            /\ fd' = [fd EXCEPT ![c] = c]
            /\ Goto(c, "flock")
     ELSE Goto(c, "reopen") /\ UNCHANGED <<lockfile, fd>>
  /\ UNCHANGED <<dir, files, staged, kind, made, held, view, incidents>>

(* The second open does not create: the file may be gone by now.            *)
Reopen(c) ==
  /\ pc[c] = "reopen"
  /\ IF lockfile = None
       THEN GiveUp(c) /\ UNCHANGED fd
       ELSE Goto(c, "flock") /\ fd' = [fd EXCEPT ![c] = lockfile]
  /\ UNCHANGED <<directoryVars, kind, made, held, view, incidents>>

(* flock: any number of shared holders, or one exclusive holder, per inode. *)
Compatible(c) ==
  \A d \in Commands \ {c} :
    fd[d] = fd[c] /\ held[d] # "none" => held[d] = "shared" /\ Mode(c) = "shared"

(* LOCK_NB: a conflict is reported as a busy project at once.               *)
Flock(c) ==
  /\ pc[c] = "flock"
  /\ IF Compatible(c)
       THEN /\ held' = [held EXCEPT ![c] = Mode(c)]
            /\ Goto(c, "work")
            /\ UNCHANGED fd
       ELSE /\ fd' = [fd EXCEPT ![c] = None]
            /\ GiveUp(c)
            /\ UNCHANGED held
  /\ UNCHANGED <<directoryVars, kind, made, view, incidents>>

(* open, fstat, flock or fchmod fails for another reason.                   *)
AcquireFails(c) ==
  /\ pc[c] \in {"open", "reopen", "flock"}
  /\ fd' = [fd EXCEPT ![c] = None]
  /\ GiveUp(c)
  /\ UNCHANGED <<directoryVars, kind, made, held, view, incidents>>

-----------------------------------------------------------------------------
(* Releasing it.                                                            *)

Close(c) ==
  /\ fd' = [fd EXCEPT ![c] = None]
  /\ held' = [held EXCEPT ![c] = "none"]

(* Mutant: a normal release removes the lock file.                          *)
ReleaseUnlinking(c) ==
  /\ pc[c] = "release"
  /\ Close(c)
  /\ Goto(c, "ended")
  /\ lockfile' = None
  /\ UNCHANGED <<dir, files, staged, kind, made, view, incidents>>

(* Closing the descriptor releases the lock; the lock file stays.           *)
Release(c) ==
  /\ pc[c] = "release"
  /\ Close(c)
  /\ Goto(c, "ended")
  /\ UNCHANGED <<directoryVars, kind, made, view, incidents>>

(* A failed brand-new init discards its lock: whatever inode has the name.  *)
Unlink(c) ==
  /\ pc[c] = "unlink"
  /\ Goto(c, "close")
  /\ lockfile' = None
  /\ incidents' = incidents \cup {"discard"}
  /\ UNCHANGED <<dir, files, staged, kind, made, fd, held, view>>

CloseDiscarded(c) ==
  /\ pc[c] = "close"
  /\ Close(c)
  /\ Goto(c, "rmdir")
  /\ UNCHANGED <<directoryVars, kind, made, view, incidents>>

(* Mutant: the directory is removed with whatever it holds.                 *)
RmdirAnyway(c) ==
  /\ pc[c] = "rmdir"
  /\ Goto(c, "ended")
  /\ dir' = FALSE
  /\ UNCHANGED <<lockfile, files, staged, kind, made, fd, held, view, incidents>>

(* rmdir only removes an empty directory.                                   *)
Rmdir(c) ==
  /\ pc[c] = "rmdir"
  /\ Goto(c, "ended")
  /\ dir' = (dir /\ (lockfile # None \/ files # NoFiles \/ staged # {}))
  /\ UNCHANGED <<lockfile, files, staged, kind, made, fd, held, view, incidents>>

-----------------------------------------------------------------------------
(* What a command does under the lock.                                      *)

Writing(c) == kind[c] # "read"

(* A failed init that made the directory discards the lock, others release. *)
Fail(c) == Goto(c, IF made[c] THEN "unlink" ELSE "release")

(* init refuses the temporary files of another one, import-csv needs a      *)
(* project; both write their new files beside the old ones.                 *)
Stageable(c) ==
  /\ dir
  /\ IF kind[c] = "import" THEN files # NoFiles ELSE staged = {}

Stage(c) ==
  /\ pc[c] = "work"
  /\ Writing(c)
  /\ IF Stageable(c)
       THEN /\ staged' = staged \cup {c}
            /\ view' = [view EXCEPT ![c] = files]
            /\ Goto(c, "first")
       ELSE Fail(c) /\ UNCHANGED <<staged, view>>
  /\ UNCHANGED <<dir, lockfile, files, kind, made, fd, held, incidents>>

InstallFirst(c) ==
  /\ pc[c] = "first"
  /\ files' = [files EXCEPT !.first = c]
  /\ Goto(c, "second")
  /\ UNCHANGED <<dir, lockfile, staged, kind, made, fd, held, view, incidents>>

InstallSecond(c) ==
  /\ pc[c] = "second"
  /\ files' = [files EXCEPT !.second = c]
  /\ staged' = staged \ {c}
  /\ Goto(c, "release")
  /\ UNCHANGED <<dir, lockfile, kind, made, fd, held, view, incidents>>

(* Mutant: the files installed so far are left where they are.              *)
RollbackStaged(c) ==
  /\ pc[c] \in {"first", "second"}
  /\ staged' = staged \ {c}
  /\ Fail(c)
  /\ UNCHANGED <<dir, lockfile, files, kind, made, fd, held, view, incidents>>

(* A failed step: what was installed is removed, the originals come back.   *)
Rollback(c) ==
  /\ pc[c] \in {"first", "second"}
  /\ files' = IF pc[c] = "first" THEN files
              ELSE [files EXCEPT !.first = view[c].first]
  /\ staged' = staged \ {c}
  /\ Fail(c)
  /\ UNCHANGED <<dir, lockfile, kind, made, fd, held, view, incidents>>

ReadFirst(c) ==
  /\ pc[c] = "work"
  /\ ~Writing(c)
  /\ view' = [view EXCEPT ![c].first = files.first]
  /\ Goto(c, "read")
  /\ UNCHANGED <<directoryVars, kind, made, fd, held, incidents>>

ReadSecond(c) ==
  /\ pc[c] = "read"
  /\ view' = [view EXCEPT ![c].second = files.second]
  /\ Goto(c, "release")
  /\ UNCHANGED <<directoryVars, kind, made, fd, held, incidents>>

(* A killed command: the system closes its descriptor, its files stay.      *)
Crash(c) ==
  /\ pc[c] \notin {"new", "ended"}
  /\ Close(c)
  /\ Goto(c, "ended")
  /\ incidents' = incidents \cup {"crash"}
  /\ UNCHANGED <<directoryVars, kind, made, view>>

-----------------------------------------------------------------------------

Step(c) ==
  \/ Stat(c) \/ Mkdir(c)
  \/ Open(c) \/ Reopen(c) \/ Flock(c) \/ AcquireFails(c)
  \/ Release(c) \/ Unlink(c) \/ CloseDiscarded(c) \/ Rmdir(c)
  \/ Stage(c) \/ InstallFirst(c) \/ InstallSecond(c) \/ Rollback(c)
  \/ ReadFirst(c) \/ ReadSecond(c)

Next == \E c \in Commands : Step(c) \/ Crash(c)

Spec == Init /\ [][Next]_vars

-----------------------------------------------------------------------------

(* Type invariant of the directory and of the commands.                     *)
TypeOK ==
  /\ dir \in BOOLEAN
  /\ lockfile \in Origin
  /\ files \in Files
  /\ staged \subseteq Commands
  /\ pc \in [Commands -> {"new", "mkdir", "open", "reopen", "flock", "work",
                          "first", "second", "read", "release", "unlink",
                          "close", "rmdir", "ended"}]
  /\ kind \in [Commands -> Kinds]
  /\ made \in [Commands -> BOOLEAN]
  /\ fd \in [Commands -> Origin]
  /\ held \in [Commands -> {"none", "shared", "exclusive"}]
  /\ view \in [Commands -> Files]
  /\ incidents \subseteq {"discard", "crash"}
  /\ ~dir => lockfile = None /\ files = NoFiles /\ staged = {}

Holding(c) == pc[c] \in {"work", "first", "second", "read", "release"}

(* No command works on a project together with one that changes it.         *)
Exclusive ==
  \A c, d \in Commands :
    c # d /\ Holding(c) /\ Holding(d) => ~Writing(c) /\ ~Writing(d)

(* As long as no lock file was discarded, "Exclusive" holds: commands that  *)
(* end well, fail or are killed leave one inode for everybody.              *)
ExclusiveUntilDiscard == "discard" \in incidents \/ Exclusive

(* What a reader has loaded when it releases the lock was written by one    *)
(* command, unless a writer was killed between its two files.               *)
CoherentView ==
  incidents = {} =>
    \A c \in Commands :
      pc[c] = "release" /\ ~Writing(c) => view[c].first = view[c].second

-----------------------------------------------------------------------------
(* The inductive invariants behind the theorems of ProjectLockProofs.       *)

(* A writer between its two files has its temporary files in the directory. *)
StagedWhileInstalling ==
  \A c \in Commands : pc[c] \in {"first", "second"} => c \in staged

(* What a command does at each place under the lock.                        *)
WriterPlaces ==
  \A c \in Commands :
    /\ pc[c] \in {"first", "second"} => Writing(c)
    /\ pc[c] = "read" => ~Writing(c)

(* Exactly the commands under the lock hold it, in the mode of what they do. *)
HoldersHold ==
  \A c \in Commands :
    /\ Holding(c) => held[c] = Mode(c)
    /\ held[c] # "none" => Holding(c) \/ pc[c] \in {"unlink", "close"}

(* The system call admits no conflicting holder of one inode.               *)
LocksCompatible ==
  \A c, d \in Commands :
    c # d /\ fd[c] = fd[d] /\ held[c] # "none" /\ held[d] # "none" =>
      held[c] = "shared" /\ held[d] = "shared"

(* Until a lock file is discarded, all descriptors refer to one inode.      *)
OneInode ==
  "discard" \notin incidents =>
    \A c \in Commands :
      /\ fd[c] # None => fd[c] = lockfile
      /\ Holding(c) \/ pc[c] = "flock" => fd[c] # None

LockIInv ==
  /\ TypeOK /\ StagedWhileInstalling /\ WriterPlaces
  /\ HoldersHold /\ LocksCompatible /\ OneInode

(* The files belong together except while a writer is between them, which   *)
(* then knows what it would restore; a reader between them has seen the     *)
(* first file as it still is.                                               *)
FilesCoherent ==
  incidents = {} =>
    /\ (\A c \in Commands : pc[c] # "second") => files.first = files.second
    /\ \A c \in Commands :
         /\ pc[c] = "first" => view[c] = files
         /\ pc[c] = "second" =>
              /\ files = [first |-> c, second |-> view[c].second]
              /\ view[c].first = view[c].second
         /\ pc[c] = "read" => view[c].first = files.first

ViewIInv == FilesCoherent /\ CoherentView

=============================================================================
