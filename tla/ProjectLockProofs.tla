--------------------------- MODULE ProjectLockProofs ---------------------------
(***************************************************************************)
(* Theorems about the project lock, for any number of commands of any kind *)
(* on one project path.                                                    *)
(***************************************************************************)
EXTENDS ProjectLock, TLAPS

LEMMA InitLock == Init => LockIInv /\ ViewIInv
<1> SUFFICES ASSUME Init PROVE LockIInv /\ ViewIInv
  OBVIOUS
<1> USE DEF Init
<1>1. TypeOK
  BY DEF TypeOK, Files, NoFiles, Origin
<1>2. StagedWhileInstalling /\ WriterPlaces /\ HoldersHold
  BY DEF StagedWhileInstalling, WriterPlaces, HoldersHold, Holding
<1>3. LocksCompatible /\ OneInode
  BY DEF LocksCompatible, OneInode, Holding
<1>4. ViewIInv
  BY DEF ViewIInv, FilesCoherent, CoherentView, NoFiles
<1> QED
  BY <1>1, <1>2, <1>3, <1>4 DEF LockIInv

(* Types, and that a directory with a file in it is not removed.            *)
LEMMA TypeStep ==
  ASSUME NEW c \in Commands, LockIInv, Step(c) \/ Crash(c)
  PROVE  TypeOK'
<1> USE DEF Goto, GiveUp, Fail, Close, directoryVars, Origin
<1>a. TypeOK /\ StagedWhileInstalling
  BY DEF LockIInv
<1>1. CASE Stat(c) \/ Mkdir(c)
  BY <1>a, <1>1 DEF TypeOK, Stat, Mkdir
<1>2. CASE Open(c) \/ Reopen(c)
  <2>1. CASE Open(c)
    <3>1. CASE ~dir
      BY <1>a, <2>1, <3>1 DEF TypeOK, Open
    <3>2. CASE dir /\ lockfile = None
      BY <1>a, <2>1, <3>2 DEF TypeOK, Open
    <3>3. CASE dir /\ lockfile # None
      BY <1>a, <2>1, <3>3 DEF TypeOK, Open
    <3> QED
      BY <3>1, <3>2, <3>3
  <2>2. CASE Reopen(c)
    BY <1>a, <2>2 DEF TypeOK, Reopen
  <2> QED
    BY <1>2, <2>1, <2>2
<1>3. CASE Flock(c) \/ AcquireFails(c)
  BY <1>a, <1>3 DEF TypeOK, Flock, AcquireFails, Mode
<1>4. CASE Release(c) \/ Unlink(c) \/ CloseDiscarded(c)
  BY <1>a, <1>4 DEF TypeOK, Release, Unlink, CloseDiscarded
<1>5. CASE Rmdir(c) \/ Crash(c)
  BY <1>a, <1>5 DEF TypeOK, Rmdir, Crash
<1>6. CASE Stage(c)
  BY <1>a, <1>6 DEF TypeOK, Stage, Stageable
<1>7. CASE InstallFirst(c) \/ InstallSecond(c) \/ Rollback(c)
  <2>1. c \in staged /\ dir
    BY <1>a, <1>7
    DEF TypeOK, StagedWhileInstalling, InstallFirst, InstallSecond, Rollback
  <2>2. files' \in Files
    BY <1>a, <1>7 DEF TypeOK, Files, InstallFirst, InstallSecond, Rollback
  <2> QED
    BY <1>a, <1>7, <2>1, <2>2
    DEF TypeOK, InstallFirst, InstallSecond, Rollback
<1>8. CASE ReadFirst(c) \/ ReadSecond(c)
  BY <1>a, <1>8 DEF TypeOK, Files, ReadFirst, ReadSecond
<1> QED
  BY <1>1, <1>2, <1>3, <1>4, <1>5, <1>6, <1>7, <1>8 DEF Step

(* A step moves one command; the places and descriptors of others stay.     *)
LEMMA OthersStay ==
  ASSUME NEW c \in Commands, TypeOK, Step(c) \/ Crash(c),
         NEW d \in Commands \ {c}
  PROVE  /\ pc'[d] = pc[d] /\ fd'[d] = fd[d] /\ held'[d] = held[d]
         /\ view'[d] = view[d]
  BY DEF TypeOK, Step, Stat, Mkdir, Open, Reopen, Flock, AcquireFails, Release,
         Unlink, CloseDiscarded, Rmdir, Stage, InstallFirst, InstallSecond,
         Rollback, ReadFirst, ReadSecond, Crash, Goto, GiveUp, Fail, Close,
         directoryVars

LEMMA KindStays ==
  ASSUME NEW c \in Commands, Step(c) \/ Crash(c)
  PROVE  kind' = kind
  BY DEF Step, Stat, Mkdir, Open, Reopen, Flock, AcquireFails, Release,
         Unlink, CloseDiscarded, Rmdir, Stage, InstallFirst, InstallSecond,
         Rollback, ReadFirst, ReadSecond, Crash, directoryVars

(* The places a command leaves under the lock, and what it is then.         *)
LEMMA PlacesStep ==
  ASSUME NEW c \in Commands, LockIInv, Step(c) \/ Crash(c)
  PROVE  (StagedWhileInstalling /\ WriterPlaces)'
<1> USE DEF Goto, GiveUp, Fail, Close, directoryVars
<1>a. TypeOK /\ StagedWhileInstalling /\ WriterPlaces
  BY DEF LockIInv
<1>b. /\ pc'[c] \in {"first", "second"} => Writing(c)
      /\ pc'[c] = "read" => ~Writing(c)
  BY <1>a
  DEF TypeOK, WriterPlaces, Step, Stat, Mkdir, Open, Reopen, Flock,
      AcquireFails, Release, Unlink, CloseDiscarded, Rmdir, Stage,
      InstallFirst, InstallSecond, Rollback, ReadFirst, ReadSecond, Crash
<1>c. /\ pc'[c] \in {"first", "second"} => c \in staged'
      /\ staged \ {c} \subseteq staged'
  BY <1>a
  DEF TypeOK, StagedWhileInstalling, Step, Stat, Mkdir, Open, Reopen, Flock,
      AcquireFails, Release, Unlink, CloseDiscarded, Rmdir, Stage,
      InstallFirst, InstallSecond, Rollback, ReadFirst, ReadSecond, Crash
<1> QED
  BY <1>a, <1>b, <1>c, OthersStay, KindStays
  DEF StagedWhileInstalling, WriterPlaces, Writing

LEMMA HoldersStep ==
  ASSUME NEW c \in Commands, LockIInv, Step(c) \/ Crash(c)
  PROVE  HoldersHold'
<1> USE DEF Goto, GiveUp, Fail, Close, directoryVars
<1>a. TypeOK /\ HoldersHold
  BY DEF LockIInv
<1>b. /\ Holding(c)' => held'[c] = Mode(c)
      /\ held'[c] # "none" => Holding(c)' \/ pc'[c] \in {"unlink", "close"}
  BY <1>a
  DEF TypeOK, HoldersHold, Holding, Step, Stat, Mkdir, Open, Reopen, Flock,
      AcquireFails, Release, Unlink, CloseDiscarded, Rmdir, Stage,
      InstallFirst, InstallSecond, Rollback, ReadFirst, ReadSecond, Crash
<1> QED
  BY <1>a, <1>b, OthersStay, KindStays DEF HoldersHold, Holding, Mode

(* Who takes a lock has none yet; the kernel refuses a conflicting one.     *)
LEMMA CompatibleStep ==
  ASSUME NEW c \in Commands, LockIInv, Step(c) \/ Crash(c)
  PROVE  LocksCompatible'
<1> USE DEF Goto, GiveUp, Fail, Close, directoryVars
<1>a. TypeOK /\ HoldersHold /\ LocksCompatible
  BY DEF LockIInv
<1> SUFFICES ASSUME NEW d \in Commands \ {c}, fd'[c] = fd'[d],
                    held'[c] # "none", held'[d] # "none"
             PROVE  held'[c] = "shared" /\ held'[d] = "shared"
  BY <1>a, OthersStay DEF LocksCompatible
<1>b. fd'[d] = fd[d] /\ held'[d] = held[d]
  BY <1>a, OthersStay
<1>1. CASE Flock(c)
  BY <1>a, <1>b, <1>1 DEF TypeOK, Flock, Compatible, HoldersHold, Holding
<1>2. CASE ~Flock(c)
  <2>1. fd'[c] = fd[c] /\ held'[c] = held[c]
    BY <1>a, <1>2
    DEF TypeOK, HoldersHold, Holding, Step, Stat, Mkdir, Open, Reopen,
        AcquireFails, Release, Unlink, CloseDiscarded, Rmdir, Stage,
        InstallFirst, InstallSecond, Rollback, ReadFirst, ReadSecond, Crash
  <2> QED
    BY <1>a, <1>b, <2>1 DEF LocksCompatible
<1> QED
  BY <1>1, <1>2

(* The lock file is created once: whoever opens it later, after a failure   *)
(* or a crash of others too, gets the inode that is there.                  *)
LEMMA InodeStep ==
  ASSUME NEW c \in Commands, LockIInv, Step(c) \/ Crash(c)
  PROVE  OneInode'
<1> USE DEF Goto, GiveUp, Fail, Close, directoryVars
<1>a. TypeOK /\ OneInode
  BY DEF LockIInv
<1> SUFFICES ASSUME "discard" \notin incidents' PROVE OneInode'
  BY DEF OneInode
<1>b. ~Unlink(c) /\ "discard" \notin incidents
  BY <1>a
  DEF TypeOK, Step, Stat, Mkdir, Open, Reopen, Flock, AcquireFails, Release,
      Unlink, CloseDiscarded, Rmdir, Stage, InstallFirst, InstallSecond,
      Rollback, ReadFirst, ReadSecond, Crash
<1>1. CASE Open(c)
  <2>1. CASE dir /\ lockfile = None
    <3>1. \A d \in Commands : fd[d] = None
      BY <1>a, <1>b, <2>1 DEF OneInode
    <3>2. lockfile' = c /\ fd' = [fd EXCEPT ![c] = c] /\ pc'[c] = "flock"
      BY <1>1, <1>a, <2>1 DEF Open, TypeOK
    <3>3. \A d \in Commands \ {c} : ~Holding(d)' /\ pc'[d] # "flock"
      BY <1>a, <1>b, <3>1, OthersStay DEF OneInode, Holding
    <3> QED
      BY <1>a, <3>1, <3>2, <3>3, CommandAssumption DEF OneInode, TypeOK
  <2>2. CASE ~(dir /\ lockfile = None)
    <3>1. UNCHANGED <<lockfile, fd>> /\ pc'[c] \in {"rmdir", "ended", "reopen"}
      BY <1>1, <1>a, <2>2 DEF Open, TypeOK
    <3> QED
      BY <1>a, <1>b, <3>1, OthersStay DEF OneInode, Holding
  <2> QED
    BY <2>1, <2>2
<1>2. CASE ~Open(c)
  <2>1. lockfile' = lockfile
    BY <1>b, <1>2
    DEF Step, Stat, Mkdir, Reopen, Flock, AcquireFails, Release,
        CloseDiscarded, Rmdir, Stage, InstallFirst, InstallSecond, Rollback,
        ReadFirst, ReadSecond, Crash
  <2>2. /\ fd'[c] # None => fd'[c] = lockfile
        /\ Holding(c)' \/ pc'[c] = "flock" => fd'[c] # None
    BY <1>a, <1>b, <1>2
    DEF TypeOK, OneInode, Holding, Step, Stat, Mkdir, Reopen, Flock,
        AcquireFails, Release, CloseDiscarded, Rmdir, Stage, InstallFirst,
        InstallSecond, Rollback, ReadFirst, ReadSecond, Crash
  <2> QED
    BY <1>a, <1>b, <2>1, <2>2, OthersStay DEF OneInode, Holding
<1> QED
  BY <1>1, <1>2

LEMMA LockStep == LockIInv /\ [Next]_vars => LockIInv'
<1> SUFFICES ASSUME LockIInv, [Next]_vars PROVE LockIInv'
  OBVIOUS
<1>1. ASSUME NEW c \in Commands, Step(c) \/ Crash(c)
      PROVE  LockIInv'
  BY <1>1, TypeStep, PlacesStep, HoldersStep, CompatibleStep, InodeStep
  DEF LockIInv
<1>2. CASE UNCHANGED vars
  BY <1>2
  DEF vars, LockIInv, TypeOK, StagedWhileInstalling, WriterPlaces,
      HoldersHold, LocksCompatible, OneInode, Holding, Writing, Mode
<1> QED
  BY <1>1, <1>2 DEF Next

THEOREM LockInvariance == Spec => []LockIInv
<1>1. Init => LockIInv
  BY InitLock
<1> QED
  BY <1>1, LockStep, PTL DEF Spec

(* The directory, the descriptors and the locks are what they should be.    *)
THEOREM LockTypeCorrect == Spec => []TypeOK
<1>1. LockIInv => TypeOK
  BY DEF LockIInv
<1> QED
  BY <1>1, LockInvariance, PTL

LEMMA HoldersExclude == LockIInv => ExclusiveUntilDiscard
<1> SUFFICES ASSUME LockIInv, "discard" \notin incidents,
                    NEW c \in Commands, NEW d \in Commands,
                    c # d, Holding(c), Holding(d)
             PROVE  ~Writing(c) /\ ~Writing(d)
  BY DEF ExclusiveUntilDiscard, Exclusive
<1>1. fd[c] = lockfile /\ fd[d] = lockfile
  BY DEF LockIInv, OneInode
<1>2. held[c] = Mode(c) /\ held[d] = Mode(d)
  BY DEF LockIInv, HoldersHold
<1> QED
  BY <1>1, <1>2 DEF LockIInv, LocksCompatible, Mode, Writing

(* As long as no failed init discards the lock file, no command works on a  *)
(* project together with one that changes it, whoever fails or is killed.   *)
THEOREM LockExcludes == Spec => []ExclusiveUntilDiscard
  BY LockInvariance, HoldersExclude, PTL

-----------------------------------------------------------------------------
(* What a reader sees.                                                      *)

(* No command between its lock and its release meets a writer there.        *)
LEMMA AloneWithWriter ==
  ASSUME NEW c \in Commands, NEW d \in Commands \ {c}, LockIInv,
         "discard" \notin incidents, Holding(c), Holding(d)
  PROVE  ~Writing(c) /\ ~Writing(d)
  BY HoldersExclude DEF ExclusiveUntilDiscard, Exclusive

(* An installation puts both files in place or none, for everybody else.    *)
LEMMA InstallCoherent ==
  ASSUME NEW c \in Commands, LockIInv, ViewIInv, incidents = {},
         InstallFirst(c) \/ InstallSecond(c) \/ Rollback(c)
  PROVE  ViewIInv'
<1> USE DEF Goto, Fail
<1>a. /\ TypeOK /\ WriterPlaces /\ FilesCoherent /\ CoherentView
      /\ files \in Files /\ view[c] \in Files
  BY DEF LockIInv, ViewIInv, TypeOK
<1>b. Writing(c) /\ Holding(c)
  BY <1>a DEF WriterPlaces, Holding, InstallFirst, InstallSecond, Rollback
<1>c. \A d \in Commands \ {c} : pc'[d] = pc[d] /\ view'[d] = view[d]
  BY <1>a, OthersStay DEF Step
<1>d. \A d \in Commands \ {c} : pc[d] \notin {"first", "second", "read", "release"}
  BY <1>b, AloneWithWriter DEF Holding
<1>1. CASE InstallFirst(c)
  <2>1. /\ pc'[c] = "second" /\ view' = view /\ view[c] = files
        /\ files' = [first |-> c, second |-> files.second]
    BY <1>a, <1>1 DEF InstallFirst, TypeOK, FilesCoherent, Files
  <2>2. files.first = files.second
    BY <1>a, <1>d, <1>1 DEF InstallFirst, FilesCoherent
  <2> QED
    BY <1>c, <1>d, <2>1, <2>2 DEF ViewIInv, FilesCoherent, CoherentView
<1>2. CASE InstallSecond(c)
  <2>1. /\ pc'[c] = "release" /\ pc[c] = "second" /\ kind' = kind
        /\ files' = [first |-> c, second |-> c]
    BY <1>a, <1>2 DEF InstallSecond, TypeOK, FilesCoherent
  <2> QED
    BY <1>b, <1>c, <1>d, <2>1
    DEF ViewIInv, FilesCoherent, CoherentView, Writing
<1>3. CASE Rollback(c)
  <2>1. pc'[c] \in {"unlink", "release"} /\ kind' = kind /\ view' = view
    BY <1>a, <1>3 DEF Rollback, TypeOK
  <2>2. files'.first = files'.second
    BY <1>a, <1>d, <1>3 DEF Rollback, FilesCoherent, Files
  <2> QED
    BY <1>b, <1>c, <1>d, <2>1, <2>2
    DEF ViewIInv, FilesCoherent, CoherentView, Writing
<1> QED
  BY <1>1, <1>2, <1>3

LEMMA ViewStep == LockIInv /\ ViewIInv /\ [Next]_vars => ViewIInv'
<1> SUFFICES ASSUME LockIInv, ViewIInv, [Next]_vars PROVE ViewIInv'
  OBVIOUS
<1> USE DEF Goto, GiveUp, Fail, Close, directoryVars
<1>1. CASE UNCHANGED vars
  BY <1>1 DEF vars, ViewIInv, FilesCoherent, CoherentView, Writing
<1>2. ASSUME NEW c \in Commands, Step(c) \/ Crash(c)
      PROVE  ViewIInv'
  <2>a. TypeOK /\ WriterPlaces /\ FilesCoherent /\ CoherentView
    BY DEF LockIInv, ViewIInv
  <2>1. CASE incidents' # {}
    BY <2>1 DEF ViewIInv, FilesCoherent, CoherentView
  <2>2. CASE incidents' = {}
    <3>1. incidents = {} /\ Step(c) /\ ~Unlink(c)
      BY <1>2, <2>a, <2>2
      DEF TypeOK, Step, Stat, Mkdir, Open, Reopen, Flock, AcquireFails,
          Release, Unlink, CloseDiscarded, Rmdir, Stage, InstallFirst,
          InstallSecond, Rollback, ReadFirst, ReadSecond, Crash
    <3>2. CASE InstallFirst(c) \/ InstallSecond(c) \/ Rollback(c)
      BY <3>1, <3>2, InstallCoherent
    <3>3. CASE Stage(c) \/ ReadFirst(c) \/ ReadSecond(c)
      <4>1. files' = files /\ kind' = kind /\ files \in Files /\ view[c] \in Files
        BY <2>a, <3>3 DEF Stage, ReadFirst, ReadSecond, TypeOK
      <4>2. \A d \in Commands \ {c} : pc'[d] = pc[d] /\ view'[d] = view[d]
        BY <2>a, <3>1, OthersStay
      <4>3. CASE Stage(c)
        BY <2>a, <3>1, <4>1, <4>2, <4>3
        DEF TypeOK, Stage, ViewIInv, FilesCoherent, CoherentView, Writing
      <4>4. CASE ReadFirst(c)
        BY <2>a, <3>1, <4>1, <4>2, <4>4
        DEF TypeOK, Files, ReadFirst, ViewIInv, FilesCoherent, CoherentView, Writing
      <4>5. CASE ReadSecond(c)
        <5>1. ~Writing(c) /\ Holding(c) /\ pc'[c] = "release"
          BY <2>a, <4>5 DEF ReadSecond, WriterPlaces, Holding, TypeOK
        <5>2. \A d \in Commands : pc[d] # "second"
          BY <2>a, <3>1, <4>5, <5>1, AloneWithWriter
          DEF ReadSecond, WriterPlaces, Holding
        <5>3. view'[c].first = view'[c].second
          BY <2>a, <3>1, <4>1, <4>5, <5>2
          DEF TypeOK, Files, ReadSecond, FilesCoherent
        <5> QED
          BY <2>a, <3>1, <4>1, <4>2, <5>1, <5>2, <5>3
          DEF ViewIInv, FilesCoherent, CoherentView, Writing
      <4> QED
        BY <3>3, <4>3, <4>4, <4>5
    <3>4. CASE ~(\/ InstallFirst(c) \/ InstallSecond(c) \/ Rollback(c)
                 \/ Stage(c) \/ ReadFirst(c) \/ ReadSecond(c))
      <4>1. /\ UNCHANGED <<files, kind, view>>
            /\ pc'[c] \notin {"first", "second", "read", "release"}
            /\ pc[c] # "second"
        BY <2>a, <3>1, <3>4
        DEF TypeOK, Step, Stat, Mkdir, Open, Reopen, Flock, AcquireFails,
            Release, Unlink, CloseDiscarded, Rmdir
      <4>2. \A d \in Commands \ {c} : pc'[d] = pc[d]
        BY <2>a, <3>1, OthersStay
      <4> QED
        BY <2>a, <3>1, <4>1, <4>2
        DEF ViewIInv, FilesCoherent, CoherentView, Writing
    <3> QED
      BY <3>2, <3>3, <3>4
  <2> QED
    BY <2>1, <2>2
<1> QED
  BY <1>1, <1>2 DEF Next

(* What a reader has loaded under the lock was written by one command, if   *)
(* none was killed between its two files and no lock file was discarded.    *)
THEOREM ReadersCoherent == Spec => []CoherentView
<1>1. Init => ViewIInv
  BY InitLock
<1>2. Spec => []ViewIInv
  BY <1>1, ViewStep, LockInvariance, PTL DEF Spec
<1>3. ViewIInv => CoherentView
  BY DEF ViewIInv
<1> QED
  BY <1>2, <1>3, PTL

=============================================================================
