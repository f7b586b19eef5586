-------------------------- MODULE ProjectFilesProofs --------------------------
(***************************************************************************)
(* Theorems about the replacement of a project's files, for any number of  *)
(* commands, process ids, failed operations and crashes.                   *)
(***************************************************************************)
EXTENDS ProjectFiles, TLAPS

-----------------------------------------------------------------------------
(* The order of the operations of a command.                                *)

LEMMA TurnIsInteger ==
  ASSUME NEW owner, NEW op, NEW n \in Names \cup {"directory"}
  PROVE  Turn(owner, op, n) \in Int
<1>1. Position[n] \in Int
  BY DEF Position, Names, Managed, Generated, Imported
<1> QED
  BY <1>1 DEF Turn

LEMMA TurnsForward ==
  ASSUME NEW owner, NEW m \in Names, NEW n \in Names
  PROVE  /\ Turn(owner, "stage", m) < Turn(owner, "backup", n)
         /\ Turn(owner, "stage", m) < Turn(owner, "place", n)
         /\ Turn(owner, "stage", m) < Turn(owner, "discard", n)
         /\ Turn(owner, "backup", n) < Turn(owner, "place", n)
         /\ Turn(owner, "backup", m) < Turn(owner, "discard", n)
         /\ Turn(owner, "place", m) < Turn(owner, "discard", n)
<1>1. Position[m] \in 1 .. 8 /\ Position[n] \in 1 .. 8
  BY DEF Position, Names, Managed, Generated, Imported
<1> QED
  BY <1>1 DEF Turn

LEMMA TurnOfSync ==
  ASSUME NEW owner, owner # "init", NEW n \in Names
  PROVE  /\ Turn(owner, "stage", n) < Turn(owner, "sync", "directory")
         /\ Turn(owner, "backup", n) < Turn(owner, "sync", "directory")
         /\ Turn(owner, "place", n) < Turn(owner, "sync", "directory")
         /\ Turn(owner, "sync", "directory") < Turn(owner, "discard", n)
<1>1. Position[n] \in 1 .. 8
  BY DEF Position, Names, Managed, Generated, Imported
<1> QED
  BY <1>1 DEF Turn

LEMMA TurnsOfImport ==
  ASSUME NEW owner, owner # "init", NEW m \in Names, NEW n \in Names,
         Position[m] < Position[n]
  PROVE  /\ Turn(owner, "backup", m) < Turn(owner, "backup", n)
         /\ Turn(owner, "backup", m) < Turn(owner, "place", n)
         /\ Turn(owner, "place", m) < Turn(owner, "backup", n)
         /\ Turn(owner, "place", m) < Turn(owner, "place", n)
<1>1. Position[m] \in 1 .. 8 /\ Position[n] \in 1 .. 8
  BY DEF Position, Names, Managed, Generated, Imported
<1> QED
  BY <1>1 DEF Turn

LEMMA TurnsOfUndo ==
  ASSUME NEW owner, NEW n \in Names
  PROVE  Turn(owner, "remove", n) < Turn(owner, "restore", n)
<1>1. Position[n] \in 1 .. 8
  BY DEF Position, Names, Managed, Generated, Imported
<1> QED
  BY <1>1 DEF Turn

-----------------------------------------------------------------------------
(* What the rest of a script says about the operations before.              *)

(* An operation of the whole script whose turn is later is not done yet.    *)
LEMMA Later ==
  ASSUME ScriptSound, Forward, NEW op, NEW k, Pending(op, k),
         NEW then, NEW n, <<then, n>> \in WholeScript,
         Turn(Owner, op, k) < Turn(Owner, then, n)
  PROVE  Pending(then, n)
<1>1. /\ <<op, k>> \in script
      /\ \A x \in script, y \in WholeScript :
           Turn(Owner, x[1], x[2]) < Turn(Owner, y[1], y[2]) => y \in script
  BY DEF ScriptSound, Pending
<1>2. Turn(Owner, <<op, k>>[1], <<op, k>>[2])
        < Turn(Owner, <<then, n>>[1], <<then, n>>[2])
  OBVIOUS
<1> QED
  BY <1>1, <1>2 DEF Pending

(* An operation whose turn is earlier than the one that is due is done.     *)
LEMMA Earlier ==
  ASSUME NEW op, NEW k \in Names \cup {"directory"}, Due(op, k),
         NEW first, NEW n \in Names \cup {"directory"},
         Turn(Owner, first, n) < Turn(Owner, op, k)
  PROVE  ~Pending(first, n)
<1>1. Turn(Owner, op, k) \in Int /\ Turn(Owner, first, n) \in Int
  BY TurnIsInteger
<1>2. ASSUME Pending(first, n) PROVE FALSE
  <2>1. <<first, n>> # <<op, k>>
    BY <1>1
  <2>2. Turn(Owner, op, k) < Turn(Owner, <<first, n>>[1], <<first, n>>[2])
    BY <1>2, <2>1 DEF Due, Pending
  <2> QED
    BY <1>1, <2>2
<1> QED
  BY <1>2

LEMMA Whole ==
  ASSUME Typed, CommandSound, Forward
  PROVE  /\ \A n \in cmd.wanted : <<"place", n>> \in WholeScript
         /\ \A n \in cmd.originals : /\ <<"backup", n>> \in WholeScript
                                     /\ <<"discard", n>> \in WholeScript
         /\ \A n \in Area(Owner) : Owner # "init" =>
              <<"backup", n>> \in WholeScript
         /\ \A n : <<"place", n>> \in WholeScript => n \in cmd.wanted
         /\ \A n : Owner = "init" /\ <<"backup", n>> \in WholeScript =>
              n \in cmd.originals
         /\ \A op, n : <<op, n>> \in WholeScript =>
              /\ op \in {"stage", "backup", "place", "sync", "discard"}
              /\ op # "sync" => n \in Area(Owner)
              /\ op = "sync" => Owner # "init" /\ n = "directory"
<1>1. CASE Owner = "init"
  BY <1>1 DEF CommandSound, Forward, WholeScript, InitScript, Each, Area, Managed
<1>2. CASE Owner # "init"
  BY <1>2 DEF CommandSound, Forward, WholeScript, ImportScript, Each, Area
<1> QED
  BY <1>1, <1>2

LEMMA Rest ==
  ASSUME Typed, CommandSound, ScriptSound, Forward,
         NEW op, NEW k \in Names \cup {"directory"}, Due(op, k)
  PROVE  /\ Pending(op, k)
         /\ op \in {"stage", "backup", "place", "sync", "discard"}
         /\ op # "sync" => k \in Area(Owner)
         /\ op = "place" => k \in cmd.wanted
         /\ op = "backup" /\ Owner = "init" => k \in cmd.originals
         /\ op \in {"backup", "place", "sync", "discard"} =>
              \A n \in Names : ~Pending("stage", n)
         /\ op \in {"place", "discard"} => ~Pending("backup", k)
         /\ op = "discard" => \A n \in Names : ~Pending("place", n)
<1>1. Pending(op, k) /\ <<op, k>> \in WholeScript
  BY DEF Due, Pending, ScriptSound
<1>2. /\ op \in {"stage", "backup", "place", "sync", "discard"}
      /\ op # "sync" => k \in Area(Owner)
      /\ op = "sync" => Owner # "init" /\ k = "directory"
      /\ op = "place" => k \in cmd.wanted
      /\ op = "backup" /\ Owner = "init" => k \in cmd.originals
  BY <1>1, Whole
<1>3. op # "sync" => k \in Names
  BY <1>2 DEF Area, Names
<1>4. ASSUME op \in {"backup", "place", "sync", "discard"}, NEW n \in Names
      PROVE  ~Pending("stage", n)
  <2>1. Turn(Owner, "stage", n) < Turn(Owner, op, k)
    BY <1>2, <1>3, <1>4, TurnsForward, TurnOfSync
  <2> QED
    BY <2>1, Earlier
<1>5. ASSUME op \in {"place", "discard"} PROVE ~Pending("backup", k)
  <2>1. k \in Names
    BY <1>3, <1>5
  <2>2. Turn(Owner, "backup", k) < Turn(Owner, op, k)
    BY <1>5, <2>1, TurnsForward
  <2> QED
    BY <2>1, <2>2, Earlier
<1>6. ASSUME op = "discard", NEW n \in Names PROVE ~Pending("place", n)
  <2>1. Turn(Owner, "place", n) < Turn(Owner, op, k)
    BY <1>3, <1>6, TurnsForward
  <2> QED
    BY <2>1, Earlier
<1> QED
  BY <1>1, <1>2, <1>4, <1>5, <1>6

LEMMA RestToCome ==
  ASSUME Typed, CommandSound, ScriptSound, Forward,
         NEW op, NEW k \in Names \cup {"directory"}, Due(op, k)
  PROVE  /\ \A n \in cmd.wanted : op = "stage" => Pending("place", n)
         /\ \A n \in cmd.wanted : Pending("backup", n) => Pending("place", n)
         /\ \A n \in cmd.originals :
              op = "stage" /\ Owner = "init" => Pending("backup", n)
         /\ \A n \in Area(Owner) :
              op = "stage" /\ Owner # "init" => Pending("backup", n)
         /\ \A n \in cmd.originals :
              op \in {"stage", "backup", "place", "sync"} =>
                Pending("discard", n)
         /\ \A n \in Area(Owner) :
              op \in {"backup", "place", "sync"} /\ Owner # "init"
                /\ Position[k] < Position[n] =>
                /\ Pending("backup", n)
                /\ n \in cmd.wanted => Pending("place", n)
<1>0. Area(Owner) \subseteq Names /\ cmd.wanted \subseteq Names
        /\ cmd.originals \subseteq Names /\ cmd.originals \subseteq Area(Owner)
  BY DEF Area, Names, CommandSound, Forward
<1>1. Pending(op, k) /\ (op # "sync" => k \in Names)
        /\ (op = "sync" => Owner # "init" /\ k = "directory")
  <2>1. Pending(op, k) /\ <<op, k>> \in WholeScript
    BY DEF Due, Pending, ScriptSound
  <2> QED
    BY <1>0, <2>1, Whole
<1>2. ASSUME NEW n \in cmd.wanted, op = "stage" PROVE Pending("place", n)
  <2>1. Turn(Owner, "stage", k) < Turn(Owner, "place", n)
    BY <1>0, <1>1, <1>2, TurnsForward
  <2>2. <<"place", n>> \in WholeScript
    BY Whole
  <2> QED
    BY <1>1, <1>2, <2>1, <2>2, Later
<1>3. ASSUME NEW n \in cmd.wanted, Pending("backup", n)
      PROVE  Pending("place", n)
  <2>1. Turn(Owner, "backup", n) < Turn(Owner, "place", n)
    BY <1>0, TurnsForward
  <2>2. <<"place", n>> \in WholeScript
    BY Whole
  <2> QED
    BY <1>3, <2>1, <2>2, Later
<1>4. ASSUME NEW n \in Area(Owner), op = "stage",
             <<"backup", n>> \in WholeScript
      PROVE  Pending("backup", n)
  <2>1. Turn(Owner, "stage", k) < Turn(Owner, "backup", n)
    BY <1>0, <1>1, <1>4, TurnsForward
  <2> QED
    BY <1>1, <1>4, <2>1, Later
<1>5. ASSUME NEW n \in cmd.originals,
             op \in {"stage", "backup", "place", "sync"}
      PROVE  Pending("discard", n)
  <2>1. Turn(Owner, op, k) < Turn(Owner, "discard", n)
    BY <1>0, <1>1, <1>5, TurnsForward, TurnOfSync
  <2>2. <<"discard", n>> \in WholeScript
    BY Whole
  <2> QED
    BY <1>1, <2>1, <2>2, Later
<1>6. ASSUME NEW n \in Area(Owner), op \in {"backup", "place", "sync"},
             Owner # "init", Position[k] < Position[n]
      PROVE  /\ Pending("backup", n)
             /\ n \in cmd.wanted => Pending("place", n)
  <2>1. op # "sync"
    BY <1>0, <1>1, <1>6 DEF Position, Names, Managed, Generated, Imported
  <2>2. k \in Names /\ n \in Names
    BY <1>0, <1>1, <2>1
  <2>3. Turn(Owner, op, k) < Turn(Owner, "backup", n)
    BY <1>6, <2>1, <2>2, TurnsOfImport
  <2>4. <<"backup", n>> \in WholeScript
    BY <1>6, Whole
  <2>5. Pending("backup", n)
    BY <1>1, <2>3, <2>4, Later
  <2> QED
    BY <1>3, <2>5
<1>7. \A n \in cmd.originals : <<"backup", n>> \in WholeScript
  BY Whole
<1>8. \A n \in Area(Owner) : Owner # "init" => <<"backup", n>> \in WholeScript
  BY Whole
<1> QED
  BY <1>0, <1>2, <1>3, <1>4, <1>5, <1>6, <1>7, <1>8

-----------------------------------------------------------------------------
(* Steps of a command that goes forward.                                    *)

LEMMA ScriptGoesOn ==
  ASSUME Typed, ScriptSound, Forward,
         NEW op, NEW k \in Names \cup {"directory"},
         Due(op, k), Proceed(op, k),
         cmd'.owner = cmd.owner, cmd'.wanted = cmd.wanted,
         Owner = "init" => cmd'.originals = cmd.originals
  PROVE  ScriptSound'
<1>1. WholeScript' = WholeScript /\ Owner' = Owner
  BY DEF WholeScript, Owner
<1>2. script' = script \ {<<op, k>>} /\ script \subseteq WholeScript
  BY DEF Proceed, ScriptSound
<1>3. ASSUME NEW x \in script', NEW y \in WholeScript,
             Turn(Owner, x[1], x[2]) < Turn(Owner, y[1], y[2])
      PROVE  y \in script'
  <2>1. y \in script
    BY <1>2, <1>3 DEF ScriptSound
  <2>2. Turn(Owner, op, k) < Turn(Owner, x[1], x[2])
    BY <1>2, <1>3 DEF Due
  <2>3. Turn(Owner, op, k) \in Int /\ Turn(Owner, x[1], x[2]) \in Int
    BY <1>2, <1>3, TurnIsInteger DEF Typed, Operation
  <2>4. ASSUME y = <<op, k>> PROVE FALSE
    <3>1. Turn(Owner, y[1], y[2]) = Turn(Owner, op, k)
      BY <2>4
    <3> QED
      BY <1>3, <2>2, <2>3, <3>1
  <2> QED
    BY <1>2, <2>1, <2>4
<1> QED
  BY <1>1, <1>2, <1>3 DEF ScriptSound

-----------------------------------------------------------------------------
(* The turn to undo.                                                        *)

LEMMA UndoTyped ==
  ASSUME Typed, CommandSound, Forward, NEW op, NEW k, Undo(op, k)
  PROVE  /\ cmd' = [cmd EXCEPT !.failed = TRUE]
         /\ cmd' \in Command
         /\ cmd'.failed
         /\ script' \subseteq {"remove", "restore", "clean"} \X Area(Owner)
         /\ script' \subseteq Operation
<1>1. /\ cmd' = [cmd EXCEPT !.failed = TRUE]
      /\ cmd' \in Command
      /\ cmd'.failed
  BY DEF Undo, Typed, Command
<1>2. /\ cmd.placed \subseteq Area(Owner) /\ cmd.originals \subseteq Area(Owner)
      /\ cmd.created \subseteq Area(Owner) /\ cmd.wanted \subseteq Area(Owner)
  BY DEF CommandSound, Forward
<1>3. script' \subseteq {"remove", "restore", "clean"} \X Area(Owner)
  BY <1>2 DEF Undo, UndoInit, UndoImport, Each
<1>4. Area(Owner) \subseteq Names
  BY DEF Area, Names
<1>5. script' \subseteq Operation
  BY <1>3, <1>4 DEF Operation
<1> QED
  BY <1>1, <1>3, <1>5

(* The rollback, in terms of what the command has done.                     *)
LEMMA UndoScript ==
  ASSUME NEW op, NEW k, Undo(op, k), NEW n
  PROVE  /\ Pending("remove", n)' <=>
              /\ op # "stage" /\ n \in cmd.placed
              /\ Owner # "init" =>
                   n \in Imported /\ Position[n] <= Position[k]
         /\ Pending("restore", n)' <=>
              /\ op # "stage" /\ n \in cmd.originals
              /\ Owner # "init" =>
                   n \in Imported /\ Position[n] <= Position[k]
         /\ Owner = "init" => (Pending("clean", n)' <=> n \in cmd.created)
<1>1. CASE Owner = "init"
  BY <1>1 DEF Undo, UndoInit, Each, Pending
<1>2. CASE Owner # "init"
  BY <1>2 DEF Undo, UndoImport, Each, Pending
<1> QED
  BY <1>1, <1>2

LEMMA RollbackBegins ==
  ASSUME Typed, CommandSound, OwnNames, ScriptSound, ForwardSound, Forward,
         NEW op \in {"stage", "backup", "place", "sync"},
         NEW k \in Names \cup {"directory"}, Due(op, k), Undo(op, k),
         UNCHANGED <<file, new, backup, result, ignored, before>>
  PROVE  RollbackSound'
<1>1. /\ cmd' = [cmd EXCEPT !.failed = TRUE]
      /\ script' \subseteq {"remove", "restore", "clean"} \X Area(Owner)
  BY UndoTyped
<1>2. Owner' = Owner /\ cmd'.number = cmd.number
  BY <1>1 DEF Owner, Typed, Command
<1>3. ASSUME NEW n \in Names PROVE UndoSound(n)'
  <2>1. FileSound(n) /\ BackupSound(n) /\ NewSound(n)
    BY DEF ForwardSound
  <2>2. /\ cmd.wanted \subseteq Area(Owner)
        /\ cmd.originals \subseteq Area(Owner)
        /\ cmd.placed \subseteq cmd.wanted
        /\ Owner # "init" => Area(Owner) = Imported
    BY DEF CommandSound, Forward, Area
  <2>3. /\ n \in cmd.originals /\ backup[Owner][n] = Absent =>
             Pending("backup", n)
        /\ n \in cmd.originals /\ backup[Owner][n] # Absent /\ op # "stage" =>
             MovedAway(n) /\ backup[Owner][n] = before[n]
        /\ n \notin cmd.originals /\ op # "stage" =>
             backup[Owner][n] = Absent
    BY <2>1, Rest, RestToCome DEF BackupSound, FileSound, MovedAway
  <2>4. n \in cmd.placed =>
          /\ op # "stage" /\ ~Pending("backup", n)
          /\ file[n] = cmd.number
          /\ n \in cmd.originals \/ before[n] = Absent
    BY <2>1, <2>2, RestToCome DEF FileSound, NewSound
  <2>5. /\ n \notin cmd.placed /\ MovedAway(n) =>
             file[n] = Absent /\ op # "stage"
        /\ n \notin cmd.placed /\ ~MovedAway(n) => file[n] = before[n]
    BY <2>1, <2>2, RestToCome DEF FileSound, MovedAway
  <2>6. op # "stage" /\ Owner # "init" /\ n \in Imported
          /\ ~(Position[n] <= Position[k]) =>
        n \notin cmd.placed /\ n \notin cmd.originals
    <3>1. Position[n] \in Int /\ Position[k] \in Int
      BY DEF Position, Names, Managed, Generated, Imported
    <3> QED
      BY <2>1, <2>2, <3>1, RestToCome DEF NewSound, FileSound
  <2>7. Owner # "init" /\ n \notin Imported =>
          n \notin cmd.placed /\ n \notin cmd.originals
    BY <2>2
  <2>8. /\ Pending("remove", n)' <=> op # "stage" /\ n \in cmd.placed
        /\ Pending("restore", n)' <=> op # "stage" /\ n \in cmd.originals
        /\ Owner = "init" => (Pending("clean", n)' <=> n \in cmd.created)
    BY <2>6, <2>7, UndoScript
  <2>9. Outcome(n)' = before[n]
    BY <1>2, <2>3, <2>4, <2>5, <2>8 DEF Outcome, MovedAway
  <2>10. Pending("restore", n)' /\ backup[Owner][n] # Absent =>
           file[n] \in {Absent, cmd.number}
    BY <2>3, <2>4, <2>5, <2>8
  <2>11. Owner = "init" =>
           /\ new[Owner][n] # Absent => Pending("clean", n)'
           /\ backup[Owner][n] # Absent => Pending("restore", n)'
    <3>1. Owner = "init" /\ op = "stage" => backup[Owner][n] = Absent
      BY <2>1, RestToCome DEF BackupSound, MovedAway
    <3> QED
      BY <2>1, <2>3, <2>8, <3>1 DEF NewSound
  <2> QED
    BY <1>2, <2>4, <2>8, <2>9, <2>10, <2>11 DEF UndoSound
<1>4. Area(Owner)' = Area(Owner)
  BY <1>2 DEF Area
<1> QED
  BY <1>1, <1>3, <1>4 DEF RollbackSound

-----------------------------------------------------------------------------
(* Steps of a command that goes on.                                         *)

LEMMA Direction ==
  ASSUME FilesIInv, NEW op, NEW k \in Names \cup {"directory"}, Due(op, k)
  PROVE  /\ result = "running"
         /\ op \in {"stage", "backup", "place", "sync", "discard"} => Forward
         /\ op \in {"remove", "restore", "clean"} =>
              Undoing /\ k \in Area(Owner)
<1>1. result = "running" /\ <<op, k>> \in script
  BY DEF Due, Pending
<1>2. CASE ~cmd.failed
  BY <1>1, <1>2, Rest DEF FilesIInv, Forward
<1>3. CASE cmd.failed
  BY <1>1, <1>3 DEF FilesIInv, RollbackSound, Undoing
<1> QED
  BY <1>1, <1>2, <1>3

LEMMA HistoryGoesOn ==
  ASSUME FilesIInv, result = "running", result' = "running",
         before' = before,
         incident' \/ (ignored' = ignored /\ incident' = incident)
  PROVE  AllOrNothing' /\ CoherentHistory'
<1>1. AllOrNothing'
  BY DEF AllOrNothing
<1>2. CoherentHistory'
  BY DEF FilesIInv, CoherentHistory, Coherent
<1> QED
  BY <1>1, <1>2

(* One set of the command's marks changes.                                  *)
LEMMA OneMark ==
  ASSUME NEW c \in Command, NEW S \in SUBSET Names, NEW T \in SUBSET Names
  PROVE  /\ [c EXCEPT !.created = S] \in Command
         /\ [c EXCEPT !.originals = S] \in Command
         /\ [c EXCEPT !.placed = S, !.created = T] \in Command
  BY DEF Command

LEMMA StageKeeps ==
  ASSUME FilesIInv, NEW n \in Names, Stage(n), Stageable(n)
  PROVE  FilesIInv'
<1> USE DEF history
<1>a. /\ Due("stage", n) /\ Proceed("stage", n)
      /\ UNCHANGED <<file, backup, result, ignored, faults, before, writers,
                     incident>>
  BY DEF Stage
<1>b. /\ Typed /\ OwnNames /\ CommandSound /\ ImportsBoth /\ ScriptSound
      /\ ForwardSound /\ Forward /\ result = "running"
  BY <1>a, Direction DEF FilesIInv
<1>c. n \in Area(Owner) /\ Pending("stage", n)
  BY <1>a, <1>b, Rest
<1>d. \/ /\ n \in cmd.wanted
         /\ new' = [new EXCEPT ![Owner][n] = cmd.number]
         /\ cmd' = [cmd EXCEPT !.created = @ \cup {n}]
      \/ n \notin cmd.wanted /\ UNCHANGED <<new, cmd>>
  BY DEF Stage
<1>e. Owner \in Owners /\ cmd.number \in Content
        /\ new \in [Owners -> [Names -> Content]]
  BY <1>b DEF Typed, Owner, Command
<1>1. Typed'
  <2>1. new' \in [Owners -> [Names -> Content]]
    <3>1. CASE n \in cmd.wanted
      BY <1>d, <1>e, <3>1
    <3>2. CASE n \notin cmd.wanted
      BY <1>d, <1>e, <3>2
    <3> QED
      BY <3>1, <3>2
  <2>2. cmd' \in Command
    <3>1. cmd \in Command /\ cmd.created \cup {n} \in SUBSET Names
      BY <1>b DEF Typed, Command
    <3> QED
      BY <1>d, <3>1, OneMark
  <2> QED
    BY <1>a, <1>b, <2>1, <2>2 DEF Typed, Proceed
<1>2. /\ Owner' = Owner /\ cmd'.number = cmd.number
      /\ cmd'.wanted = cmd.wanted /\ cmd'.originals = cmd.originals
      /\ cmd'.placed = cmd.placed /\ cmd'.failed = cmd.failed
      /\ cmd'.created \in {cmd.created, cmd.created \cup {n}}
      /\ n \in cmd.wanted => n \in cmd'.created
  BY <1>b, <1>d DEF Typed, Owner, Command
<1>3. OwnNames'
  <2>1. CASE n \in cmd.wanted
    <3>1. new' = [new EXCEPT ![Owner][n] = cmd.number] /\ backup' = backup
      BY <1>a, <1>d, <2>1
    <3>2. n \in Area(Owner) /\ OwnNames
      BY <1>b, <1>c
    <3>3. \A o \in Owners : \A m \in Names \ Area(o) : new'[o][m] = new[o][m]
      BY ONLY <1>e, <3>1, <3>2, n \in Names
    <3> QED
      BY <3>1, <3>2, <3>3 DEF OwnNames
  <2>2. CASE n \notin cmd.wanted
    BY <1>a, <1>b, <1>d, <2>2 DEF OwnNames
  <2> QED
    BY <2>1, <2>2
<1>4. CommandSound' /\ ImportsBoth'
  <2>1. CommandSound'
    <3>1. cmd'.created \subseteq cmd.wanted
      BY <1>b, <1>d, <1>2 DEF CommandSound
    <3> QED
      BY <1>a, <1>b, <1>2, <3>1 DEF CommandSound, Area
  <2>2. ImportsBoth'
    BY <1>a, <1>b, <1>2 DEF ImportsBoth
  <2> QED
    BY <2>1, <2>2
<1>5. ScriptSound'
  BY <1>a, <1>b, <1>2, ScriptGoesOn DEF Owner
<1>6. \A op, m : Pending(op, m)' <=> Pending(op, m) /\ <<op, m>> # <<"stage", n>>
  BY <1>a DEF Proceed, Pending
<1>7. ASSUME NEW m \in Names
      PROVE  FileSound(m)' /\ BackupSound(m)' /\ NewSound(m)'
  <2>1. FileSound(m) /\ BackupSound(m) /\ NewSound(m)
    BY <1>b DEF ForwardSound
  <2>2. FileSound(m)'
    BY <1>a, <1>2, <1>6, <2>1 DEF FileSound, MovedAway, Area
  <2>3. BackupSound(m)'
    BY <1>a, <1>2, <1>6, <2>1 DEF BackupSound, MovedAway, Stageable
  <2>4. m # n => new'[Owner][m] = new[Owner][m]
    BY <1>b, <1>d DEF Typed, Owner, Command
  <2>5. m = n /\ n \in cmd.wanted => new'[Owner][m] = cmd.number
    BY <1>b, <1>d DEF Typed, Owner, Command
  <2>6. m = n /\ n \notin cmd.wanted => new'[Owner][m] = new[Owner][m]
    BY <1>d
  <2>7. n \notin cmd.placed
    BY <1>a, <1>b, RestToCome, <2>1 DEF ForwardSound, NewSound
  <2>8. NewSound(m)'
    BY <1>2, <1>6, <2>1, <2>4, <2>5, <2>6, <2>7 DEF NewSound
  <2> QED
    BY <2>2, <2>3, <2>8
<1>8. ForwardSound' /\ RollbackSound'
  BY <1>b, <1>2, <1>7 DEF ForwardSound, RollbackSound, Undoing, Forward
<1>9. AllOrNothing' /\ CoherentHistory'
  BY <1>a, <1>b, HistoryGoesOn
<1> QED
  BY <1>1, <1>3, <1>4, <1>5, <1>8, <1>9 DEF FilesIInv

LEMMA BackupKeeps ==
  ASSUME FilesIInv, NEW n \in Names, Backup(n)
  PROVE  FilesIInv'
<1> USE DEF history
<1>a. /\ Due("backup", n) /\ Proceed("backup", n)
      /\ UNCHANGED <<new, result, ignored, faults, before, writers, incident>>
  BY DEF Backup
<1>b. /\ Typed /\ OwnNames /\ CommandSound /\ ImportsBoth /\ ScriptSound
      /\ ForwardSound /\ Forward /\ result = "running"
  BY <1>a, Direction DEF FilesIInv
<1>c. /\ n \in Area(Owner) /\ Pending("backup", n)
      /\ Owner = "init" => n \in cmd.originals
      /\ \A m \in Names : ~Pending("stage", m)
      /\ n \in cmd.wanted => Pending("place", n)
      /\ n \in cmd.originals => Pending("discard", n)
  BY <1>a, <1>b, Rest, RestToCome
<1>d. \/ file[n] = Absent /\ UNCHANGED <<file, backup, cmd>>
      \/ /\ file[n] # Absent
         /\ backup' = [backup EXCEPT ![Owner][n] = file[n]]
         /\ file' = [file EXCEPT ![n] = Absent]
         /\ cmd' = [cmd EXCEPT !.originals = @ \cup {n}]
  BY DEF Backup
<1>e. /\ Owner \in Owners /\ file[n] \in Content /\ Absent \in Content
      /\ file \in [Names -> Content]
      /\ backup \in [Owners -> [Names -> Content]]
  BY <1>b, BoundAssumption DEF Typed, Owner, Command, Content, Absent
<1>1. Typed'
  <2>1. file' \in [Names -> Content]
          /\ backup' \in [Owners -> [Names -> Content]]
    <3>1. CASE file[n] = Absent
      BY <1>d, <1>e, <3>1
    <3>2. CASE file[n] # Absent
      <4>1. /\ backup' = [backup EXCEPT ![Owner][n] = file[n]]
            /\ file' = [file EXCEPT ![n] = Absent]
        BY <1>d, <3>2
      <4>2. file' \in [Names -> Content]
        BY ONLY <1>e, <4>1, n \in Names
      <4>3. backup' \in [Owners -> [Names -> Content]]
        BY ONLY <1>e, <4>1, n \in Names
      <4> QED
        BY <4>2, <4>3
    <3> QED
      BY <3>1, <3>2
  <2>2. cmd' \in Command
    <3>1. cmd \in Command /\ cmd.originals \cup {n} \in SUBSET Names
      BY <1>b DEF Typed, Command
    <3> QED
      BY <1>d, <3>1, OneMark
  <2> QED
    BY <1>a, <1>b, <2>1, <2>2 DEF Typed, Proceed
<1>2. /\ Owner' = Owner /\ cmd'.number = cmd.number
      /\ cmd'.wanted = cmd.wanted /\ cmd'.created = cmd.created
      /\ cmd'.placed = cmd.placed /\ cmd'.failed = cmd.failed
      /\ cmd'.originals = IF file[n] = Absent THEN cmd.originals
                          ELSE cmd.originals \cup {n}
  BY <1>b, <1>d DEF Typed, Owner, Command
<1>3. OwnNames'
  BY <1>a, <1>b, <1>c, <1>d DEF OwnNames, Typed, Owner, Command
<1>4. CommandSound' /\ ImportsBoth'
  BY <1>a, <1>b, <1>c, <1>2 DEF CommandSound, ImportsBoth, Area
<1>5. ScriptSound'
  <2>1. Owner = "init" => cmd'.originals = cmd.originals
    BY <1>2, <1>c
  <2> QED
    BY <1>a, <1>b, <1>2, <2>1, ScriptGoesOn DEF Owner
<1>6. \A op, m : Pending(op, m)' <=> Pending(op, m) /\ <<op, m>> # <<"backup", n>>
  BY <1>a DEF Proceed, Pending
<1>7. ASSUME NEW m \in Names
      PROVE  FileSound(m)' /\ BackupSound(m)' /\ NewSound(m)'
  <2>1. /\ FileSound(m) /\ BackupSound(m) /\ NewSound(m)
        /\ FileSound(n) /\ BackupSound(n) /\ NewSound(n)
    BY <1>b DEF ForwardSound
  <2>2. /\ m # n => file'[m] = file[m] /\ backup'[Owner][m] = backup[Owner][m]
        /\ file[n] # Absent =>
             file'[n] = Absent /\ backup'[Owner][n] = file[n]
        /\ file[n] = Absent => file' = file /\ backup' = backup
    BY <1>d, <1>e
  <2>3. n \notin cmd.placed /\ file[n] = before[n] /\ backup[Owner][n] = Absent
    BY <1>c, <2>1 DEF FileSound, BackupSound, NewSound, MovedAway
  <2>4. file[n] = Absent => n \notin cmd.originals
    BY <2>1, <2>3 DEF FileSound
  <2>5. CASE m # n
    BY <1>a, <1>2, <1>6, <2>1, <2>2, <2>5
    DEF FileSound, BackupSound, NewSound, MovedAway, Area
  <2>6. CASE m = n /\ file[n] = Absent
    BY <1>a, <1>2, <1>6, <2>1, <2>2, <2>3, <2>4, <2>6
    DEF FileSound, BackupSound, NewSound, MovedAway, Area
  <2>7. CASE m = n /\ file[n] # Absent
    <3>1. Pending("discard", n)' /\ ~Pending("backup", n)'
      <4>1. <<"discard", n>> \in WholeScript
        BY <1>b, <1>c, Whole
           DEF WholeScript, ImportScript, InitScript, Each, Area
      <4>2. Turn(Owner, "backup", n) < Turn(Owner, "discard", n)
        BY TurnsForward
      <4> QED
        BY <1>b, <1>c, <1>6, <4>1, <4>2, Later
    <3>2. n \in cmd'.originals
      BY <1>2, <2>7
    <3> QED
      BY <1>a, <1>2, <1>6, <2>1, <2>2, <2>3, <2>7, <3>1, <3>2
      DEF FileSound, BackupSound, NewSound, MovedAway, Area
  <2> QED
    BY <2>5, <2>6, <2>7
<1>8. ForwardSound' /\ RollbackSound'
  BY <1>b, <1>2, <1>7 DEF ForwardSound, RollbackSound, Undoing, Forward
<1>9. AllOrNothing' /\ CoherentHistory'
  BY <1>a, <1>b, HistoryGoesOn
<1> QED
  BY <1>1, <1>3, <1>4, <1>5, <1>8, <1>9 DEF FilesIInv

LEMMA PlaceKeeps ==
  ASSUME FilesIInv, NEW n \in Names, Place(n)
  PROVE  FilesIInv'
<1> USE DEF history
<1>a. /\ Due("place", n) /\ Proceed("place", n)
      /\ file' = [file EXCEPT ![n] = new[Owner][n]]
      /\ new' = [new EXCEPT ![Owner][n] = Absent]
      /\ cmd' = [cmd EXCEPT !.placed = @ \cup {n}, !.created = @ \ {n}]
      /\ UNCHANGED <<backup, result, ignored, faults, before, writers,
                     incident>>
  BY DEF Place
<1>b. /\ Typed /\ OwnNames /\ CommandSound /\ ImportsBoth /\ ScriptSound
      /\ ForwardSound /\ Forward /\ result = "running"
  BY <1>a, Direction DEF FilesIInv
<1>c. /\ n \in Area(Owner) /\ Pending("place", n) /\ n \in cmd.wanted
      /\ \A m \in Names : ~Pending("stage", m)
      /\ ~Pending("backup", n)
  BY <1>a, <1>b, Rest
<1>e. /\ Owner \in Owners /\ new[Owner][n] \in Content /\ Absent \in Content
      /\ file \in [Names -> Content]
      /\ new \in [Owners -> [Names -> Content]]
  BY <1>b, BoundAssumption DEF Typed, Owner, Command, Content, Absent
<1>1. Typed'
  <2>1. file' \in [Names -> Content]
          /\ new' \in [Owners -> [Names -> Content]]
    BY <1>a, <1>e
  <2>2. cmd' \in Command
    <3>1. /\ cmd \in Command /\ cmd.placed \cup {n} \in SUBSET Names
          /\ cmd.created \ {n} \in SUBSET Names
      BY <1>b DEF Typed, Command
    <3> QED
      BY <1>a, <3>1, OneMark
  <2> QED
    BY <1>a, <1>b, <2>1, <2>2 DEF Typed, Proceed
<1>2. /\ Owner' = Owner /\ cmd'.number = cmd.number
      /\ cmd'.wanted = cmd.wanted /\ cmd'.created = cmd.created \ {n}
      /\ cmd'.placed = cmd.placed \cup {n} /\ cmd'.failed = cmd.failed
      /\ cmd'.originals = cmd.originals
  BY <1>a, <1>b DEF Typed, Owner, Command
<1>3. OwnNames'
  BY <1>a, <1>b, <1>c DEF OwnNames, Typed, Owner, Command
<1>4. CommandSound' /\ ImportsBoth'
  BY <1>a, <1>b, <1>c, <1>2 DEF CommandSound, ImportsBoth, Area
<1>5. ScriptSound'
  BY <1>a, <1>b, <1>2, ScriptGoesOn DEF Owner
<1>6. \A op, m : Pending(op, m)' <=> Pending(op, m) /\ <<op, m>> # <<"place", n>>
  BY <1>a DEF Proceed, Pending
<1>7. ASSUME NEW m \in Names
      PROVE  FileSound(m)' /\ BackupSound(m)' /\ NewSound(m)'
  <2>1. /\ FileSound(m) /\ BackupSound(m) /\ NewSound(m)
        /\ FileSound(n) /\ BackupSound(n) /\ NewSound(n)
    BY <1>b DEF ForwardSound
  <2>2. /\ m # n => file'[m] = file[m] /\ new'[Owner][m] = new[Owner][m]
        /\ file'[n] = new[Owner][n] /\ new'[Owner][n] = Absent
    BY <1>a, <1>e
  <2>3. new[Owner][n] = cmd.number
    BY <1>c, <2>1 DEF NewSound
  <2>4. FileSound(m)'
    BY <1>a, <1>2, <1>6, <2>1, <2>2, <2>3 DEF FileSound, MovedAway, Area
  <2>5. BackupSound(m)'
    BY <1>a, <1>2, <1>6, <2>1 DEF BackupSound, MovedAway
  <2>6. NewSound(m)'
    BY <1>c, <1>2, <1>6, <2>1, <2>2 DEF NewSound
  <2> QED
    BY <2>4, <2>5, <2>6
<1>8. ForwardSound' /\ RollbackSound'
  BY <1>b, <1>2, <1>7 DEF ForwardSound, RollbackSound, Undoing, Forward
<1>9. AllOrNothing' /\ CoherentHistory'
  BY <1>a, <1>b, HistoryGoesOn
<1> QED
  BY <1>1, <1>3, <1>4, <1>5, <1>8, <1>9 DEF FilesIInv

LEMMA SyncKeeps ==
  ASSUME FilesIInv, Sync
  PROVE  FilesIInv'
<1> USE DEF history
<1>a. /\ Due("sync", "directory") /\ Proceed("sync", "directory")
      /\ UNCHANGED <<file, new, backup, cmd, result, ignored, faults, before,
                     writers, incident>>
  BY DEF Sync
<1>b. /\ Typed /\ OwnNames /\ CommandSound /\ ImportsBoth /\ ScriptSound
      /\ ForwardSound /\ Forward /\ result = "running"
  BY <1>a, Direction DEF FilesIInv
<1>1. Typed'
  BY <1>a, <1>b DEF Typed, Proceed
<1>2. OwnNames' /\ CommandSound' /\ ImportsBoth' /\ Owner' = Owner
  BY <1>a, <1>b DEF OwnNames, CommandSound, ImportsBoth, Area, Owner
<1>3. ScriptSound'
  BY <1>a, <1>b, ScriptGoesOn
<1>4. \A op, m : op # "sync" => (Pending(op, m)' <=> Pending(op, m))
  BY <1>a DEF Proceed, Pending
<1>5. ASSUME NEW m \in Names
      PROVE  FileSound(m)' /\ BackupSound(m)' /\ NewSound(m)'
  <2>1. FileSound(m) /\ BackupSound(m) /\ NewSound(m)
    BY <1>b DEF ForwardSound
  <2> QED
    BY <1>a, <1>2, <1>4, <2>1
    DEF FileSound, BackupSound, NewSound, MovedAway, Area
<1>6. ForwardSound' /\ RollbackSound'
  BY <1>a, <1>b, <1>5 DEF ForwardSound, RollbackSound, Undoing, Forward
<1>7. AllOrNothing' /\ CoherentHistory'
  BY <1>a, <1>b, HistoryGoesOn
<1> QED
  BY <1>1, <1>2, <1>3, <1>6, <1>7 DEF FilesIInv

LEMMA DiscardKeeps ==
  ASSUME FilesIInv, NEW n \in Names,
         Discard(n) \/ FailureIgnored("discard", n)
  PROVE  FilesIInv'
<1> USE DEF history
<1>a. /\ Due("discard", n) /\ Proceed("discard", n)
      /\ UNCHANGED <<file, new, cmd, result, before, writers>>
  BY DEF Discard, FailureIgnored
<1>b. /\ Typed /\ OwnNames /\ CommandSound /\ ImportsBoth /\ ScriptSound
      /\ ForwardSound /\ Forward /\ result = "running"
  BY <1>a, Direction DEF FilesIInv
<1>c. /\ n \in Area(Owner)
      /\ \A m \in Names : ~Pending("stage", m)
      /\ ~Pending("backup", n)
  BY <1>a, <1>b, Rest
<1>d. \/ /\ n \in cmd.originals
         /\ backup' = [backup EXCEPT ![Owner][n] = Absent]
         /\ UNCHANGED <<ignored, incident, faults>>
      \/ n \notin cmd.originals /\ UNCHANGED <<backup, ignored, incident, faults>>
      \/ /\ UNCHANGED backup
         /\ ignored' = TRUE /\ incident' = TRUE
         /\ faults < MaxFaults /\ faults' = faults + 1
  BY DEF Discard, FailureIgnored, Fault
<1>e. /\ Owner \in Owners /\ Absent \in Content
      /\ backup \in [Owners -> [Names -> Content]]
  BY <1>b, BoundAssumption DEF Typed, Owner, Command, Content, Absent
<1>1. Typed'
  <2>1. backup' \in [Owners -> [Names -> Content]]
    BY <1>d, <1>e
  <2>2. faults' \in 0 .. MaxFaults
    BY <1>b, <1>d, BoundAssumption DEF Typed
  <2>3. ignored \in BOOLEAN /\ incident \in BOOLEAN
    BY <1>b DEF Typed
  <2>4. ignored' \in BOOLEAN /\ incident' \in BOOLEAN
    BY <1>d, <2>3, Zenon
  <2> QED
    BY <1>a, <1>b, <2>1, <2>2, <2>4 DEF Typed, Proceed
<1>2. CommandSound' /\ ImportsBoth' /\ Owner' = Owner
  BY <1>a, <1>b DEF CommandSound, ImportsBoth, Area, Owner
<1>3. OwnNames'
  BY <1>a, <1>b, <1>c, <1>d, <1>e DEF OwnNames, Typed
<1>4. ScriptSound'
  BY <1>a, <1>b, ScriptGoesOn
<1>5. \A op, m : Pending(op, m)' <=> Pending(op, m) /\ <<op, m>> # <<"discard", n>>
  BY <1>a DEF Proceed, Pending
<1>6. ASSUME NEW m \in Names
      PROVE  FileSound(m)' /\ BackupSound(m)' /\ NewSound(m)'
  <2>1. FileSound(m) /\ BackupSound(m) /\ NewSound(m)
    BY <1>b DEF ForwardSound
  <2>2. /\ m # n => backup'[Owner][m] = backup[Owner][m]
        /\ \/ m = n /\ backup'[Owner][m] = Absent
           \/ backup'[Owner][m] = backup[Owner][m]
        /\ m = n /\ n \in cmd.originals =>
             backup'[Owner][m] = Absent \/ ignored'
    BY <1>d, <1>e
  <2>3. ignored => ignored'
    BY <1>d
  <2>4. FileSound(m)' /\ NewSound(m)'
    BY <1>a, <1>2, <1>5, <2>1 DEF FileSound, NewSound, MovedAway, Area
  <2>5. BackupSound(m)'
    BY <1>a, <1>2, <1>5, <2>1, <2>2, <2>3 DEF BackupSound, MovedAway
  <2> QED
    BY <2>4, <2>5
<1>7. ForwardSound' /\ RollbackSound'
  BY <1>a, <1>b, <1>6 DEF ForwardSound, RollbackSound, Undoing, Forward
<1>8. AllOrNothing' /\ CoherentHistory'
  BY <1>a, <1>b, <1>d, HistoryGoesOn
<1> QED
  BY <1>1, <1>2, <1>3, <1>4, <1>7, <1>8 DEF FilesIInv

(* A command that has to undo.                                              *)
LEMMA UndoKeeps ==
  ASSUME FilesIInv,
         NEW op \in {"stage", "backup", "place", "sync"},
         NEW k \in Names \cup {"directory"},
         OperationFails(op, k)
           \/ (k \in Names /\ op = "stage" /\ Stage(k) /\ ~Stageable(k))
  PROVE  FilesIInv'
<1> USE DEF history
<1>a. /\ Due(op, k) /\ Undo(op, k)
      /\ UNCHANGED <<file, new, backup, result, ignored, before, writers,
                     incident>>
  BY DEF OperationFails, Stage
<1>b. /\ Typed /\ OwnNames /\ CommandSound /\ ImportsBoth /\ ScriptSound
      /\ ForwardSound /\ Forward /\ result = "running"
  BY <1>a, Direction DEF FilesIInv
<1>c. faults' \in 0 .. MaxFaults
  BY <1>b, BoundAssumption DEF OperationFails, Fault, Stage, Typed
<1>1. /\ cmd' = [cmd EXCEPT !.failed = TRUE]
      /\ cmd' \in Command
      /\ cmd'.failed
      /\ script' \subseteq Operation
  BY <1>a, <1>b, UndoTyped
<1>2. Typed'
  BY <1>a, <1>b, <1>c, <1>1 DEF Typed
<1>3. /\ Owner' = Owner /\ cmd'.number = cmd.number
      /\ cmd'.wanted = cmd.wanted /\ cmd'.created = cmd.created
      /\ cmd'.placed = cmd.placed /\ cmd'.originals = cmd.originals
  BY <1>b, <1>1 DEF Typed, Owner, Command
<1>4. OwnNames' /\ CommandSound' /\ ImportsBoth'
  BY <1>a, <1>b, <1>3 DEF OwnNames, CommandSound, ImportsBoth, Area
<1>5. ScriptSound' /\ ForwardSound'
  BY <1>1 DEF ScriptSound, ForwardSound, Forward
<1>6. RollbackSound'
  BY <1>a, <1>b, RollbackBegins
<1>7. AllOrNothing' /\ CoherentHistory'
  BY <1>a, <1>b, HistoryGoesOn
<1> QED
  BY <1>2, <1>4, <1>5, <1>6, <1>7 DEF FilesIInv

-----------------------------------------------------------------------------
(* Steps of the rollback.                                                   *)

(* What the rest of the invariant asks of a step of the rollback.           *)
LEMMA RollbackGoesOn ==
  ASSUME FilesIInv, Undoing, NEW op, NEW n \in Names, Proceed(op, n),
         UNCHANGED <<cmd, result, before, writers>>,
         \/ UNCHANGED <<ignored, incident, faults>>
         \/ /\ ignored' = TRUE /\ incident' = TRUE
            /\ faults < MaxFaults /\ faults' = faults + 1,
         file' \in [Names -> Content],
         new' \in [Owners -> [Names -> Content]],
         backup' \in [Owners -> [Names -> Content]],
         OwnNames',
         \A m \in Names : UndoSound(m)'
  PROVE  FilesIInv'
<1>a. /\ Typed /\ CommandSound /\ ImportsBoth /\ RollbackSound
      /\ result = "running" /\ cmd.failed
  BY DEF FilesIInv, Undoing
<1>1. Typed'
  <2>1. faults' \in 0 .. MaxFaults
    BY <1>a, BoundAssumption DEF Typed
  <2>2. ignored \in BOOLEAN /\ incident \in BOOLEAN
    BY <1>a DEF Typed
  <2>3. ignored' \in BOOLEAN /\ incident' \in BOOLEAN
    BY <2>2, Zenon
  <2> QED
    BY <1>a, <2>1, <2>3 DEF Typed, Proceed
<1>2. CommandSound' /\ ImportsBoth' /\ Owner' = Owner
  BY <1>a DEF CommandSound, ImportsBoth, Area, Owner
<1>3. ScriptSound' /\ ForwardSound'
  BY <1>a DEF ScriptSound, ForwardSound, Forward
<1>4. RollbackSound'
  BY <1>a, <1>2 DEF RollbackSound, Undoing, Proceed, Area
<1>5. AllOrNothing' /\ CoherentHistory'
  BY <1>a, HistoryGoesOn
<1> QED
  BY <1>1, <1>2, <1>3, <1>4, <1>5 DEF FilesIInv

LEMMA RemoveKeeps ==
  ASSUME FilesIInv, NEW n \in Names, Remove(n)
  PROVE  FilesIInv'
<1> USE DEF history
<1>a. /\ Due("remove", n) /\ Proceed("remove", n)
      /\ file' = [file EXCEPT ![n] = Absent]
      /\ UNCHANGED <<new, backup, cmd, result, ignored, faults, before,
                     writers, incident>>
  BY DEF Remove
<1>b. /\ Typed /\ OwnNames /\ RollbackSound /\ Undoing
  BY <1>a, Direction DEF FilesIInv
<1>1. /\ file' \in [Names -> Content]
      /\ file'[n] = Absent
      /\ \A m \in Names : m # n => file'[m] = file[m]
  BY <1>a, <1>b, BoundAssumption DEF Typed, Content, Absent
<1>2. OwnNames' /\ Owner' = Owner
  BY <1>a, <1>b DEF OwnNames, Owner
<1>3. \A op, m : Pending(op, m)' <=> Pending(op, m) /\ <<op, m>> # <<"remove", n>>
  BY <1>a DEF Proceed, Pending
<1>4. Pending("remove", n)
  BY <1>a DEF Due
<1>5. ASSUME NEW m \in Names PROVE UndoSound(m)'
  <2>1. UndoSound(m)
    BY <1>b DEF RollbackSound
  <2>2. CASE m # n
    BY <1>a, <1>1, <1>2, <1>3, <2>1, <2>2 DEF UndoSound, Outcome
  <2>3. CASE m = n
    BY <1>a, <1>1, <1>2, <1>3, <1>4, <2>1, <2>3 DEF UndoSound, Outcome
  <2> QED
    BY <2>2, <2>3
<1>6. new' \in [Owners -> [Names -> Content]]
        /\ backup' \in [Owners -> [Names -> Content]]
  BY <1>a, <1>b DEF Typed
<1> QED
  BY <1>a, <1>b, <1>1, <1>2, <1>5, <1>6, RollbackGoesOn

LEMMA RestoreKeeps ==
  ASSUME FilesIInv, NEW n \in Names, Restore(n)
  PROVE  FilesIInv'
<1> USE DEF history
<1>a. /\ Due("restore", n) /\ Proceed("restore", n)
      /\ UNCHANGED <<new, cmd, result, ignored, faults, before, writers,
                     incident>>
  BY DEF Restore
<1>b. /\ Typed /\ OwnNames /\ RollbackSound /\ Undoing /\ n \in Area(Owner)
  BY <1>a, Direction DEF FilesIInv
<1>c. \/ backup[Owner][n] = Absent /\ UNCHANGED <<file, backup>>
      \/ /\ backup[Owner][n] # Absent
         /\ file' = [file EXCEPT ![n] = backup[Owner][n]]
         /\ backup' = [backup EXCEPT ![Owner][n] = Absent]
  BY DEF Restore
<1>d. /\ Owner \in Owners /\ Absent \in Content
      /\ backup \in [Owners -> [Names -> Content]]
      /\ backup[Owner][n] \in Content
      /\ file \in [Names -> Content]
  BY <1>b, BoundAssumption DEF Typed, Owner, Command, Content, Absent
<1>1. /\ file' \in [Names -> Content]
      /\ backup' \in [Owners -> [Names -> Content]]
      /\ backup'[Owner][n] = Absent
      /\ backup[Owner][n] # Absent => file'[n] = backup[Owner][n]
      /\ backup[Owner][n] = Absent => file'[n] = file[n]
      /\ \A m \in Names : m # n =>
           file'[m] = file[m] /\ backup'[Owner][m] = backup[Owner][m]
  <2>1. CASE backup[Owner][n] = Absent
    BY <1>c, <1>d, <2>1
  <2>2. CASE backup[Owner][n] # Absent
    <3>1. /\ file' = [file EXCEPT ![n] = backup[Owner][n]]
          /\ backup' = [backup EXCEPT ![Owner][n] = Absent]
      BY <1>c, <2>2
    <3>2. file' \in [Names -> Content]
      BY ONLY <1>d, <3>1, n \in Names
    <3>3. backup' \in [Owners -> [Names -> Content]]
      BY ONLY <1>d, <3>1, n \in Names
    <3>4. file'[n] = backup[Owner][n] /\ backup'[Owner][n] = Absent
      BY ONLY <1>d, <3>1, n \in Names
    <3>5. \A m \in Names : m # n =>
            file'[m] = file[m] /\ backup'[Owner][m] = backup[Owner][m]
      BY ONLY <1>d, <3>1, n \in Names
    <3> QED
      BY <2>2, <3>2, <3>3, <3>4, <3>5
  <2> QED
    BY <2>1, <2>2
<1>2. OwnNames' /\ Owner' = Owner
  BY <1>a, <1>b, <1>c, <1>d DEF OwnNames, Owner
<1>3. \A op, m : Pending(op, m)' <=> Pending(op, m) /\ <<op, m>> # <<"restore", n>>
  BY <1>a DEF Proceed, Pending
<1>4. Pending("restore", n) /\ ~Pending("remove", n)
  BY <1>a, TurnsOfUndo, Earlier DEF Due
<1>5. ASSUME NEW m \in Names PROVE UndoSound(m)'
  <2>1. UndoSound(m)
    BY <1>b DEF RollbackSound
  <2>2. CASE m # n
    BY <1>a, <1>1, <1>2, <1>3, <2>1, <2>2 DEF UndoSound, Outcome
  <2>3. CASE m = n
    BY <1>a, <1>1, <1>2, <1>3, <1>4, <2>1, <2>3 DEF UndoSound, Outcome
  <2> QED
    BY <2>2, <2>3
<1>6. new' \in [Owners -> [Names -> Content]]
  BY <1>a, <1>b DEF Typed
<1> QED
  BY <1>a, <1>b, <1>1, <1>2, <1>5, <1>6, RollbackGoesOn

LEMMA CleanKeeps ==
  ASSUME FilesIInv, NEW n \in Names, Clean(n)
  PROVE  FilesIInv'
<1> USE DEF history
<1>a. /\ Due("clean", n) /\ Proceed("clean", n)
      /\ new' = [new EXCEPT ![Owner][n] = Absent]
      /\ UNCHANGED <<file, backup, cmd, result, ignored, faults, before,
                     writers, incident>>
  BY DEF Clean
<1>b. /\ Typed /\ OwnNames /\ RollbackSound /\ Undoing
  BY <1>a, Direction DEF FilesIInv
<1>d. /\ Owner \in Owners /\ Absent \in Content
      /\ new \in [Owners -> [Names -> Content]]
  BY <1>b, BoundAssumption DEF Typed, Owner, Command, Content, Absent
<1>1. /\ new' \in [Owners -> [Names -> Content]]
      /\ new'[Owner][n] = Absent
      /\ \A m \in Names : m # n => new'[Owner][m] = new[Owner][m]
  BY <1>a, <1>d
<1>2. OwnNames' /\ Owner' = Owner
  BY <1>a, <1>b, <1>d DEF OwnNames, Owner
<1>3. \A op, m : Pending(op, m)' <=> Pending(op, m) /\ <<op, m>> # <<"clean", n>>
  BY <1>a DEF Proceed, Pending
<1>4. ASSUME NEW m \in Names PROVE UndoSound(m)'
  <2>1. UndoSound(m)
    BY <1>b DEF RollbackSound
  <2> QED
    BY <1>a, <1>1, <1>2, <1>3, <2>1 DEF UndoSound, Outcome
<1>5. file' \in [Names -> Content]
        /\ backup' \in [Owners -> [Names -> Content]]
  BY <1>a, <1>b DEF Typed
<1> QED
  BY <1>a, <1>b, <1>1, <1>2, <1>4, <1>5, RollbackGoesOn

(* A step of the rollback that fails is given up.                           *)
LEMMA IgnoredKeeps ==
  ASSUME FilesIInv, NEW n \in Names,
         NEW op \in {"remove", "restore", "clean"}, FailureIgnored(op, n)
  PROVE  FilesIInv'
<1>a. /\ Due(op, n) /\ Proceed(op, n)
      /\ UNCHANGED <<file, new, backup, cmd, result, before, writers>>
      /\ ignored' = TRUE /\ incident' = TRUE
      /\ faults < MaxFaults /\ faults' = faults + 1
  BY DEF FailureIgnored, Fault
<1>b. /\ Typed /\ OwnNames /\ RollbackSound /\ Undoing
  BY <1>a, Direction DEF FilesIInv
<1>1. OwnNames' /\ Owner' = Owner
  BY <1>a, <1>b DEF OwnNames, Owner
<1>2. \A p, m : Pending(p, m)' => Pending(p, m)
  BY <1>a DEF Proceed, Pending
<1>3. ASSUME NEW m \in Names PROVE UndoSound(m)'
  <2>1. UndoSound(m)
    BY <1>b DEF RollbackSound
  <2> QED
    BY <1>a, <1>1, <1>2, <2>1 DEF UndoSound
<1>4. file' \in [Names -> Content]
        /\ new' \in [Owners -> [Names -> Content]]
        /\ backup' \in [Owners -> [Names -> Content]]
  BY <1>a, <1>b DEF Typed
<1> QED
  BY <1>a, <1>b, <1>1, <1>3, <1>4, RollbackGoesOn

-----------------------------------------------------------------------------
(* The begin and the end of a command.                                      *)

LEMMA FilesInit == Init => FilesIInv
<1> SUFFICES ASSUME Init PROVE FilesIInv
  OBVIOUS
<1> USE DEF Init
<1>1. Absent \in Content
  BY BoundAssumption DEF Content, Absent
<1>2. NoFiles \in [Names -> Content]
  BY <1>1 DEF NoFiles
<1>3. cmd \in Command
  BY <1>1 DEF NoCommand, Command, Owners, Content, Absent
<1>4. Typed
  <2>1. /\ new \in [Owners -> [Names -> Content]]
        /\ backup \in [Owners -> [Names -> Content]]
    BY <1>2
  <2>2. 0 \in 0 .. MaxFaults /\ 0 \in 0 .. MaxCommands
    BY BoundAssumption
  <2> QED
    BY <1>2, <1>3, <2>1, <2>2 DEF Typed
<1>5. OwnNames
  BY DEF OwnNames, NoFiles, Names
<1>6. /\ CommandSound /\ ImportsBoth /\ ScriptSound /\ ForwardSound
      /\ RollbackSound /\ AllOrNothing
  BY DEF CommandSound, ImportsBoth, ScriptSound, ForwardSound, RollbackSound,
         AllOrNothing, Forward, Undoing
<1>7. CoherentHistory
  BY DEF CoherentHistory, Coherent, NoFiles, Names, Imported
<1> QED
  BY <1>4, <1>5, <1>6, <1>7 DEF FilesIInv

LEMMA BeginKeeps ==
  ASSUME FilesIInv, NEW owner \in Owners, NEW wanted \in SUBSET Area(owner),
         NEW originals \in SUBSET Area(owner), NEW steps,
         steps = (IF owner = "init" THEN InitScript(originals)
                  ELSE ImportScript(wanted)),
         Begin(owner, wanted, originals, steps),
         \A n \in originals : file[n] # Absent,
         owner = "init" =>
           /\ wanted = Generated
           /\ originals = Present \cap Managed
           /\ new["init"] = NoFiles /\ backup["init"] = NoFiles,
         owner # "init" =>
           originals = {} /\ {"dataset", "preprocessing"} \subseteq wanted
  PROVE  FilesIInv'
<1>a. /\ result # "running" /\ writers < MaxCommands /\ writers' = writers + 1
      /\ cmd' = [NoCommand EXCEPT !.owner = owner, !.number = writers + 1,
                                  !.wanted = wanted, !.originals = originals]
      /\ script' = steps /\ result' = "running" /\ before' = file
      /\ ignored' = FALSE
      /\ UNCHANGED <<file, new, backup, faults, incident>>
  BY DEF Begin
<1>b. Typed /\ OwnNames /\ CoherentHistory
  BY DEF FilesIInv
<1>c. Area(owner) \subseteq Names
  BY DEF Area, Names
<1>1. /\ cmd'.owner = owner /\ cmd'.number = writers + 1
      /\ cmd'.wanted = wanted /\ cmd'.originals = originals
      /\ cmd'.created = {} /\ cmd'.placed = {} /\ ~cmd'.failed
      /\ Owner' = owner
  BY <1>a DEF NoCommand, Owner
<1>2. writers' \in 0 .. MaxCommands /\ writers + 1 \in Content
  BY <1>a, <1>b, BoundAssumption DEF Typed, Content, Absent
<1>3. cmd' \in Command
  BY <1>a, <1>2, <1>c DEF NoCommand, Command
<1>4. script' \subseteq Operation
  <2>1. CASE owner = "init"
    BY <1>a, <1>c, <2>1
    DEF InitScript, Each, Operation, Names, Managed, Generated
  <2>2. CASE owner # "init"
    BY <1>a, <1>c, <2>2 DEF ImportScript, Each, Operation, Names, Area
  <2> QED
    BY <2>1, <2>2
<1>5. Typed'
  BY <1>a, <1>b, <1>2, <1>3, <1>4 DEF Typed
<1>6. OwnNames'
  BY <1>a, <1>b DEF OwnNames
<1>7. CommandSound' /\ ImportsBoth'
  BY <1>a, <1>1 DEF CommandSound, ImportsBoth
<1>8. ScriptSound'
  <2>1. script' = WholeScript'
    BY <1>a, <1>1 DEF WholeScript
  <2> QED
    BY <2>1 DEF ScriptSound
<1>9. ASSUME NEW n \in Names
      PROVE  FileSound(n)' /\ BackupSound(n)' /\ NewSound(n)'
  <2>1. /\ n \in originals => Pending("backup", n)' \/ owner # "init"
        /\ n \in wanted => Pending("place", n)'
        /\ owner # "init" /\ n \in Imported =>
             Pending("backup", n)' /\ Pending("stage", n)'
    <3>1. CASE owner = "init"
      BY <1>a, <3>1 DEF Pending, InitScript, Each
    <3>2. CASE owner # "init"
      BY <1>a, <3>2 DEF Pending, ImportScript, Each
    <3> QED
      BY <3>1, <3>2
  <2>2. FileSound(n)'
    <3>1. owner = "init" /\ n \in Managed /\ file[n] # Absent => n \in originals
      BY DEF Present
    <3> QED
      BY <1>a, <1>1, <2>1, <3>1 DEF FileSound, MovedAway, Area
  <2>3. BackupSound(n)'
    <3>1. backup[owner][n] # Absent => owner # "init" /\ n \in Imported
      BY <1>b DEF OwnNames, NoFiles, Area
    <3> QED
      BY <1>a, <1>1, <2>1, <3>1 DEF BackupSound, MovedAway
  <2>4. NewSound(n)'
    <3>1. owner = "init" => new[owner][n] = Absent
      BY DEF NoFiles
    <3>2. n \in wanted => Pending("stage", n)'
      <4>1. CASE owner = "init"
        BY <1>a, <4>1 DEF Pending, InitScript, Each
      <4>2. CASE owner # "init"
        BY <2>1, <4>2 DEF Area
      <4> QED
        BY <4>1, <4>2
    <3> QED
      BY <1>a, <1>1, <2>1, <3>1, <3>2 DEF NewSound
  <2> QED
    BY <2>2, <2>3, <2>4
<1>10. ForwardSound' /\ RollbackSound' /\ AllOrNothing'
  BY <1>a, <1>1, <1>9
  DEF ForwardSound, RollbackSound, AllOrNothing, Forward, Undoing
<1>11. CoherentHistory'
  BY <1>a, <1>b DEF CoherentHistory, Coherent
<1> QED
  BY <1>5, <1>6, <1>7, <1>8, <1>10, <1>11 DEF FilesIInv

LEMMA StartKeeps == FilesIInv /\ Start => FilesIInv'
<1> SUFFICES ASSUME FilesIInv, Start PROVE FilesIInv'
  OBVIOUS
<1>a. Typed /\ OwnNames /\ CoherentHistory
  BY DEF FilesIInv
<1>1. CASE StartInit
  <2> DEFINE originals == Present \cap Managed
  <2>1. /\ new["init"] = NoFiles /\ backup["init"] = NoFiles
        /\ Begin("init", Generated, originals, InitScript(originals))
    BY <1>1 DEF StartInit
  <2>2. /\ "init" \in Owners /\ Generated \in SUBSET Area("init")
        /\ originals \in SUBSET Area("init")
        /\ \A n \in originals : file[n] # Absent
    BY DEF Owners, Area, Managed, Present
  <2> QED
    BY <2>1, <2>2, BeginKeeps
<1>2. CASE \E pid \in Pids, wanted \in Splits : StartImport(pid, wanted)
  <2>1. PICK pid \in Pids, wanted \in Splits : StartImport(pid, wanted)
    BY <1>2
  <2>2. Begin(pid, wanted, {}, ImportScript(wanted))
    BY <2>1 DEF StartImport
  <2>3. /\ pid \in Owners /\ pid # "init" /\ wanted \in SUBSET Area(pid)
        /\ {"dataset", "preprocessing"} \subseteq wanted
    BY BoundAssumption DEF Owners, Splits, Area, Imported
  <2> QED
    BY <2>2, <2>3, BeginKeeps
<1>3. ASSUME Train \/ Archive PROVE FilesIInv'
  <2>1. /\ result # "running" /\ result' = "none"
        /\ UNCHANGED <<new, backup, cmd, script, before, ignored, faults, incident>>
        /\ writers' \in 0 .. MaxCommands
    BY <1>a, <1>3, BoundAssumption DEF Train, Archive, Typed
  <2>2. /\ file' \in [Names -> Content]
        /\ \A n \in Imported : file'[n] = file[n]
    <3>1. CASE Train
      <4>1. PICK n \in {"weights", "checkpoint"} :
              file' = [file EXCEPT ![n] = writers + 1]
        BY <3>1 DEF Train
      <4>2. writers + 1 \in Content
        BY <1>a, <3>1, BoundAssumption DEF Train, Typed, Content, Absent
      <4> QED
        BY <1>a, <4>1, <4>2 DEF Typed, Imported, Names
    <3>2. CASE Archive
      <4>1. Absent \in Content
        BY BoundAssumption DEF Content, Absent
      <4> QED
        BY <1>a, <3>2, <4>1 DEF Archive, Typed, Imported, Names
    <3> QED
      BY <1>3, <3>1, <3>2
  <2>3. Typed' /\ OwnNames'
    BY <1>a, <2>1, <2>2 DEF Typed, OwnNames
  <2>4. /\ CommandSound' /\ ImportsBoth' /\ ScriptSound' /\ ForwardSound'
        /\ RollbackSound' /\ AllOrNothing'
    BY <2>1
    DEF CommandSound, ImportsBoth, ScriptSound, ForwardSound, RollbackSound,
        AllOrNothing, Forward, Undoing
  <2>5. CoherentHistory'
    BY <1>a, <2>1, <2>2 DEF CoherentHistory, Coherent, Imported
  <2> QED
    BY <2>3, <2>4, <2>5 DEF FilesIInv
<1> QED
  BY <1>1, <1>2, <1>3 DEF Start

(* A rollback that is done has restored the files, an installation that is  *)
(* done has replaced them.                                                  *)
LEMMA FinishKeeps == FilesIInv /\ Finish => FilesIInv'
<1> SUFFICES ASSUME FilesIInv, Finish PROVE FilesIInv'
  OBVIOUS
<1> USE DEF history
<1>a. /\ result = "running" /\ script = {}
      /\ result' = IF cmd.failed THEN "failed" ELSE "success"
      /\ UNCHANGED <<file, new, backup, cmd, script, ignored, faults, before,
                     writers, incident>>
  BY DEF Finish
<1>b. /\ Typed /\ OwnNames /\ CommandSound /\ ImportsBoth /\ ForwardSound
      /\ RollbackSound /\ CoherentHistory
  BY DEF FilesIInv
<1>c. \A op, n : ~Pending(op, n)
  BY <1>a DEF Pending
<1>d. Owner \in Owners /\ new[Owner] \in [Names -> Content]
        /\ backup[Owner] \in [Names -> Content]
  BY <1>b DEF Typed, Owner, Command
<1>1. Typed' /\ OwnNames'
  BY <1>a, <1>b DEF Typed, OwnNames
<1>2. /\ CommandSound' /\ ImportsBoth' /\ ScriptSound' /\ ForwardSound'
      /\ RollbackSound'
  BY <1>a
  DEF CommandSound, ImportsBoth, ScriptSound, ForwardSound, RollbackSound,
      Forward, Undoing
<1>3. ASSUME cmd.failed, ~ignored
      PROVE  /\ file = before
             /\ Owner = "init" =>
                  new["init"] = NoFiles /\ backup["init"] = NoFiles
  <2>1. \A n \in Names : UndoSound(n)
    BY <1>3, <1>a, <1>b DEF RollbackSound, Undoing
  <2>2. \A n \in Names : file[n] = before[n]
    BY <1>3, <1>c, <2>1 DEF UndoSound, Outcome
  <2>3. Owner = "init" =>
          \A n \in Names : new[Owner][n] = Absent /\ backup[Owner][n] = Absent
    BY <1>3, <1>c, <2>1 DEF UndoSound
  <2>4. file = before
    BY <1>b, <2>2 DEF Typed
  <2>5. Owner = "init" =>
          new["init"] = NoFiles /\ backup["init"] = NoFiles
    BY <1>d, <2>3 DEF NoFiles
  <2> QED
    BY <2>4, <2>5
<1>4. ASSUME ~cmd.failed
      PROVE  /\ file = Replaced
             /\ ~ignored => backup[Owner] = NoFiles
             /\ \A n \in cmd.wanted : new[Owner][n] = Absent
  <2>1. \A n \in Names : FileSound(n) /\ BackupSound(n) /\ NewSound(n)
    BY <1>4, <1>a, <1>b DEF ForwardSound, Forward
  <2>2. cmd.wanted \subseteq Names /\ cmd.wanted \subseteq Area(Owner)
          /\ cmd.originals \subseteq Area(Owner)
    BY <1>a, <1>b DEF CommandSound, Area, Names
  <2>3. \A n \in Names : n \in cmd.placed <=> n \in cmd.wanted
    BY <1>c, <2>1 DEF NewSound
  <2>4. \A n \in Names : file[n] = Replaced[n]
    BY <1>c, <2>1, <2>2, <2>3 DEF FileSound, MovedAway, Replaced
  <2>5. file = Replaced
    BY <1>b, <2>4 DEF Typed, Replaced
  <2>6. ~ignored => \A n \in Names : backup[Owner][n] = Absent
    BY <1>c, <2>1 DEF BackupSound
  <2>7. ~ignored => backup[Owner] = NoFiles
    BY <1>d, <2>6 DEF NoFiles
  <2> QED
    BY <2>1, <2>2, <2>3, <2>5, <2>7 DEF NewSound
<1>5. AllOrNothing'
  <2>1. Owner' = Owner /\ Replaced' = Replaced
    BY <1>a DEF Owner, Replaced
  <2>2. CASE cmd.failed
    BY <1>a, <1>3, <2>1, <2>2 DEF AllOrNothing
  <2>3. CASE ~cmd.failed
    BY <1>a, <1>4, <2>1, <2>3 DEF AllOrNothing
  <2> QED
    BY <2>2, <2>3
<1>6. CoherentHistory'
  <2>1. result' # "running"
    BY <1>a
  <2>2. ASSUME ~incident, cmd.failed PROVE Coherent(file)
    BY <1>a, <1>b, <1>3, <2>2 DEF CoherentHistory
  <2>3. ASSUME ~incident, ~cmd.failed PROVE Coherent(file)
    <3>1. file = Replaced
      BY <1>4, <2>3
    <3>2. /\ Imported \subseteq Names
          /\ {"dataset", "preprocessing", "validation", "test"} \subseteq Imported
      BY DEF Names, Imported
    <3>3. CASE Owner = "init"
      <4>1. "preprocessing" \notin cmd.wanted /\ "preprocessing" \in Managed
        BY <1>a, <1>b, <3>3 DEF CommandSound, Generated, Managed
      <4> QED
        BY <3>1, <3>2, <3>3, <4>1 DEF Coherent, Replaced, Area
    <3>4. CASE Owner # "init"
      <4>1. {"dataset", "preprocessing"} \subseteq cmd.wanted
        BY <1>a, <1>b, <3>4 DEF ImportsBoth
      <4> QED
        BY <3>1, <3>2, <3>4, <4>1 DEF Coherent, Replaced, Area
    <3> QED
      BY <3>3, <3>4
  <2> QED
    BY <1>a, <1>b, <2>1, <2>2, <2>3 DEF CoherentHistory, Coherent
<1> QED
  BY <1>1, <1>2, <1>5, <1>6 DEF FilesIInv

LEMMA CrashKeeps == FilesIInv /\ Crash => FilesIInv'
<1> SUFFICES ASSUME FilesIInv, Crash PROVE FilesIInv'
  OBVIOUS
<1>a. /\ result' = "crashed" /\ script' = {} /\ incident' = TRUE
      /\ faults < MaxFaults /\ faults' = faults + 1
      /\ UNCHANGED <<file, new, backup, cmd, before, ignored, writers>>
  BY DEF Crash, Fault
<1>b. Typed /\ OwnNames /\ CoherentHistory
  BY DEF FilesIInv
<1>1. Typed'
  <2>1. faults' \in 0 .. MaxFaults
    BY <1>a, <1>b, BoundAssumption DEF Typed
  <2> QED
    BY <1>a, <1>b, <2>1 DEF Typed
<1>2. /\ OwnNames' /\ CommandSound' /\ ImportsBoth' /\ ScriptSound'
      /\ ForwardSound' /\ RollbackSound' /\ AllOrNothing' /\ CoherentHistory'
  BY <1>a, <1>b
  DEF OwnNames, CommandSound, ImportsBoth, ScriptSound, ForwardSound,
      RollbackSound, AllOrNothing, CoherentHistory, Forward, Undoing
<1> QED
  BY <1>1, <1>2 DEF FilesIInv

LEMMA FilesStep == FilesIInv /\ [Next]_vars => FilesIInv'
<1> SUFFICES ASSUME FilesIInv, [Next]_vars PROVE FilesIInv'
  OBVIOUS
<1>1. CASE Start
  BY <1>1, StartKeeps
<1>2. CASE Step
  <2>1. ASSUME NEW n \in Names, Stage(n) PROVE FilesIInv'
    <3>1. CASE Stageable(n)
      BY <2>1, <3>1, StageKeeps
    <3>2. CASE ~Stageable(n)
      BY <2>1, <3>2, UndoKeeps
    <3> QED
      BY <3>1, <3>2
  <2> QED
    BY <1>2, <2>1, BackupKeeps, PlaceKeeps, DiscardKeeps, RemoveKeeps,
       RestoreKeeps, CleanKeeps, SyncKeeps, FinishKeeps DEF Step
<1>3. CASE Failure
  <2>1. ASSUME NEW n \in Names \cup {"directory"},
               NEW op \in {"stage", "backup", "place", "sync"},
               OperationFails(op, n)
        PROVE  FilesIInv'
    BY <2>1, UndoKeeps
  <2>2. ASSUME NEW n \in Names,
               NEW op \in {"remove", "restore", "discard", "clean"},
               FailureIgnored(op, n)
        PROVE  FilesIInv'
    <3>1. CASE op = "discard"
      BY <2>2, <3>1, DiscardKeeps
    <3>2. CASE op # "discard"
      BY <2>2, <3>2, IgnoredKeeps
    <3> QED
      BY <3>1, <3>2
  <2> QED
    BY <1>3, <2>1, <2>2, CrashKeeps DEF Failure
<1>4. CASE UNCHANGED vars
  BY <1>4
  DEF vars, FilesIInv, Typed, OwnNames, CommandSound, ImportsBoth, ScriptSound,
      ForwardSound, RollbackSound, AllOrNothing, CoherentHistory, Forward,
      Undoing, WholeScript, Owner, FileSound, BackupSound, NewSound, UndoSound,
      Outcome, MovedAway, Pending, Replaced, Coherent, Area
<1> QED
  BY <1>1, <1>2, <1>3, <1>4 DEF Next

-----------------------------------------------------------------------------
(* The theorems.                                                            *)

(* In every reachable state the files, the staged files and the backups are *)
(* those that the done part of the running command has made of them.        *)
THEOREM FilesInvariance == Spec => []FilesIInv
BY FilesInit, FilesStep, PTL DEF Spec

(* A file is placed only when it is staged, with this command's content.    *)
LEMMA PlaceIsStaged ==
  ASSUME FilesIInv, NEW n \in Names, Due("place", n)
  PROVE  new[Owner][n] = cmd.number
<1>1. Forward
  BY Direction
<1>2. /\ Pending("place", n) /\ n \in cmd.wanted
      /\ ~Pending("stage", n)
  BY <1>1, Rest DEF FilesIInv
<1> QED
  BY <1>1, <1>2 DEF FilesIInv, ForwardSound, NewSound

(* Types, and that no rename of install_files or neural_project_initialize  *)
(* misses its source.                                                       *)
THEOREM FilesTypeCorrect == Spec => []TypeOK
<1>1. FilesIInv => TypeOK
  BY PlaceIsStaged DEF FilesIInv, TypeOK
<1> QED
  BY <1>1, FilesInvariance, PTL

(* init, init --force and import-csv replace the whole project data or,     *)
(* when an operation fails and can be undone, nothing.                      *)
THEOREM ReplacedOrRestored == Spec => []AllOrNothing
<1>1. FilesIInv => AllOrNothing
  BY DEF FilesIInv
<1> QED
  BY <1>1, FilesInvariance, PTL

(* Data, validation and test data and preprocessing metadata are always of  *)
(* one import, unless a command died or could not undo.                     *)
THEOREM DataOfOneImport == Spec => []CoherentData
<1>1. FilesIInv => CoherentData
  BY DEF FilesIInv, CoherentHistory, CoherentData
<1> QED
  BY <1>1, FilesInvariance, PTL

-----------------------------------------------------------------------------
(* What a step of a running command does to a content that is kept.         *)

(* The content was this command's, or all of this command's are in place.   *)
Superseded(v) ==
  \/ v = writers
  \/ ~cmd.failed /\ \A w \in cmd.wanted : file[w] = cmd.number

(* The value of a file is in place or in a backup.                          *)
LEMMA BackupLoses ==
  ASSUME FilesIInv, NEW n \in Names, Backup(n), NEW m \in Names,
         NEW v \in 1 .. writers, Kept(m, v)
  PROVE  Kept(m, v)'
<1>a. Due("backup", n) /\ Typed /\ Owner \in Owners
  BY DEF Backup, FilesIInv, Typed, Owner, Command
<1>1. Forward /\ BackupSound(n)
  BY <1>a, Direction DEF FilesIInv, ForwardSound
<1>2. backup[Owner][n] = Absent
  <2>1. Pending("backup", n) /\ ~Pending("stage", n)
    BY <1>1, <1>a, Rest DEF FilesIInv
  <2> QED
    BY <1>1, <2>1 DEF BackupSound, MovedAway
<1>3. v # Absent
  BY DEF Absent
<1>4. CASE file[n] = Absent
  BY <1>4, <1>3 DEF Backup, Kept
<1>5. CASE file[n] # Absent
  <2>1. /\ backup' = [backup EXCEPT ![Owner][n] = file[n]]
        /\ file' = [file EXCEPT ![n] = Absent]
    BY <1>5 DEF Backup
  <2>2. /\ backup'[Owner][n] = file[n]
        /\ m # n => file'[m] = file[m]
        /\ \A o \in Owners : o # Owner \/ m # n => backup'[o][m] = backup[o][m]
    BY <1>a, <2>1 DEF Typed
  <2> QED
    BY <1>a, <1>2, <1>3, <2>2 DEF Kept
<1> QED
  BY <1>4, <1>5

LEMMA PlaceLoses ==
  ASSUME FilesIInv, NEW n \in Names, Place(n), NEW m \in Names,
         NEW v \in 1 .. writers, Kept(m, v)
  PROVE  Kept(m, v)'
<1>a. Due("place", n) /\ Typed
  BY DEF Place, FilesIInv
<1>1. /\ Forward /\ FileSound(n) /\ NewSound(n)
      /\ Pending("place", n) /\ ~Pending("backup", n) /\ n \in Area(Owner)
  BY <1>a, Direction, Rest DEF FilesIInv, ForwardSound
<1>2. file[n] = Absent
  BY <1>1 DEF FileSound, NewSound, MovedAway
<1>3. v # Absent
  BY DEF Absent
<1>4. backup' = backup /\ file' = [file EXCEPT ![n] = new[Owner][n]]
  BY DEF Place
<1> QED
  BY <1>a, <1>2, <1>3, <1>4 DEF Kept, Typed

LEMMA DiscardLoses ==
  ASSUME FilesIInv, NEW n \in Names, Discard(n)
  PROVE  ~cmd.failed /\ \A w \in cmd.wanted : file[w] = cmd.number
<1>a. Due("discard", n) /\ Typed
  BY DEF Discard, FilesIInv
<1>1. Forward /\ cmd.wanted \subseteq Names
  BY <1>a, Direction DEF FilesIInv, CommandSound, Forward, Area, Names
<1>2. \A w \in Names : ~Pending("place", w) /\ FileSound(w) /\ NewSound(w)
  BY <1>a, <1>1, Rest DEF FilesIInv, ForwardSound
<1> QED
  BY <1>1, <1>2 DEF Forward, FileSound, NewSound

LEMMA RemoveLoses ==
  ASSUME FilesIInv, NEW n \in Names, Remove(n), NEW m \in Names,
         NEW v \in 1 .. writers, Kept(m, v)
  PROVE  Kept(m, v)' \/ v = writers
<1>a. Due("remove", n) /\ Typed
  BY DEF Remove, FilesIInv
<1>1. Undoing /\ UndoSound(n) /\ Pending("remove", n)
  BY <1>a, Direction DEF FilesIInv, RollbackSound, Due
<1>2. file[n] = writers
  BY <1>1 DEF UndoSound, FilesIInv, CommandSound, Undoing
<1>3. backup' = backup /\ file' = [file EXCEPT ![n] = Absent]
  BY DEF Remove
<1> QED
  BY <1>a, <1>2, <1>3 DEF Kept, Typed

LEMMA RestoreLoses ==
  ASSUME FilesIInv, NEW n \in Names, Restore(n), NEW m \in Names,
         NEW v \in 1 .. writers, Kept(m, v)
  PROVE  Kept(m, v)' \/ v = writers
<1>a. Due("restore", n) /\ Typed /\ Owner \in Owners
  BY DEF Restore, FilesIInv, Typed, Owner, Command
<1>1. Undoing /\ UndoSound(n) /\ Pending("restore", n)
  BY <1>a, Direction DEF FilesIInv, RollbackSound, Due
<1>2. v # Absent
  BY DEF Absent
<1>3. CASE backup[Owner][n] = Absent
  BY <1>3 DEF Restore, Kept
<1>4. CASE backup[Owner][n] # Absent
  <2>1. file[n] \in {Absent, writers}
    BY <1>1, <1>4 DEF UndoSound, FilesIInv, CommandSound, Undoing
  <2>2. /\ file' = [file EXCEPT ![n] = backup[Owner][n]]
        /\ backup' = [backup EXCEPT ![Owner][n] = Absent]
    BY <1>4 DEF Restore
  <2>3. /\ file'[n] = backup[Owner][n]
        /\ m # n => file'[m] = file[m]
        /\ \A o \in Owners : o # Owner \/ m # n => backup'[o][m] = backup[o][m]
    BY <1>a, <2>2 DEF Typed
  <2> QED
    BY <1>a, <1>2, <2>1, <2>3 DEF Kept
<1> QED
  BY <1>3, <1>4

LEMMA StepLoses ==
  ASSUME FilesIInv, [Next]_vars, result = "running",
         NEW m \in Names, NEW v \in 1 .. writers, Kept(m, v), ~Kept(m, v)'
  PROVE  Superseded(v)
<1>1. ~Start /\ ~(UNCHANGED <<file, backup>>)
  BY DEF Start, StartInit, StartImport, Begin, Train, Archive, Kept
<1>2. ~Failure
  BY <1>1 DEF Failure, OperationFails, FailureIgnored, Crash
<1>3. ~Sync /\ ~Finish /\ \A n \in Names : ~Stage(n) /\ ~Clean(n)
  BY <1>1 DEF Sync, Finish, Stage, Clean
<1>4. PICK n \in Names : Backup(n) \/ Place(n) \/ Discard(n) \/ Remove(n)
                         \/ Restore(n)
  BY <1>1, <1>2, <1>3 DEF Next, Step, vars
<1> QED
  BY <1>4, BackupLoses, PlaceLoses, DiscardLoses, RemoveLoses, RestoreLoses
  DEF Superseded

(* A file of an earlier command is lost only to a command that has placed   *)
(* all its own: originals are removed last, and no backup is overwritten.   *)
THEOREM LostOnlyWhenReplaced == Spec => NothingLost
<1>1. FilesIInv /\ [Next]_vars =>
        [result = "running" =>
           \A n \in Names, v \in 1 .. writers :
             Kept(n, v) /\ ~Kept(n, v)' =>
               \/ v = writers
               \/ ~cmd.failed /\ \A w \in cmd.wanted : file[w] = cmd.number]_vars
  BY StepLoses DEF Superseded
<1> QED
  BY <1>1, FilesInvariance, PTL DEF Spec, NothingLost
=============================================================================
