---------------------------- MODULE ProjectSettings ----------------------------
(***************************************************************************)
(* A project directory whose files are edited by hand between commands:    *)
(* src/init.c writes project.conf and model.txt, a user changes them and   *)
(* the data, src/project.c loads them (neural_project_load) and every      *)
(* command that continues from saved parameters compares digests first.    *)
(*                                                                         *)
(* "asked" is a history variable: the settings the files are meant to      *)
(* state, changed by the edits themselves; "spoiled" says that one of them *)
(* broke a rule of the format.                                             *)
(***************************************************************************)
EXTENDS Fingerprint

CONSTANTS
  Wanted,          \* what projects start with: settings, a model and data
  Offered,         \* the lines a user may write into project.conf
  Models,          \* the models a user may write into model.txt
  Datasets,        \* contents of train.txt and validation.txt; "losses" are
                   \* those whose targets the outputs can be
  Preprocessings,  \* contents of preprocessing.txt
  MaxEdits         \* bound on edits

(* What a line of model.txt may say, read or refused, and a whole file.     *)
WritableLayers ==
  [neurons : Nat \cup {Junk}, kind : Activations \cup {Junk},
   parameters : Seq((ParameterNames \cup {Junk}) \X (Int \cup {Junk}))]

WritableModels ==
  [ok : {TRUE}, inputs : Nat \ {0}, layers : Seq(WritableLayers) \ {<<>>}]

(* Projects start with what init has validated.  A dataset has samples, and *)
(* is what its digest is of.                                                *)
ASSUME SettingsAssumption ==
  /\ \A w \in Wanted :
       /\ w.config = [k \in ConfigKeys |-> w.config[k]]
       /\ ConfigValid(w.config)
       /\ \A k \in ConfigKeys : ValueReads(k, w.config[k])
       /\ w.model \in WritableModels
       /\ \A i \in DOMAIN w.model.layers : LayerReads(w.model.layers[i])
       /\ LossFits(w.config.loss, w.model)
       /\ w.train \in Datasets
       /\ w.validation \in Datasets \cup {Absent}
  /\ Models \subseteq WritableModels
  /\ \A d \in Datasets : d.samples \in Nat \ {0}
  /\ \A d, e \in Datasets : DigestDataset(d) = DigestDataset(e) => d = e
  /\ Absent \notin Datasets \cup Preprocessings
  /\ MaxEdits \in Nat

VARIABLES
  conf,           \* the lines of project.conf
  architecture,   \* the lines of model.txt
  train,          \* train.txt
  validation,     \* validation.txt
  preprocessing,  \* preprocessing.txt
  saved,          \* what the saved parameters were made with
  continued,      \* what the last command that continued from them used
  asked,          \* the settings the files are meant to state
  spoiled,        \* which files break a rule of their format
  edits           \* edits so far

files == <<conf, architecture, train, validation, preprocessing>>
vars == <<files, saved, continued, asked, spoiled, edits>>

Init ==
  \E w \in Wanted :
    /\ conf = WriteConfig(w.config)
    /\ architecture = WriteModel(w.model)
    /\ asked = [config |-> w.config, model |-> w.model]
    /\ train = w.train
    /\ validation = w.validation
    /\ preprocessing = Absent
    /\ saved = Absent
    /\ continued = Absent
    /\ spoiled = {}
    /\ edits = 0

-----------------------------------------------------------------------------
(* Loading a project and the commands that use it.                          *)

(* The widths are the model's, and the targets are such as the loss takes.   *)
Fits(d, m, loss) ==
  /\ d # Absent
  /\ loss \in d.losses
  /\ d.inputs = m.inputs
  /\ d.outputs = OutputLayer(m).neurons

ProjectLoads(m, c) ==
  /\ m.ok
  /\ c.ok
  /\ LossFits(c.config.loss, m)
  /\ preprocessing # Absent => preprocessing.inputs = m.inputs
  /\ Fits(train, m, c.config.loss)
  /\ StopsEarly(c.config) => Fits(validation, m, c.config.loss)

(* neural_project_load: the project that the files hold, or none.           *)
Loaded ==
  LET m == ReadModel(architecture)
      c == ReadConfig(conf)
  IN  IF ProjectLoads(m, c)
        THEN [model |-> m, config |-> c.config, dataset |-> train,
              validation |-> validation, preprocessing |-> preprocessing]
        ELSE Absent

(* A fresh training run, which leaves weights or a checkpoint.              *)
Train ==
  LET project == Loaded
  IN  /\ saved = Absent
      /\ project # Absent
      /\ saved' = [digests |-> Digests(project), used |-> Used(project)]
      /\ UNCHANGED <<files, continued, asked, spoiled, edits>>

VerifyDigests(actual, expected) ==
  /\ actual.model = expected.model
  /\ actual.dataset = expected.dataset
  /\ actual.training = expected.training

(* Resumed and additional training, prediction and evaluation.              *)
Continue ==
  LET project == Loaded
  IN  /\ saved # Absent
      /\ project # Absent
      /\ VerifyDigests(saved.digests, Digests(project))
      /\ continued' = Used(project)
      /\ UNCHANGED <<files, saved, asked, spoiled, edits>>

-----------------------------------------------------------------------------
(* Edits between commands.  A setting that no line states has its default.  *)

Edit ==
  /\ edits < MaxEdits
  /\ edits' = edits + 1
  /\ UNCHANGED <<saved, continued>>

EditConf ==
  /\ Edit
  /\ "conf" \notin spoiled
  /\ UNCHANGED <<architecture, train, validation, preprocessing>>

Stated(lines) == {lines[i][1] : i \in DOMAIN lines}

Restated(lines, line) ==
  [k \in ConfigKeys |->
     IF k = line[1] THEN line[2]
     ELSE IF k \in Stated(lines) THEN asked.config[k]
     ELSE Defaults[k]]

HalfEarly(lines) == EarlyKeys \cap Stated(lines) \notin {{}, EarlyKeys}

(* A line is changed or, for a key without one, added.                      *)
WriteLine(line) ==
  /\ EditConf
  /\ IF line[1] \in Stated(conf)
       THEN \E i \in DOMAIN conf :
              conf[i][1] = line[1] /\ conf' = [conf EXCEPT ![i] = line]
       ELSE conf' = Append(conf, line)
  /\ IF ValueReads(line[1], line[2]) /\ ~HalfEarly(conf')
       THEN /\ asked' = [asked EXCEPT !.config = Restated(conf', line)]
            /\ UNCHANGED spoiled
       ELSE /\ spoiled' = spoiled \cup {"conf"}
            /\ UNCHANGED asked

(* A second line of a key, which no order of the lines makes acceptable.    *)
RepeatLine(line) ==
  /\ EditConf
  /\ line[1] \in Stated(conf)
  /\ conf' = Append(conf, line)
  /\ spoiled' = spoiled \cup {"conf"}
  /\ UNCHANGED asked

(* The lines of the keys "dropped" are gone.                                *)
Forget(dropped) ==
  /\ EditConf
  /\ IF dropped \cap RequiredKeys = {} /\ ~HalfEarly(conf')
       THEN /\ asked' = [asked EXCEPT !.config =
                           [k \in ConfigKeys |->
                              IF k \in dropped THEN Defaults[k]
                              ELSE Restated(conf', <<"none", 0>>)[k]]]
            /\ UNCHANGED spoiled
       ELSE /\ spoiled' = spoiled \cup {"conf"}
            /\ UNCHANGED asked

DropLine(i) ==
  /\ conf' = RemoveAt(conf, i)
  /\ Forget({conf[i][1]})

DropEarlyLines(i, j) ==
  /\ i < j
  /\ {conf[i][1], conf[j][1]} = EarlyKeys
  /\ conf' = RemoveAt(RemoveAt(conf, j), i)
  /\ Forget(EarlyKeys)

MoveLine(i) ==
  /\ EditConf
  /\ conf' = Append(RemoveAt(conf, i), conf[i])
  /\ asked' = [asked EXCEPT !.config = Restated(conf, <<"none", 0>>)]
  /\ UNCHANGED spoiled

EditModel ==
  /\ Edit
  /\ "model" \notin spoiled
  /\ UNCHANGED <<conf, train, validation, preprocessing>>

WriteLayers(m) ==
  /\ EditModel
  /\ architecture' = WriteModel(m)
  /\ asked' = [asked EXCEPT !.model = m]
  /\ spoiled' =
       IF \A i \in DOMAIN m.layers : LayerReads(m.layers[i]) THEN spoiled
       ELSE spoiled \cup {"model"}

(* The input line is lost, repeated or moved to the end, or all layers are  *)
(* lost.                                                                    *)
SpoilModel ==
  /\ EditModel
  /\ architecture' \in
       {Tail(architecture), Append(architecture, architecture[1]),
        Append(Tail(architecture), architecture[1]), <<architecture[1]>>}
  /\ spoiled' = spoiled \cup {"model"}
  /\ UNCHANGED asked

EditData ==
  /\ Edit
  /\ \/ /\ train' \in Datasets \cup {Absent}
        /\ UNCHANGED <<validation, preprocessing>>
     \/ /\ validation' \in Datasets \cup {Absent}
        /\ UNCHANGED <<train, preprocessing>>
     \/ /\ preprocessing' \in Preprocessings \cup {Absent}
        /\ UNCHANGED <<train, validation>>
  /\ UNCHANGED <<conf, architecture, asked, spoiled>>

Next ==
  \/ Train
  \/ Continue
  \/ \E line \in Offered : WriteLine(line) \/ RepeatLine(line)
  \/ \E i \in DOMAIN conf : DropLine(i) \/ MoveLine(i)
  \/ \E i, j \in DOMAIN conf : DropEarlyLines(i, j)
  \/ \E m \in Models : WriteLayers(m)
  \/ SpoilModel
  \/ EditData

Spec == Init /\ [][Next]_vars

-----------------------------------------------------------------------------
(* Properties.                                                              *)

(* Types.  Parameters are saved by trainings whose batches fit the dataset  *)
(* (neural_batch_plan_create) and which have validation data when they may  *)
(* stop early (neural_project_load).                                        *)
TypeOK ==
  /\ Stated(conf) \subseteq ConfigKeys \cup {line[1] : line \in Offered}
  /\ DOMAIN asked.config = ConfigKeys
  /\ train \in Datasets \cup {Absent}
  /\ validation \in Datasets \cup {Absent}
  /\ preprocessing \in Preprocessings \cup {Absent}
  /\ saved # Absent =>
       /\ saved.used.epochs.batch \in 1 .. saved.used.dataset.samples
       /\ saved.used.controls.early = <<>>
          \/ saved.used.controls.early[3] \in Datasets
  /\ spoiled \subseteq {"conf", "model"}
  /\ edits \in 0 .. MaxEdits

(* However the files have been edited since, a command that continues from  *)
(* saved parameters is accepted only when every setting, layer and datum    *)
(* that the code makes use of is what they were made with: digest_training, *)
(* which leaves out settings that are off, leaves out nothing in use.       *)
ContinuedAlike == continued # Absent => continued = saved.used

(* Whatever has been written, changed, added, removed or moved, a file is   *)
(* read as the settings that its user asked for, or is refused when it      *)
(* breaks a rule or asks for an invalid configuration: settings that        *)
(* write_project leaves out and lines that the loader misses never change   *)
(* what training uses.                                                      *)
FilesMeanWhatWasAsked ==
  LET c == ReadConfig(conf)
      m == ReadModel(architecture)
      read == [model |-> m, config |-> c.config, dataset |-> train,
               validation |-> validation, preprocessing |-> preprocessing]
      meant == [read EXCEPT !.model = asked.model, !.config = asked.config]
  IN  /\ c.ok <=> "conf" \notin spoiled /\ ConfigValid(asked.config)
      /\ m.ok <=> "model" \notin spoiled
      /\ c.ok /\ m.ok /\ train # Absent => Used(read) = Used(meant)
=============================================================================
