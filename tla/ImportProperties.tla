---------------------------- MODULE ImportProperties ----------------------------
(***************************************************************************)
(* What import-csv promises: the datasets of a project are what its CSV    *)
(* file and schema say, divided as asked, and transformed as a prediction  *)
(* will transform its inputs.                                              *)
(***************************************************************************)
EXTENDS DataImport

(* Type invariant, with that of the split.  Datasets are in the project     *)
(* exactly when the import succeeded, and a row of every class is trained   *)
(* on.                                                                      *)
ImportTypeOK ==
  /\ TypeOK
  /\ place \in {"begin", "digest", "schema", "rows", "targets", "split",
                "compare", "fit", "install", "done", "refused"}
  /\ \A i \in DOMAIN table :
       /\ Len(table[i].inputs) = Project.inputs
       /\ Len(table[i].outputs) = Project.outputs
  /\ Len(read) <= Max({Len(content) : content \in ToSet(csvFile)})
  /\ assignment # <<>> =>
       /\ DOMAIN assignment = DOMAIN table
       /\ ToSet(assignment) \subseteq Parts
       /\ \A c \in Classes : RowsOfClass(c) \cap RowsOf("training") # {}
  /\ (stored # Nothing) = (place = "done")

(* The rows that a CSV file and a schema describe.                          *)
Described(csv, lines) ==
  LET said(key) == Tail(Schema!Says(lines, key)[1])
      body == IF said("header") = <<"yes">> THEN Tail(csv) ELSE csv
      cell(k, word) == Line!FieldsOf(body[k])[CountOf[word] + 1]
      line(name) ==
        CHOOSE l \in ToSet(Schema!Says(lines, "class")) : l[2] = name
      labelled == Schema!Says(lines, "label") # <<>>
  IN  [k \in DOMAIN body |->
         [inputs |-> [i \in DOMAIN said("inputs") |->
                        InputOf(cell(k, said("inputs")[i]))],
          outputs |-> IF labelled
            THEN LET l == line(Word(cell(k, said("label")[1])))
                 IN  [i \in 1 .. Len(l) - 2 |-> NumberOf[l[i + 2]]]
            ELSE [i \in DOMAIN said("targets") |->
                    NumberOf[Word(cell(k, said("targets")[i]))]]]]

(* The rows that are read from a content of the CSV file with a schema.     *)
RowsRead(csv, lines) ==
  LET s == Schema!LoadSchema(lines, Project.inputs, Project.outputs)
      body == IF s.header = "yes" THEN Tail(csv) ELSE csv
  IN  [k \in DOMAIN body |-> RowOf(s, Line!ParseCsvLine(body[k]))]

Source == RowsRead(metadata.source, metadata.schema)

(* The scanner of CSV lines decodes in place what a line says, a schema is  *)
(* accepted exactly when it declares each setting once and every column at  *)
(* most once, and the rows of the recorded contents are what these describe *)
(* (parse_csv_line, schema_load, schema_validate and csv_load).             *)
ReadAsWritten ==
  /\ place = "rows" /\ More => Line!ScansAsWritten(NextCsvLine)
  /\ place = "schema" =>
       LET lines == Last(schemaFile)
       IN  (Schema!LoadSchema(lines, Project.inputs, Project.outputs)
              # Schema!NoSchema) =
             Schema!Describes(lines, Project.inputs, Project.outputs)
  /\ place = "done" =>
       LET said == Described(metadata.source, metadata.schema)
       IN  /\ DOMAIN Source = DOMAIN said
           /\ \A k \in DOMAIN said :
                /\ Source[k].inputs = said[k].inputs
                /\ Source[k].outputs = said[k].outputs

OrderOf(part) ==
  InOrder({i \in DOMAIN assignment : assignment[i] = part}, Len(assignment))

(* The datasets are the rows of one content of the CSV file, read with one  *)
(* content of the schema, each in one part and in the order of the file:    *)
(* the contents whose digests are recorded, even when the files are edited  *)
(* while they are read (neural_data_import_csv digests them twice).         *)
InstalledIsRecorded ==
  place = "done" =>
    /\ metadata.source \in ToSet(csvFile)
    /\ metadata.schema \in ToSet(schemaFile)
    /\ DOMAIN assignment = DOMAIN Source
    /\ \A part \in Parts :
         stored.datasets[part] =
           [k \in DOMAIN OrderOf(part) |->
              LET row == Source[OrderOf(part)[k]]
              IN  [inputs |-> Transform!Apply(metadata, row.inputs),
                   outputs |-> row.outputs]]

(* The statistics are the same whatever the held-out rows hold.             *)
HeldOutHasNoPart ==
  place = "done" =>
    \A other \in {Missing, Largest, -Largest} :
      LET raw == [i \in DOMAIN Source |->
                    IF assignment[i] = "training" THEN Source[i].inputs
                    ELSE [f \in DOMAIN Source[i].inputs |-> other]]
      IN  Transform!FitAll(raw, RowsOf("training"), metadata.normalization) =
            metadata.features

(* A training input that was scaled to its extremes lies between zero and   *)
(* one, whatever was rounded.                                               *)
ScaledToExtremes ==
  place = "done" /\ metadata.normalization = "minmax" =>
    \A k \in DOMAIN stored.datasets["training"] :
      ToSet(stored.datasets["training"][k].inputs) \subseteq 0 .. One

(* No held-out row has a part in the statistics, and the extremes of the    *)
(* training rows are really those of what is trained on (fit_preprocessing, *)
(* neural_preprocessing_apply).                                             *)
FittedOnTrainingRows == HeldOutHasNoPart /\ ScaledToExtremes

(* The stored inputs are what a prediction makes of the same raw inputs     *)
(* with preprocessing.txt, which it can load unless one of its numbers is   *)
(* subnormal (neural_preprocessing_load, neural_prediction_prepare_inputs). *)
PreparedAlike ==
  place = "done" =>
    LET lines == stored.metadata
        prepared == <<Transform!ReadMetadata(lines)>>
    IN  /\ Transform!Loads(lines) =
             \A f \in DOMAIN metadata.features :
               /\ Transform!Readable(metadata.features[f].offset)
               /\ Transform!Readable(metadata.features[f].scale)
               /\ Transform!Readable(metadata.features[f].impute)
        /\ Transform!Loads(lines) =>
             \A part \in Parts : \A k \in DOMAIN OrderOf(part) :
               LET raw == Source[OrderOf(part)[k]].inputs
               IN  /\ Transform!CanPrepare(prepared, raw)
                   /\ stored.datasets[part][k].inputs =
                        Transform!Apply(prepared[1], raw)

(* Every import ends: all lines are read, every allocation of places to     *)
(* classes comes to its end, whatever is edited meanwhile.                  *)
ImportEnds == <>ImportEnded
=============================================================================
