------------------------------- MODULE DataImport -------------------------------
(***************************************************************************)
(* import-csv from the CSV file and its schema to the datasets of a        *)
(* project (neural_data_import_csv of src/data_import.c): both files are   *)
(* digested, read, split, digested again and refused when they changed;    *)
(* the transform is fitted on the training rows and applied to all.        *)
(*                                                                         *)
(* ImportSplit is the split.  The CSV file and the schema belong to a user *)
(* who may write them meanwhile: csvFile and schemaFile are all contents   *)
(* they have had, the last is there now.  A CSV file is read line by line, *)
(* so that one pass may see parts of two contents.  The installation is    *)
(* one step here; its failures are ProjectFiles', the lock ProjectLock's.  *)
(***************************************************************************)
EXTENDS ImportSplit, Selection, BinaryFloat, SequencesExt, FiniteSets

CONSTANTS
  CountOf, NumberOf,            \* words that are counts and numbers
  Missing,                      \* an input that is not known
  Cases,                        \* projects, files and edits of them
  MaxEdits,                     \* bound on the edits during an import
  FullRows                      \* bound on the rows of a file that is split in
                                \* every order and fitted with every option

(* Words that are counts are no negative numbers, words that are numbers    *)
(* are finite; lines and rows in memory are counted by a size_t.            *)
ASSUME WordAssumption ==
  /\ \A w \in DOMAIN CountOf : CountOf[w] \in Nat
  /\ \A w \in DOMAIN NumberOf : NumberOf[w] \in (-Largest) .. Largest

ASSUME CasesAssumption ==
  \A c \in Cases :
    /\ \A csv \in {c.csv} \cup c.edits.csv :
         csv \in Seq(Seq(STRING)) /\ Len(csv) < Modulus
    /\ \A lines \in {c.schema} \cup c.edits.schema : lines \in Seq(Seq(STRING))
    /\ c.project.inputs \in Nat /\ c.project.outputs \in Nat

Line == INSTANCE CsvLine
Schema == INSTANCE CsvSchema
Transform == INSTANCE Preprocessing

VARIABLES
  given,       \* the project and the edits its user may make
  csvFile,     \* contents of the CSV file, the present one last
  schemaFile,  \* contents of the schema, the present one last
  place,       \* where the import is, or how it ended
  read,        \* lines of the CSV file that this pass has read
  digests,     \* of the CSV file and of the schema at the start
  again,       \* the same at the end
  schema,      \* the schema that was loaded
  table,       \* the rows that were loaded
  assignment,  \* the subset of each row
  metadata,    \* of the transform
  stored       \* the datasets and metadata in the project

splitVars == vars
files == <<given, csvFile, schemaFile>>
loading == <<read, digests, again, schema, table>>
results == <<assignment, metadata, stored>>
importVars == <<splitVars, files, place, loading, results>>

Nothing == <<>>

Parts == Subsets \cup {"training"}

(* Before there are rows, the split is the trivial one of a single row.     *)
ImportInit ==
  /\ \E c \in Cases :
       /\ given = [project |-> c.project, edits |-> c.edits]
       /\ csvFile = <<c.csv>>
       /\ schemaFile = <<c.schema>>
  /\ place = "begin"
  /\ read = <<>>
  /\ digests = Nothing
  /\ again = Nothing
  /\ schema = Schema!NoSchema
  /\ table = <<>>
  /\ assignment = <<>>
  /\ metadata = Nothing
  /\ stored = Nothing
  /\ rows = 1 /\ sizes = <<1>>
  /\ target = [s \in Subsets |-> 0]
  /\ requested = [s \in Subsets |-> FALSE]
  /\ phase = "check" /\ subset = "test"
  /\ reserved = None /\ counts = None /\ remainders = None
  /\ used = {} /\ allocated = 0
  /\ class = 1 /\ bit = 0 /\ result = 0 /\ residual = 0

-----------------------------------------------------------------------------
(* The project.                                                             *)

Project == given.project

OutputFits(project) ==
  CASE project.loss = "mse" -> TRUE
    [] project.loss = "binary_cross_entropy" ->
         project.activation = "sigmoid"
    [] project.loss = "categorical_cross_entropy" ->
         project.activation = "softmax" /\ project.outputs >= 2

(* A project that was trained would keep parameters of other data.          *)
Begin ==
  /\ place = "begin"
  /\ place' = IF OutputFits(Project) /\ ~Project.trained
                THEN "digest" ELSE "refused"
  /\ UNCHANGED <<splitVars, files, loading, results>>

-----------------------------------------------------------------------------
(* Reading.                                                                 *)

Csv == Last(csvFile)

More == Len(read) < Len(Csv)

NextCsvLine == Csv[Len(read) + 1]

(* A pass of digest_file over the CSV file.                                 *)
DigestLine ==
  /\ place \in {"digest", "compare"}
  /\ More
  /\ read' = Append(read, NextCsvLine)
  /\ UNCHANGED <<splitVars, files, place, digests, again, schema, table, results>>

DigestFiles ==
  /\ place = "digest"
  /\ ~More
  /\ digests' = [csv |-> read, schema |-> Last(schemaFile)]
  /\ read' = <<>>
  /\ place' = "schema"
  /\ UNCHANGED <<splitVars, files, again, schema, table, results>>

ReadSchema ==
  /\ place = "schema"
  /\ schema' = Schema!LoadSchema(Last(schemaFile), Project.inputs,
                                 Project.outputs)
  /\ place' = IF schema' = Schema!NoSchema THEN "refused" ELSE "rows"
  /\ UNCHANGED <<splitVars, files, read, digests, again, table, results>>

Word(cell) == FoldLeft(LAMBDA text, c : text \o c, "", cell)

Unknown(cell) == cell = <<>> \/ cell = <<"?">>

InputReads(cell) == Unknown(cell) \/ Word(cell) \in DOMAIN NumberOf

InputOf(cell) == IF Unknown(cell) THEN Missing ELSE NumberOf[Word(cell)]

TargetReads(cell) == ~Unknown(cell) /\ Word(cell) \in DOMAIN NumberOf

ClassNames(s) == [k \in DOMAIN s.classes |-> s.classes[k].name]

RowReads(s, fields) ==
  /\ Len(fields) = s.columns
  /\ \A c \in ToSet(s.inputs) : InputReads(fields[c + 1])
  /\ IF Schema!Categorical(s)
       THEN Word(fields[s.label[1] + 1]) \in ToSet(ClassNames(s))
       ELSE \A c \in ToSet(s.targets) : TargetReads(fields[c + 1])

(* The class of a row, 1 for all when targets are numbers.                  *)
ClassOf(s, fields) ==
  IF Schema!Categorical(s)
    THEN CHOOSE k \in DOMAIN s.classes :
           s.classes[k].name = Word(fields[s.label[1] + 1])
    ELSE 1

RowOf(s, fields) ==
  LET k == ClassOf(s, fields)
  IN  [inputs |-> [i \in DOMAIN s.inputs |->
                     InputOf(fields[s.inputs[i] + 1])],
       outputs |-> IF Schema!Categorical(s) THEN s.classes[k].outputs
                   ELSE [i \in DOMAIN s.targets |->
                           NumberOf[Word(fields[s.targets[i] + 1])]],
       class |-> k]

(* The first line is the header of a schema that has one.                   *)
IsHeader(s, position) == s.header = "yes" /\ position = 1

ReadHeader ==
  /\ place = "rows"
  /\ More /\ IsHeader(schema, Len(read) + 1)
  /\ read' = Append(read, NextCsvLine)
  /\ place' = IF Len(Line!ParseCsvLine(NextCsvLine)) = schema.columns
                THEN "rows" ELSE "refused"
  /\ UNCHANGED <<splitVars, files, digests, again, schema, table, results>>

ReadRow ==
  /\ place = "rows"
  /\ More /\ ~IsHeader(schema, Len(read) + 1)
  /\ read' = Append(read, NextCsvLine)
  /\ LET fields == Line!ParseCsvLine(NextCsvLine)
     IN  IF NextCsvLine # <<>> /\ RowReads(schema, fields)
           THEN place' = place /\ table' = Append(table, RowOf(schema, fields))
           ELSE place' = "refused" /\ UNCHANGED table
  /\ UNCHANGED <<splitVars, files, digests, again, schema, results>>

(* A file without rows has no header either.                                *)
EndRows ==
  /\ place = "rows"
  /\ ~More
  /\ place' = IF table # <<>> THEN "targets" ELSE "refused"
  /\ UNCHANGED <<splitVars, files, loading, results>>

-----------------------------------------------------------------------------
(* Splitting.                                                               *)

TargetFits(loss, outputs) ==
  /\ loss # "mse" => ToSet(outputs) \subseteq {0, One}
  /\ loss = "categorical_cross_entropy" =>
       Cardinality({i \in DOMAIN outputs : outputs[i] = One}) = 1

RowsOfClass(c) == {i \in DOMAIN table : table[i].class = c}

(* The counts that two ratios with a sum below one may give.                *)
RatioCounts ==
  {t \in [Subsets -> 0 .. Len(table) - 1] :
     t["test"] + t["validation"] < Len(table)}

(* Files of more than FullRows rows ask for all ratios they ask for at all. *)
Requests(t) ==
  {r \in [Subsets -> BOOLEAN] : \A s \in Subsets : t[s] # 0 => r[s]}

BeginSplit ==
  /\ place = "targets"
  /\ IF \A i \in DOMAIN table : TargetFits(Project.loss, table[i].outputs)
       THEN /\ \E t \in RatioCounts : target' = t /\ requested' \in Requests(t)
            /\ rows' = Len(table)
            /\ sizes' = [c \in 1 .. Max({1, Len(schema.classes)}) |->
                           Cardinality(RowsOfClass(c))]
            /\ reserved' = [c \in DOMAIN sizes' |-> 0]
            /\ counts' = reserved' /\ remainders' = reserved'
            /\ place' = "split"
       ELSE /\ place' = "refused"
            /\ UNCHANGED <<input, reserved, counts, remainders>>
  /\ read' = <<>>
  /\ UNCHANGED <<phase, subset, used, allocated, division, files, digests,
                 again, schema, table, results>>

(* A shuffled order of the rows, which orders the rows of each class.       *)
Orders ==
  LET inOrder == [i \in DOMAIN table |-> i]
  IN  IF Len(table) <= FullRows
        THEN {f \in [DOMAIN table -> DOMAIN table] : IsInjective(f)}
        ELSE {inOrder}

(* Of each class the first rows are for testing, the next for validation.   *)
Assigned(order) ==
  [i \in DOMAIN table |->
     LET c == table[i].class
         before == Cardinality({j \in RowsOfClass(c) : order[j] <= order[i]})
     IN  IF before <= reserved[c] THEN "test"
         ELSE IF before <= reserved[c] + counts[c] THEN "validation"
         ELSE "training"]

Split ==
  /\ place = "split"
  /\ <<Next>>_vars
  /\ IF phase' = "split"
       THEN /\ \E order \in Orders : assignment' = Assigned(order)
            /\ place' = "compare"
       ELSE /\ place' = IF phase' \in {"check", "divide", "share"}
                          THEN place ELSE "refused"
            /\ UNCHANGED assignment
  /\ UNCHANGED <<files, loading, metadata, stored>>

-----------------------------------------------------------------------------
(* Installing.                                                              *)

(* Mutant: only the schema is compared.                                     *)
CompareFilesBySchema ==
  /\ place = "compare"
  /\ ~More
  /\ again' = [csv |-> read, schema |-> Last(schemaFile)]
  /\ place' = IF again'.schema = digests.schema THEN "fit" ELSE "refused"
  /\ UNCHANGED <<splitVars, files, read, digests, schema, table, results>>

CompareFiles ==
  /\ place = "compare"
  /\ ~More
  /\ again' = [csv |-> read, schema |-> Last(schemaFile)]
  /\ place' = IF again' = digests THEN "fit" ELSE "refused"
  /\ UNCHANGED <<splitVars, files, read, digests, schema, table, results>>

RowsOf(part) == {i \in DOMAIN table : assignment[i] = part}

Inputs == [i \in DOMAIN table |-> table[i].inputs]

FittedMetadata(normalization, policy) ==
  [version |-> 2, normalization |-> normalization, missing |-> policy,
   source |-> digests.csv, schema |-> digests.schema, seed |-> "seed",
   validation |-> target["validation"], test |-> target["test"],
   stratified |-> Schema!Categorical(schema),
   algorithm |-> Transform!AlgorithmOf(2),
   features |-> Transform!FitAll(Inputs, RowsOf("training"), normalization)]

(* A large file is fitted with one pair of options.                         *)
Fitted ==
  IF Len(table) <= FullRows
    THEN {FittedMetadata(n, p) : n \in Transform!Normalizations,
                                 p \in Transform!MissingPolicies}
    ELSE {FittedMetadata("none", "reject")}

Fits(fitted) ==
  /\ Project.patience => target["validation"] # 0
  /\ Transform!CanFitAll(Inputs, RowsOf("training"), fitted.missing)
  /\ Transform!MetadataValid(fitted)
  /\ \A i \in DOMAIN table : Transform!CanApply(fitted, Inputs[i])

(* The transform is fitted and, in place, applied to all rows.              *)
Fit ==
  /\ place = "fit"
  /\ \E fitted \in Fitted :
       IF Fits(fitted)
         THEN /\ metadata' = fitted
              /\ table' = [i \in DOMAIN table |->
                             [table[i] EXCEPT
                                !.inputs = Transform!Apply(fitted, @)]]
              /\ place' = "install"
         ELSE place' = "refused" /\ UNCHANGED <<metadata, table>>
  /\ UNCHANGED <<splitVars, files, read, digests, again, schema, assignment,
                 stored>>

(* The rows of a part in the order of the source.                           *)
Dataset(part) ==
  LET order == InOrder(RowsOf(part), Len(table))
  IN  [k \in DOMAIN order |-> [inputs |-> table[order[k]].inputs,
                               outputs |-> table[order[k]].outputs]]

Install ==
  /\ place = "install"
  /\ stored' = [datasets |-> [part \in Parts |-> Dataset(part)],
                metadata |-> Transform!WriteMetadata(metadata)]
  /\ place' = "done"
  /\ UNCHANGED <<splitVars, files, loading, assignment, metadata>>

-----------------------------------------------------------------------------
(* The owner of the files gives one a content that it never had before.     *)

Edits == Len(csvFile) + Len(schemaFile) - 2

ImportEnded == place \in {"refused", "done"}

EditCsv ==
  /\ ~ImportEnded /\ Edits < MaxEdits
  /\ \E content \in given.edits.csv \ ToSet(csvFile) :
       csvFile' = Append(csvFile, content)
  /\ UNCHANGED <<splitVars, given, schemaFile, place, loading, results>>

EditSchema ==
  /\ ~ImportEnded /\ Edits < MaxEdits
  /\ \E content \in given.edits.schema \ ToSet(schemaFile) :
       schemaFile' = Append(schemaFile, content)
  /\ UNCHANGED <<splitVars, given, csvFile, place, loading, results>>

Import ==
  \/ Begin \/ DigestLine \/ DigestFiles \/ ReadSchema
  \/ ReadHeader \/ ReadRow \/ EndRows
  \/ BeginSplit \/ Split \/ CompareFiles \/ Fit \/ Install

Stop == ImportEnded /\ UNCHANGED importVars

ImportNext == Import \/ EditCsv \/ EditSchema \/ Stop

(* Weak fairness of Import, which is enabled until the import has ended, as *)
(* the check for deadlocks shows: whatever is edited, the import goes on.   *)
Fairness == []<>ImportEnded \/ []<><<UNCHANGED files>>_importVars

ImportSpec == ImportInit /\ [][ImportNext]_importVars /\ Fairness
=============================================================================
