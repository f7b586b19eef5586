------------------------------- MODULE CsvSchema -------------------------------
(***************************************************************************)
(* The schema of a CSV file: how schema_load of src/data_import.c reads it *)
(* line by line and how schema_validate holds it against the model.        *)
(*                                                                         *)
(* A line is the sequence of its words (split_words drops comments and     *)
(* blanks), a schema file the sequence of its lines.  The limits on the    *)
(* length and the words of a line are left out.                            *)
(***************************************************************************)
EXTENDS Integers, Sequences, SequencesExt, FiniteSets

CONSTANTS
  CountOf,  \* the count a word is read as, for those that are counts
  NumberOf  \* the number a word is read as, for those that are numbers

Title == <<"neural-c", "csv-schema", "1">>

Unset == "unset"

Empty ==
  [columns |-> 0, header |-> Unset, inputs |-> <<>>, targets |-> <<>>,
   label |-> <<>>, classes |-> <<>>, place |-> "title"]

Categorical(schema) == schema.label # <<>>

ReadSizes(words) ==
  IF \A i \in DOMAIN words : words[i] \in DOMAIN CountOf
    THEN [i \in DOMAIN words |-> CountOf[words[i]]]
    ELSE <<>>

(* A column list, empty when a word is no column or a column is repeated.   *)
Indices(words) ==
  IF IsInjective(ReadSizes(words)) THEN ReadSizes(words) ELSE <<>>

TitleLine(schema, line) ==
  /\ schema.place = "title"
  /\ line = Title

ColumnsLine(schema, line) ==
  /\ schema.place = "entries"
  /\ line[1] = "columns" /\ Len(line) = 2
  /\ schema.columns = 0
  /\ line[2] \in DOMAIN CountOf /\ CountOf[line[2]] # 0

HeaderLine(schema, line) ==
  /\ schema.place = "entries"
  /\ line[1] = "header" /\ Len(line) = 2
  /\ schema.header = Unset
  /\ line[2] \in {"yes", "no"}

InputsLine(schema, line) ==
  /\ schema.place = "entries"
  /\ line[1] = "inputs" /\ Len(line) > 1
  /\ schema.inputs = <<>>
  /\ Indices(Tail(line)) # <<>>

TargetsLine(schema, line) ==
  /\ schema.place = "entries"
  /\ line[1] = "targets" /\ Len(line) > 1
  /\ schema.targets = <<>> /\ ~Categorical(schema)
  /\ Indices(Tail(line)) # <<>>

LabelLine(schema, line) ==
  /\ schema.place = "entries"
  /\ line[1] = "label" /\ Len(line) = 2
  /\ schema.targets = <<>> /\ ~Categorical(schema)
  /\ line[2] \in DOMAIN CountOf

ClassLine(schema, line, outputs) ==
  /\ schema.place = "entries"
  /\ line[1] = "class" /\ Len(line) = outputs + 2
  /\ Categorical(schema)
  /\ \A i \in DOMAIN schema.classes : schema.classes[i].name # line[2]
  /\ \A i \in 3 .. Len(line) : line[i] \in DOMAIN NumberOf

EndLine(schema, line) == schema.place = "entries" /\ line = <<"end">>

Class(line) ==
  [name |-> line[2],
   outputs |-> [i \in 1 .. Len(line) - 2 |-> NumberOf[line[i + 2]]]]

(* What a line makes of the schema.  After "end" only comments may follow.  *)
ReadSchemaLine(schema, line, outputs) ==
  CASE line = <<>> -> schema
    [] TitleLine(schema, line) -> [schema EXCEPT !.place = "entries"]
    [] ColumnsLine(schema, line) ->
         [schema EXCEPT !.columns = CountOf[line[2]]]
    [] HeaderLine(schema, line) -> [schema EXCEPT !.header = line[2]]
    [] InputsLine(schema, line) ->
         [schema EXCEPT !.inputs = Indices(Tail(line))]
    [] TargetsLine(schema, line) ->
         [schema EXCEPT !.targets = Indices(Tail(line))]
    [] LabelLine(schema, line) ->
         [schema EXCEPT !.label = <<CountOf[line[2]]>>]
    [] ClassLine(schema, line, outputs) ->
         [schema EXCEPT !.classes = Append(@, Class(line))]
    [] EndLine(schema, line) -> [schema EXCEPT !.place = "end"]
    [] OTHER -> [schema EXCEPT !.place = "refused"]

Columns(list) == ToSet(list)

(* Every column is there, and none is both an input and a target.           *)
SchemaValid(schema, inputs, outputs) ==
  /\ schema.columns # 0
  /\ Len(schema.inputs) = inputs
  /\ \A c \in Columns(schema.inputs) : c < schema.columns
  /\ IF Categorical(schema)
       THEN /\ schema.classes # <<>>
            /\ schema.label[1] \notin Columns(schema.inputs)
            /\ schema.label[1] < schema.columns
       ELSE /\ Len(schema.targets) = outputs
            /\ Columns(schema.inputs) \cap Columns(schema.targets) = {}
            /\ \A c \in Columns(schema.targets) : c < schema.columns

NoSchema == [Empty EXCEPT !.place = "refused"]

(* The schema as it is after each line.                                     *)
SchemaReaders(lines, outputs) ==
  LET reader[i \in 0 .. Len(lines)] ==
        IF i = 0 THEN Empty
        ELSE ReadSchemaLine(reader[i - 1], lines[i], outputs)
  IN  reader

(* The schema a file gives for a model, NoSchema of one that is refused.    *)
LoadSchema(lines, inputs, outputs) ==
  LET schema == SchemaReaders(lines, outputs)[Len(lines)]
  IN  IF /\ schema.place = "end"
         /\ schema.header # Unset
         /\ SchemaValid(schema, inputs, outputs)
        THEN schema ELSE NoSchema

-----------------------------------------------------------------------------
(* What a schema file says, without a reader.                               *)

Says(lines, key) == SelectSeq(lines, LAMBDA l : l # <<>> /\ l[1] = key)

Keys ==
  {"neural-c", "columns", "header", "inputs", "targets", "label", "class",
   "end"}

(* Where a line with this key first is.                                     *)
Where(lines, key) ==
  CHOOSE i \in DOMAIN lines :
    /\ lines[i] # <<>> /\ lines[i][1] = key
    /\ \A j \in 1 .. i - 1 : lines[j] = <<>> \/ lines[j][1] # key

(* Each setting once, either targets or a label before its classes, all     *)
(* between the title and the end.                                           *)
Ordered(lines) ==
  LET said == SelectSeq(lines, LAMBDA l : l # <<>>)
      once(key) == Len(Says(lines, key)) = 1
      label == Says(lines, "label") # <<>>
  IN  /\ said # <<>> /\ said[1] = Title /\ Last(said) = <<"end">>
      /\ \A i \in DOMAIN said : said[i][1] \in Keys
      /\ \A key \in {"neural-c", "columns", "header", "inputs", "end"} :
           once(key)
      /\ IF label
           THEN /\ once("label") /\ Says(lines, "targets") = <<>>
                /\ Says(lines, "class") # <<>>
                /\ Where(said, "label") < Where(said, "class")
           ELSE once("targets") /\ Says(lines, "class") = <<>>

(* Every column of the file is at most once an input or a target, all of    *)
(* them exist, and a class is named once.                                   *)
Describes(lines, inputs, outputs) ==
  LET list(key) == Tail(Says(lines, key)[1])
      label == Says(lines, "label") # <<>>
      used == list("inputs") \o list(IF label THEN "label" ELSE "targets")
      classes == Says(lines, "class")
  IN  /\ Ordered(lines)
      /\ \A key \in {"columns", "header"} : Len(list(key)) = 1
      /\ list("columns")[1] \in DOMAIN CountOf
      /\ list("header")[1] \in {"yes", "no"}
      /\ \A i \in DOMAIN used :
           /\ used[i] \in DOMAIN CountOf
           /\ CountOf[used[i]] < CountOf[list("columns")[1]]
      /\ IsInjective([i \in DOMAIN used |-> CountOf[used[i]]])
      /\ Len(list("inputs")) = inputs
      /\ Len(used) = inputs + (IF label THEN 1 ELSE outputs)
      /\ \A i \in DOMAIN classes :
           /\ Len(classes[i]) = outputs + 2
           /\ \A k \in 3 .. Len(classes[i]) : classes[i][k] \in DOMAIN NumberOf
      /\ \A i, j \in DOMAIN classes : classes[i][2] = classes[j][2] => i = j
=============================================================================
