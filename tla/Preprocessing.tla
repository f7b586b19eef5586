----------------------------- MODULE Preprocessing -----------------------------
(***************************************************************************)
(* The transform of a project's inputs (src/preprocessing.c): its          *)
(* statistics are fitted on the training rows of an import                 *)
(* (fit_preprocessing of src/data_import.c), kept in preprocessing.txt and *)
(* applied to the imported rows and to what a prediction is asked.         *)
(*                                                                         *)
(* An input is a number of BinaryFloat or Missing, a row the sequence of   *)
(* its inputs.  preprocessing.txt is the sequence of its lines, a key and  *)
(* a value each; a digest is the content it was made of, a ratio the       *)
(* number of samples it gave.                                              *)
(***************************************************************************)
EXTENDS Selection, BinaryFloat, SequencesExt

CONSTANT Missing

Normalizations == {"none", "standardize", "minmax"}

MissingPolicies == {"reject", "mean"}

AlgorithmOf(version) ==
  IF version = 1 THEN "per_class_floor_v1" ELSE "global_largest_remainder_v1"

-----------------------------------------------------------------------------
(* Fitting: one feature's values in the training rows.                      *)

Known(values) ==
  LET order == InOrder({i \in DOMAIN values : values[i] # Missing}, Len(values))
  IN  [k \in DOMAIN order |-> values[order[k]]]

(* The sums of the first values.                                            *)
Sums(values) ==
  LET sum[i \in 0 .. Len(values)] ==
        IF i = 0 THEN 0 ELSE Add(sum[i - 1], values[i])
  IN  sum

SumOf(values) == Sums(values)[Len(values)]

Mean(values) == Div(SumOf(Known(values)), Real(Len(Known(values))))

Imputed(values) ==
  [i \in DOMAIN values |->
     IF values[i] = Missing THEN Mean(values) ELSE values[i]]

OneForZero(scale) == IF scale = 0 THEN One ELSE scale

Deviation(values) ==
  LET squares == [i \in DOMAIN values |->
                    LET delta == Sub(Imputed(values)[i], Mean(values))
                    IN  Mul(delta, delta)]
  IN  Sqrt(Div(SumOf(squares), Real(Len(values))))

(* The extremes are looked for from the mean on.                            *)
Extremes(values) == ToSet(Imputed(values)) \cup {Mean(values)}

Statistics(values, normalization) ==
  [offset |-> CASE normalization = "none" -> 0
                [] normalization = "standardize" -> Mean(values)
                [] normalization = "minmax" -> Min(Extremes(values)),
   scale |-> CASE normalization = "none" -> One
               [] normalization = "standardize" ->
                    OneForZero(Deviation(values))
               [] normalization = "minmax" ->
                    OneForZero(Sub(Max(Extremes(values)),
                                   Min(Extremes(values)))),
   impute |-> Mean(values)]

CanFit(values, policy) ==
  /\ policy = "reject" => Known(values) = values
  /\ Known(values) # <<>>
  /\ Finite(SumOf(Known(values)))

(* Mutant: the statistics are those of all rows.                            *)
TrainingValuesOfAll(rows, training, feature) ==
  [i \in DOMAIN rows |-> rows[i][feature]]

TrainingValues(rows, training, feature) ==
  LET order == InOrder(training, Len(rows))
  IN  [k \in DOMAIN order |-> rows[order[k]][feature]]

CanFitAll(rows, training, policy) ==
  \A f \in DOMAIN rows[1] : CanFit(TrainingValues(rows, training, f), policy)

FitAll(rows, training, normalization) ==
  [f \in DOMAIN rows[1] |->
     Statistics(TrainingValues(rows, training, f), normalization)]

-----------------------------------------------------------------------------
(* The metadata of a transform.                                             *)

FeatureValid(feature, normalization) ==
  /\ Finite(feature.offset) /\ Finite(feature.scale) /\ Finite(feature.impute)
  /\ feature.scale > 0
  /\ normalization = "none" => feature.offset = 0 /\ feature.scale = One

MetadataValid(metadata) ==
  /\ metadata.version \in {1, 2}
  /\ metadata.normalization \in Normalizations
  /\ metadata.missing \in MissingPolicies
  /\ metadata.algorithm = AlgorithmOf(metadata.version)
  /\ metadata.features # <<>>
  /\ \A f \in DOMAIN metadata.features :
       FeatureValid(metadata.features[f], metadata.normalization)

Transformed(metadata, f, value) ==
  LET known == IF value = Missing THEN metadata.features[f].impute ELSE value
  IN  Div(Sub(known, metadata.features[f].offset), metadata.features[f].scale)

CanApply(metadata, row) ==
  \A f \in DOMAIN row :
    /\ row[f] = Missing => metadata.missing = "mean"
    /\ Finite(Transformed(metadata, f, row[f]))

Apply(metadata, row) == [f \in DOMAIN row |-> Transformed(metadata, f, row[f])]

(* Without metadata a prediction takes what is there and finite.            *)
CanPrepare(metadata, row) ==
  IF metadata = <<>> THEN Missing \notin ToSet(row)
  ELSE Len(metadata[1].features) = Len(row) /\ CanApply(metadata[1], row)

-----------------------------------------------------------------------------
(* preprocessing.txt.                                                       *)

Settings ==
  <<"preprocessing", "inputs", "normalization", "missing", "source_digest",
    "schema_digest", "split_seed", "validation_ratio", "test_ratio",
    "stratified">>

(* Mutant: the imputed value is written in the place of the offset.         *)
FeatureLineSwapped(feature, index) ==
  <<"feature", index, feature.impute, feature.scale, feature.impute>>

FeatureLine(feature, index) ==
  <<"feature", index, feature.offset, feature.scale, feature.impute>>

WriteMetadata(metadata) ==
  LET values == <<metadata.version, Len(metadata.features),
                  metadata.normalization, metadata.missing, metadata.source,
                  metadata.schema, metadata.seed, metadata.validation,
                  metadata.test, metadata.stratified>>
  IN  [i \in DOMAIN Settings |-> <<Settings[i], values[i]>>]
      \o (IF metadata.version = 2
            THEN <<<<"split_algorithm", metadata.algorithm>>>> ELSE <<>>)
      \o [i \in DOMAIN metadata.features |->
            FeatureLine(metadata.features[i], i - 1)]
      \o <<<<"end">>>>

(* The lines of a file whose first two lines say its version and inputs.    *)
Expected(version, inputs) ==
  Settings \o (IF version = 2 THEN <<"split_algorithm">> ELSE <<>>)
           \o [i \in 1 .. inputs |-> "feature"] \o <<"end">>

(* The lines of the features are between the settings and the last line.    *)
FeatureLines(lines) ==
  LET before == Len(Settings) + (IF lines[1][2] = 2 THEN 1 ELSE 0)
  IN  [i \in 1 .. Len(lines) - before - 1 |-> lines[before + i]]

FeatureReads(line, index) ==
  line[2] = index /\ \A i \in 3 .. 5 : Readable(line[i])

MetadataReads(lines) ==
  /\ Len(lines) > 2
  /\ lines[1][1] = "preprocessing" /\ lines[1][2] \in {1, 2}
  /\ lines[2][1] = "inputs" /\ lines[2][2] > 0
  /\ [i \in DOMAIN lines |-> lines[i][1]] = Expected(lines[1][2], lines[2][2])
  /\ lines[3][2] \in Normalizations /\ lines[4][2] \in MissingPolicies
  /\ lines[10][2] \in BOOLEAN
  /\ lines[1][2] = 2 => lines[11][2] = AlgorithmOf(2)
  /\ \A i \in DOMAIN FeatureLines(lines) :
       FeatureReads(FeatureLines(lines)[i], i - 1)

(* What a file gives that is read.                                          *)
ReadMetadata(lines) ==
  [version |-> lines[1][2], normalization |-> lines[3][2],
   missing |-> lines[4][2], source |-> lines[5][2], schema |-> lines[6][2],
   seed |-> lines[7][2], validation |-> lines[8][2], test |-> lines[9][2],
   stratified |-> lines[10][2], algorithm |-> AlgorithmOf(lines[1][2]),
   features |-> [i \in 1 .. lines[2][2] |->
                   LET line == FeatureLines(lines)[i]
                   IN  [offset |-> line[3], scale |-> line[4],
                        impute |-> line[5]]]]

Loads(lines) == MetadataReads(lines) /\ MetadataValid(ReadMetadata(lines))
=============================================================================
