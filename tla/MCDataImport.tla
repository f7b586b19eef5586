------------------------------ MODULE MCDataImport ------------------------------
(* All short lines of quotes and commas, files of up to three rows, schemas   *)
(* that are complete and schemas that lack, repeat or exchange lines, edits   *)
(* of small files, and splits of up to nine rows in up to three classes with  *)
(* 4-bit sizes, so that the products of quotas exceed what a size can hold.   *)
(* Numbers have three bits of precision: 1.0 is 16 units.                     *)
EXTENDS ImportProperties

MCCountOf == [w \in {"0", "1", "2", "3"} |->
                CASE w = "0" -> 0 [] w = "1" -> 1 [] w = "2" -> 2
                  [] w = "3" -> 3]

\* "11" rounds to twelve, "h" is huge and "t" is tiny.
MCNumberOf == [w \in {"0", "1", "3", "11", "h", "t"} |->
                 CASE w = "0" -> 0 [] w = "1" -> 16 [] w = "3" -> 48
                   [] w = "11" -> 192 [] w = "h" -> 448 [] w = "t" -> 4]

Regression ==
  [inputs |-> 1, outputs |-> 1, loss |-> "mse", activation |-> "linear",
   trained |-> FALSE, patience |-> FALSE]

Classifier ==
  [Regression EXCEPT !.loss = "binary_cross_entropy",
                     !.activation = "sigmoid"]

Wide == [Regression EXCEPT !.inputs = 2]

NoEdits == [csv |-> {}, schema |-> {}]

Case(project, csv, lines) ==
  [project |-> project, csv |-> csv, schema |-> lines, edits |-> NoEdits]

Numeric(header) ==
  <<Schema!Title, <<"columns", "2">>, <<"header", header>>, <<"inputs", "0">>,
    <<"targets", "1">>, <<"end">>>>

Labelled(names) ==
  <<Schema!Title, <<"columns", "2">>, <<"header", "no">>, <<"inputs", "0">>,
    <<"label", "1">>>>
  \o [k \in DOMAIN names |->
        <<"class", names[k], IF k = 1 THEN "1" ELSE "0">>]
  \o <<<<"end">>>>

Characters == {"\"", ",", "1", "?"}

ShortLines == UNION {[1 .. n -> Characters] : n \in 0 .. 6}

Scans == {Case(Regression, <<line>>, Numeric("no")) : line \in ShortLines}

Row(cell, last) == <<cell, ",", last>>

Files(cells, lasts, n) ==
  [1 .. n -> {Row(c, l) : c \in cells, l \in lasts}]

Small ==
  LET csvs == UNION {Files({"1", "3", "?"}, {"1"}, n) : n \in 1 .. 3}
              \cup Files({"h", "1", "t"}, {"1"}, 2)
  IN  {Case(Regression, csv, Numeric("no")) : csv \in csvs}
      \cup {Case([Regression EXCEPT !.patience = TRUE], csv, Numeric("yes"))
              : csv \in Files({"1", "3"}, {"1"}, 3) \cup {<<>>}}
      \cup {Case(Classifier, csv, Labelled(<<"a", "b">>))
              : csv \in Files({"1", "3"}, {"a", "b"}, 3)
                        \cup {<<Row("1", "c")>>, <<Row("1", "a"), <<>>>>}}
      \cup {Case(Classifier, <<Row("1", "3"), Row("1", "1")>>, Numeric("no"))}
      \cup {Case([Classifier EXCEPT !.activation = "tanh"], <<>>,
                 Numeric("no")),
            Case([Regression EXCEPT !.trained = TRUE], <<>>, Numeric("no"))}
      \cup {Case(Wide, <<<<"1", ",", "3", ",", "1">>,
                         <<"3", ",", "1", ",", "?">>,
                         <<"3", ",", "1", ",", "1">>>>,
                 <<Schema!Title, <<"columns", "3">>, <<"header", "no">>,
                   <<"inputs", "2", "0">>, <<"targets", "1">>, <<"end">>>>)}

(* A schema with one line left out, repeated at another place, exchanged    *)
(* with its neighbour or replaced.                                          *)
Without(lines, i) == SubSeq(lines, 1, i - 1) \o SubSeq(lines, i + 1, Len(lines))

With(lines, i, line) ==
  SubSeq(lines, 1, i) \o <<line>> \o SubSeq(lines, i + 1, Len(lines))

OtherLines ==
  {<<>>, <<"columns", "0">>, <<"columns", "1">>, <<"columns", "x">>,
   <<"header", "x">>, <<"inputs", "0", "0">>, <<"inputs", "1">>,
   <<"inputs", "0", "1">>, <<"inputs">>, <<"targets", "2">>,
   <<"targets", "0">>, <<"targets", "1">>, <<"label", "0">>, <<"label", "1">>,
   <<"class", "a", "x">>, <<"class", "c", "1">>, <<"class", "c">>,
   <<"end", "end">>, <<"neural-c", "csv-schema", "2">>}

Variants(lines) ==
  {Without(lines, i) : i \in DOMAIN lines}
  \cup {With(lines, i, lines[j]) : i, j \in DOMAIN lines}
  \cup {With(lines, i, l) : i \in 0 .. Len(lines), l \in OtherLines}
  \cup {[lines EXCEPT ![i] = l] : i \in DOMAIN lines, l \in OtherLines}
  \cup {[lines EXCEPT ![i] = lines[i + 1], ![i + 1] = lines[i]]
          : i \in 1 .. Len(lines) - 1}

Schemas ==
  {Case(Regression, <<Row("1", "1")>>, lines)
     : lines \in Variants(Numeric("no"))}
  \cup {Case(Regression, <<Row("1", "a")>>, lines)
          : lines \in Variants(Labelled(<<"a", "b">>))}

(* Files whose owner exchanges, adds or drops rows, turns the header on or  *)
(* exchanges columns or the outputs of classes.                             *)
Edited ==
  {[Case(Regression, <<Row("1", "1"), Row("1", "3")>>, Numeric("no")) EXCEPT
      !.edits = [csv |-> {<<Row("3", "1"), Row("1", "3")>>,
                          <<Row("1", "1"), Row("1", "3"), Row("3", "1")>>,
                          <<Row("1", "1")>>},
                 schema |-> {Numeric("yes"),
                             [Numeric("no") EXCEPT
                                ![4] = <<"inputs", "1">>,
                                ![5] = <<"targets", "0">>]}]],
   [Case(Classifier, <<Row("1", "a"), Row("3", "b"), Row("1", "b")>>,
         Labelled(<<"a", "b">>)) EXCEPT
      !.edits = [csv |-> {<<Row("1", "b"), Row("3", "a"), Row("1", "b")>>},
                 schema |-> {Labelled(<<"b", "a">>)}]]}

Names == <<"a", "b", "c">>

(* Files of n rows of the first k classes, sorted by class.                 *)
Sorted(n, k) ==
  {f \in [1 .. n -> 1 .. k] : \A i \in 1 .. n - 1 : f[i] <= f[i + 1]}

Large ==
  UNION {{Case(Classifier, [i \in 1 .. n |-> Row("1", Names[f[i]])],
               Labelled(SubSeq(Names, 1, k))) : f \in Sorted(n, k)}
         : n \in 4 .. 9, k \in 1 .. 3}

MCCases == Scans \cup Small \cup Schemas \cup Edited \cup Large
=============================================================================
