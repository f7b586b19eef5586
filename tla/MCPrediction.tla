------------------------------ MODULE MCPrediction ------------------------------
(* Documents of up to three lines of any kind after a header that declares up *)
(* to three samples, and of five samples with and without answers; the same   *)
(* samples as arguments and as a dataset; batches of one to five samples and  *)
(* one to three threads.                                                      *)
EXTENDS Prediction

Kinds == {"good", "overflow", "missing", "malformed", "misplaced", "end",
          "content"}

SequencesOf(S, n) == [1 .. n -> S]

Asked(mode, lines, declared, size, count, imputes, fits) ==
  [mode |-> mode, lines |-> lines, declared |-> declared, batch |-> size,
   threads |-> count, imputes |-> imputes, fits |-> fits]

ShortDocuments ==
  {Asked("document", lines, declared, size, count, imputes, TRUE)
     : lines \in UNION {SequencesOf(Kinds, n) : n \in 0 .. 3},
       declared \in 0 .. 3, size \in {1, 2}, count \in {2}, imputes \in BOOLEAN}

LongDocuments ==
  {Asked("document", Append(lines, "end"), 5, size, count, FALSE, fits)
     : lines \in SequencesOf({"good", "overflow"}, 5), size \in {2, 3, 5},
       count \in 1 .. 3, fits \in {TRUE}}

MixedDocuments ==
  {Asked("document", Append(lines, "end"), 4, size, 3, imputes, fits)
     : lines \in SequencesOf({"good", "overflow", "missing"}, 4),
       size \in {3, 4}, imputes \in BOOLEAN, fits \in BOOLEAN}

OtherRequests ==
  {Asked(mode, lines, 0, 1, count, FALSE, fits)
     : mode \in {"positional", "evaluate"},
       lines \in SequencesOf({"good", "overflow"}, 4)
                 \cup {<<>>, <<"good", "malformed">>},
       count \in 1 .. 3, fits \in BOOLEAN}
  \cup {Asked("positional", lines, 0, 1, 2, imputes, TRUE)
          : lines \in SequencesOf({"good", "missing", "overflow"}, 3),
            imputes \in BOOLEAN}

MCRequests ==
  ShortDocuments \cup LongDocuments \cup MixedDocuments \cup OtherRequests
=============================================================================
