--------------------------- MODULE PredictionDocument ---------------------------
(***************************************************************************)
(* What predict and evaluate promise (docs/prediction.md and               *)
(* docs/data-interfaces.md): a request is answered completely, each sample *)
(* at its place whatever the number of threads and the size of batches, or *)
(* not at all; what is printed is a part of the answer only when writing   *)
(* itself failed; and the sample a failure names is the first of its kind, *)
(* except that the numbers of samples in later batches of a document are   *)
(* left open, since the code does not give the promised ones.              *)
(***************************************************************************)
EXTENDS Integers, Sequences

(* A line of a request: a sample with an answer, with an answer that is not *)
(* finite, with an input that is missing, that is no sample or another one; *)
(* the last line of a document or a line that does not belong there.        *)
Samples == {"good", "overflow", "missing"}
Lines == Samples \cup {"malformed", "misplaced", "end", "content"}

(* The lines of a document have an end; other requests only samples.        *)
Wanted(request) ==
  IF request.mode = "document" THEN request.declared ELSE Len(request.lines)

Expected(request) ==
  [i \in 1 .. Wanted(request) |-> "sample"]
  \o (IF request.mode = "document" THEN <<"end">> ELSE <<>>)

Answerable(request, line) ==
  line = "good" \/ (line = "missing" /\ request.imputes)

Valid(request) ==
  /\ request.fits
  /\ Len(request.lines) = Len(Expected(request))
  /\ \A i \in DOMAIN request.lines :
       IF Expected(request)[i] = "end" THEN request.lines[i] = "end"
       ELSE Answerable(request, request.lines[i])

(* Sample i of the answer is for line i of the request.                     *)
Answer(request) ==
  LET all == [i \in 1 .. Wanted(request) |-> <<i - 1, i>>]
  IN  IF request.mode = "evaluate" THEN <<<<"metrics", all>>>>
      ELSE <<<<"header">>>> \o all \o <<<<"end">>>>

InFirstBatch(request, i) == request.mode = "document" => i <= request.batch

(* The line of the first sample that fails in this way, if there is one.    *)
FirstOf(request, kind) ==
  {i \in DOMAIN request.lines :
     /\ request.lines[i] = kind
     /\ kind = "missing" => ~request.imputes
     /\ \A j \in 1 .. i - 1 : request.lines[j] # kind}

(* The numbers a failure at line i may give; the sample's own is i - 1.     *)
Numbers(request, i) ==
  IF InFirstBatch(request, i) THEN {i - 1} ELSE 0 .. i - 1

(* A failure names no sample, or the first that fails like it.              *)
Reports(request) ==
  {<<"other">>} \cup
  UNION {{<<kind, n>> : n \in UNION {Numbers(request, i) : i \in FirstOf(request, kind)}}
           : kind \in {"missing", "overflow"}}

VARIABLES
  request,  \* what was asked
  printed,  \* what was written to the standard output
  outcome   \* running, ok, or what failed

(* Any request may be made.                                                 *)
Init ==
  /\ printed = <<>>
  /\ outcome = <<"running">>

Show ==
  /\ outcome = <<"running">>
  /\ Valid(request)
  /\ \E n \in Len(printed) + 1 .. Len(Answer(request)) :
       printed' = SubSeq(Answer(request), 1, n)
  /\ UNCHANGED <<request, outcome>>

Succeed ==
  /\ outcome = <<"running">>
  /\ printed = Answer(request)
  /\ outcome' = <<"ok">>
  /\ UNCHANGED <<request, printed>>

Fail ==
  /\ outcome = <<"running">>
  /\ outcome' \in Reports(request)
  /\ UNCHANGED <<request, printed>>

Next == Show \/ Succeed \/ Fail

Spec == Init /\ [][Next]_<<request, printed, outcome>>
=============================================================================
