------------------------------- MODULE Prediction -------------------------------
(***************************************************************************)
(* predict and evaluate after their snapshot of a project is loaded        *)
(* (src/main.c): a document is read batch by batch (src/input_document.c), *)
(* each batch is transformed, answered by threads that share its samples   *)
(* (neural_prediction_run of src/predict_project.c) and staged in a        *)
(* temporary file, which is copied to the standard output at the end.      *)
(* Positional samples and a dataset are one batch.                         *)
(*                                                                         *)
(* An output is the line it was computed from.  A thread can be refused by *)
(* the system; joining a thread that was created cannot fail.              *)
(***************************************************************************)
EXTENDS Integers, Sequences

CONSTANT Requests

(* Sizes and counts of threads are validated; a dataset lacks no input.     *)
ASSUME RequestAssumption ==
  \A r \in Requests :
    /\ r.mode \in {"document", "positional", "evaluate"}
    /\ r.lines \in Seq({"good", "overflow", "missing", "malformed",
                       "misplaced", "end", "content"})
    /\ r.declared \in Nat
    /\ r.batch \in Nat \ {0}
    /\ r.threads \in Nat \ {0}
    /\ r.imputes \in BOOLEAN
    /\ r.fits \in BOOLEAN
    /\ r.mode = "evaluate" =>
         \A i \in DOMAIN r.lines : r.lines[i] # "missing"

(* A worker ends with the sample it cannot answer, or with 0.               *)
Running == -1

VARIABLES
  request,   \* what was asked
  place,     \* where the main thread is, or "ended"
  position,  \* lines of the request that were read
  capacity,  \* samples of a batch
  inputs,    \* lines of the batch
  outputs,   \* the line each output was computed from, 0 at first
  complete,  \* whether the document was read to its end
  planned,   \* workers of the batch
  workers,   \* the threads that were created: the next sample of each
  ended,     \* how each worker ended, Running before that
  joined,    \* workers that were joined
  staged,    \* the temporary file
  first,     \* samples of earlier batches
  printed,   \* the standard output
  outcome    \* running, ok, or what failed

asked == <<request, capacity>>
batch == <<position, inputs, complete>>
threads == <<planned, workers, ended, joined>>
output == <<staged, first, printed>>
vars == <<asked, batch, threads, output, outputs, place, outcome>>

Document == request.mode = "document"

Lines == request.lines

Init ==
  /\ request \in Requests
  /\ place = "begin"
  /\ position = 0
  /\ capacity = 0
  /\ inputs = <<>>
  /\ outputs = <<>>
  /\ complete = FALSE
  /\ planned = 0
  /\ workers = <<>>
  /\ ended = <<>>
  /\ joined = 0
  /\ staged = <<>>
  /\ first = 0
  /\ printed = <<>>
  /\ outcome = <<"running">>

(* Every failure ends the command with a message.                           *)
Fail(report) == place' = "ended" /\ outcome' = report

Continue(next) == place' = next /\ UNCHANGED outcome

-----------------------------------------------------------------------------
(* The samples.                                                             *)

Lesser(a, b) == IF a < b THEN a ELSE b

(* The document's title, its number of samples and its width are read; the  *)
(* batch is no larger than the document; the header is staged.              *)
OpenDocument ==
  /\ place = "begin" /\ Document
  /\ IF request.fits /\ request.declared > 0
       THEN /\ capacity' = Lesser(request.batch, request.declared)
            /\ outputs' = [i \in 1 .. capacity' |-> 0]
            /\ staged' = <<<<"header">>>>
            /\ Continue("read")
       ELSE Fail(<<"other">>) /\ UNCHANGED <<capacity, outputs, staged>>
  /\ UNCHANGED <<request, batch, threads, first, printed>>

Reads(line) == line \in {"good", "overflow", "missing"}

(* Positional samples are all parsed, a dataset was when it was loaded.     *)
TakeAll ==
  /\ place = "begin" /\ ~Document
  /\ IF /\ request.fits /\ Lines # <<>>
        /\ \A i \in DOMAIN Lines : Reads(Lines[i])
       THEN /\ capacity' = Len(Lines)
            /\ inputs' = [i \in DOMAIN Lines |-> i]
            /\ outputs' = [i \in DOMAIN Lines |-> 0]
            /\ position' = Len(Lines)
            /\ Continue(IF request.mode = "evaluate" THEN "plan"
                        ELSE "prepare")
       ELSE Fail(<<"other">>) /\ UNCHANGED <<capacity, inputs, outputs, position>>
  /\ UNCHANGED <<request, complete, threads, output>>

Left == request.declared - position

(* After n lines the document has its end and nothing else.                 *)
Ends(n) == Len(Lines) = n + 1 /\ Lines[n + 1] = "end"

(* The next batch of samples, and after the last one the end.               *)
ReadBatch ==
  /\ place = "read"
  /\ LET n == Lesser(capacity, Left)
     IN  IF /\ position + n <= Len(Lines)
            /\ \A i \in position + 1 .. position + n : Reads(Lines[i])
            /\ n = Left => Ends(position + n)
           THEN /\ inputs' = [i \in 1 .. n |-> position + i]
                /\ position' = position + n
                /\ complete' = (n = Left)
                /\ Continue("prepare")
           ELSE Fail(<<"other">>) /\ UNCHANGED batch
  /\ UNCHANGED <<asked, outputs, threads, output>>

Samples == DOMAIN inputs

(* The first of these samples is reported, counted from the batch's start.  *)
FailAtFirst(kind, samples) ==
  \E i \in samples : /\ \A j \in samples : i <= j
                     /\ Fail(<<kind, i - 1>>)

(* A missing input is imputed or refused.                                   *)
Prepare ==
  /\ place = "prepare"
  /\ LET refused == {i \in Samples : Lines[inputs[i]] = "missing"
                                     /\ ~request.imputes}
     IN  IF refused = {} THEN Continue("plan")
         ELSE FailAtFirst("missing", refused)
  /\ UNCHANGED <<asked, batch, outputs, threads, output>>

-----------------------------------------------------------------------------
(* The threads of a batch.                                                  *)

Plan ==
  /\ place = "plan"
  /\ planned' = Lesser(request.threads, Len(inputs))
  /\ workers' = <<>>
  /\ ended' = <<>>
  /\ joined' = 0
  /\ Continue("create")
  /\ UNCHANGED <<asked, batch, outputs, output>>

Create ==
  /\ place = "create"
  /\ Len(workers) < planned
  /\ workers' = Append(workers, Len(workers) + 1)
  /\ ended' = Append(ended, Running)
  /\ UNCHANGED <<asked, batch, outputs, planned, joined, output, place,
                 outcome>>

(* Mutant: the workers that run already are forgotten.                      *)
CreateFailsAlone ==
  /\ place = "create"
  /\ Len(workers) < planned
  /\ Fail(<<"other">>)
  /\ UNCHANGED <<asked, batch, outputs, threads, output>>

(* The system refuses a thread: those before it are waited for.             *)
CreateFails ==
  /\ place = "create"
  /\ Len(workers) < planned
  /\ Continue("abandon")
  /\ UNCHANGED <<asked, batch, outputs, threads, output>>

AllCreated ==
  /\ place = "create"
  /\ Len(workers) = planned
  /\ Continue("join")
  /\ UNCHANGED <<asked, batch, outputs, threads, output>>

Answers(line) == Lines[line] \in {"good", "missing"}

(* Mutant: a worker stays at its sample.                                    *)
AfterSame(w) == IF Len(inputs) - workers[w] < planned THEN 0 ELSE workers[w]

(* The next sample of a worker, 0 after its last one.                       *)
After(w) ==
  IF Len(inputs) - workers[w] < planned THEN 0 ELSE workers[w] + planned

(* A worker answers one of its samples, and stops at one it cannot answer.  *)
Work(w) ==
  /\ w \in DOMAIN workers
  /\ ended[w] = Running
  /\ LET sample == workers[w]
     IN  IF Answers(inputs[sample])
           THEN /\ outputs' = [outputs EXCEPT ![sample] = inputs[sample]]
                /\ IF After(w) = 0
                     THEN ended' = [ended EXCEPT ![w] = 0]
                          /\ UNCHANGED workers
                     ELSE workers' = [workers EXCEPT ![w] = After(w)]
                          /\ UNCHANGED ended
           ELSE /\ ended' = [ended EXCEPT ![w] = sample]
                /\ UNCHANGED <<outputs, workers>>
  /\ UNCHANGED <<asked, batch, planned, joined, output, place, outcome>>

(* Workers are joined in their order.                                       *)
Join ==
  /\ place = "join"
  /\ joined < planned
  /\ ended[joined + 1] # Running
  /\ joined' = joined + 1
  /\ UNCHANGED <<asked, batch, outputs, planned, workers, ended, output,
                 place, outcome>>

Failed == {ended[w] : w \in DOMAIN ended} \ {0, Running}

(* Mutant: the failure of the first worker that failed is reported.         *)
SettleFirstWorker ==
  /\ place = "join"
  /\ joined = planned
  /\ IF Failed = {} THEN Continue("write")
     ELSE \E w \in DOMAIN ended :
            /\ ended[w] # 0
            /\ \A v \in 1 .. w - 1 : ended[v] = 0
            /\ FailAtFirst("overflow", {ended[w]})
  /\ UNCHANGED <<asked, batch, outputs, threads, output>>

(* The lowest sample of all that failed is reported.                        *)
Settle ==
  /\ place = "join"
  /\ joined = planned
  /\ IF Failed = {} THEN Continue("write")
     ELSE FailAtFirst("overflow", Failed)
  /\ UNCHANGED <<asked, batch, outputs, threads, output>>

(* After a refused thread the others are joined, the last one first.        *)
Abandon ==
  /\ place = "abandon"
  /\ \A w \in DOMAIN ended : ended[w] # Running
  /\ Fail(<<"other">>)
  /\ UNCHANGED <<asked, batch, outputs, threads, output>>

-----------------------------------------------------------------------------
(* The answer.                                                              *)

SampleLine(i) == <<first + i - 1, outputs[i]>>

SampleLines == [i \in Samples |-> SampleLine(i)]

(* The outputs of the batch are staged; the file may be refused.            *)
Stage ==
  /\ place = "write" /\ Document
  /\ \/ /\ staged' = staged \o SampleLines
        /\ first' = first + Len(inputs)
        /\ Continue(IF complete THEN "finish" ELSE "read")
     \/ Fail(<<"other">>) /\ UNCHANGED <<staged, first>>
  /\ UNCHANGED <<asked, batch, outputs, threads, printed>>

(* The staged output is complete before any of it is printed.               *)
Finish ==
  /\ place = "finish"
  /\ IF first = request.declared
       THEN staged' = Append(staged, <<"end">>) /\ Continue("copy")
       ELSE UNCHANGED staged /\ Fail(<<"other">>)
  /\ UNCHANGED <<asked, batch, outputs, threads, first, printed>>

(* Positional samples are printed at once.                                  *)
Write ==
  /\ place = "write" /\ request.mode = "positional"
  /\ staged' = <<<<"header">>>> \o SampleLines \o <<<<"end">>>>
  /\ Continue("copy")
  /\ UNCHANGED <<asked, batch, outputs, threads, first, printed>>

(* The metrics of a dataset are computed from all its outputs.              *)
Evaluate ==
  /\ place = "write" /\ request.mode = "evaluate"
  /\ \/ staged' = <<<<"metrics", SampleLines>>>> /\ Continue("copy")
     \/ UNCHANGED staged /\ Fail(<<"other">>)
  /\ UNCHANGED <<asked, batch, outputs, threads, first, printed>>

(* A part of the answer is given to the standard output.  Predictions end   *)
(* when it refuses one, metrics do not look.                                *)
Show ==
  /\ place = "copy"
  /\ Len(printed) < Len(staged)
  /\ \/ /\ printed' = Append(printed, staged[Len(printed) + 1])
        /\ UNCHANGED <<place, outcome>>
     \/ /\ request.mode # "evaluate"
        /\ UNCHANGED printed
        /\ Fail(<<"other">>)
  /\ UNCHANGED <<asked, batch, outputs, threads, staged, first>>

Done ==
  /\ place = "copy"
  /\ printed = staged
  /\ place' = "ended" /\ outcome' = <<"ok">>
  /\ UNCHANGED <<asked, batch, outputs, threads, output>>

Main ==
  \/ OpenDocument \/ TakeAll \/ ReadBatch \/ Prepare
  \/ Plan \/ Create \/ CreateFails \/ AllCreated \/ Join \/ Settle \/ Abandon
  \/ Stage \/ Finish \/ Write \/ Evaluate \/ Show \/ Done

Threads == UNION {1 .. r.threads : r \in Requests}

Next == Main \/ \E w \in Threads : Work(w)

Spec ==
  /\ Init /\ [][Next]_vars
  /\ WF_vars(Main)
  /\ \A w \in Threads : WF_vars(Work(w))

-----------------------------------------------------------------------------

(* Type invariant.  Threads run only while the main thread creates and      *)
(* joins them: the buffers and workspaces they use are freed afterwards.    *)
TypeOK ==
  /\ place \in {"begin", "read", "prepare", "plan", "create", "join",
                "abandon", "write", "finish", "copy", "ended"}
  /\ position \in 0 .. Len(Lines)
  /\ Len(inputs) <= capacity /\ Len(outputs) = capacity
  /\ Len(workers) = Len(ended) /\ Len(workers) <= planned
  /\ \A w \in DOMAIN workers :
       ended[w] = Running =>
         /\ workers[w] \in Samples
         /\ place \in {"create", "join", "abandon"}
  /\ outcome = <<"running">> <=> place # "ended"

Promised == INSTANCE PredictionDocument

(* Every request is answered completely and in order or not at all, the     *)
(* same for any number of threads and any size of batches.  A failure names *)
(* a way in which some sample fails, and of the samples that are answered   *)
(* as one batch, or in the first batch of a document, the first that fails  *)
(* so.  Of the number that a failure in a later batch of a document gives   *)
(* no more is claimed than that it is not past the sample: the code does    *)
(* not count it from the document's start.                                  *)
ImplementsDocument == Promised!Spec

(* Every command ends: no thread is waited for that never ends, and each    *)
(* batch brings a document nearer to its end.                               *)
PredictionEnds == <>(place = "ended")

-----------------------------------------------------------------------------
(* What holds at every step, from which the abstract specification follows. *)

Working == place \in {"create", "join", "abandon"}

InBatch == Working \/ place \in {"prepare", "plan", "write"}

BatchTyped ==
  /\ request \in Requests
  /\ place \in {"begin", "read", "prepare", "plan", "create", "join",
                "abandon", "write", "finish", "copy", "ended"}
  /\ position \in 0 .. Len(Lines)
  /\ capacity \in Nat
  /\ inputs \in Seq(Nat) /\ Len(inputs) <= capacity
  /\ outputs \in Seq(Nat) /\ Len(outputs) = capacity
  /\ complete \in BOOLEAN
  /\ first \in Nat
  /\ outcome = <<"running">> <=> place # "ended"

(* A batch holds the samples that follow those of the batches before it.    *)
BatchSound ==
  /\ InBatch =>
       /\ request.fits
       /\ Len(inputs) \in 1 .. Len(Lines)
       /\ position = first + Len(inputs)
       /\ \A i \in Samples : inputs[i] = first + i
       /\ \A i \in 1 .. position : Reads(Lines[i])
       /\ ~Document => first = 0 /\ position = Len(Lines)
  /\ place \in {"read", "finish"} =>
       request.fits /\ Document /\ position = first
  /\ place = "begin" => first = 0 /\ position = 0 /\ inputs = <<>>

(* How far the document is; every batch but the last one has its full size, *)
(* so that a batch that is not the first is beyond the size of one.         *)
DocumentSound ==
  Document =>
    /\ place = "read" =>
         /\ first < request.declared
         /\ capacity = Lesser(request.batch, request.declared)
         /\ first = 0 \/ first >= request.batch
    /\ InBatch =>
         /\ position <= request.declared
         /\ first = 0 \/ first >= request.batch
         /\ complete <=> position = request.declared
         /\ complete => Ends(position)
         /\ ~complete =>
              /\ Len(inputs) = request.batch
              /\ capacity = Lesser(request.batch, request.declared)
    /\ place = "finish" => first = request.declared /\ Ends(first)

(* Batches before this one have answers; inputs that are missing are        *)
(* imputed once the batch is prepared.                                      *)
AnswersSound ==
  /\ InBatch \/ place \in {"read", "finish"} =>
       \A i \in 1 .. first : Promised!Answerable(request, Lines[i])
  /\ Working \/ place \in {"plan", "write"} =>
       \A i \in 1 .. position : Lines[i] = "missing" => request.imputes
  /\ place = "write" =>
       \A i \in Samples : outputs[i] = inputs[i] /\ Answers(inputs[i])

(* The worker of a sample.                                                  *)
WorkerOf(i) == 1 + ((i - 1) % planned)

(* Each worker has answered its samples up to the next one.                 *)
WorkerSound(w) ==
  /\ workers[w] \in Samples /\ WorkerOf(workers[w]) = w
  /\ ended[w] \in {0, Running, workers[w]}
  /\ ended[w] = workers[w] => ~Answers(inputs[workers[w]])
  /\ \A i \in Samples :
       WorkerOf(i) = w /\ (i < workers[w] \/ ended[w] = 0) =>
         outputs[i] = inputs[i] /\ Answers(inputs[i])

WorkSound ==
  /\ Working =>
       /\ planned \in 1 .. Len(inputs)
       /\ place = "join" => Len(workers) = planned
       /\ joined \in 0 .. planned
       /\ place # "join" => joined = 0
       /\ \A w \in 1 .. joined : ended[w] # Running
       /\ \A w \in DOMAIN workers : WorkerSound(w)
  /\ workers \in Seq(Nat) /\ ended \in Seq(Int) /\ Len(workers) = Len(ended)
  /\ Len(workers) <= planned
  /\ ~Working => \A w \in DOMAIN workers : ended[w] # Running

(* The answer so far.                                                       *)
OutputSound ==
  /\ Document /\ (InBatch \/ place \in {"read", "finish"}) =>
       staged = <<<<"header">>>> \o [i \in 1 .. first |-> <<i - 1, i>>]
  /\ place = "copy" =>
       /\ Promised!Valid(request)
       /\ staged = Promised!Answer(request)
       /\ Len(printed) \in 0 .. Len(staged)
       /\ printed = SubSeq(staged, 1, Len(printed))
  /\ place \notin {"copy", "ended"} => printed = <<>>

PredictionIInv ==
  /\ BatchTyped
  /\ BatchSound
  /\ DocumentSound
  /\ AnswersSound
  /\ WorkSound
  /\ OutputSound
=============================================================================
