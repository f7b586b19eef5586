--------------------------- MODULE PredictionProofs ---------------------------
(***************************************************************************)
(* Theorems about predictions, for any requests: documents of any length,  *)
(* any size of batches, any number of threads, refused threads and failing *)
(* output in any order of the threads' steps.                              *)
(***************************************************************************)
EXTENDS Prediction, SequenceTheorems, TLAPS

-----------------------------------------------------------------------------
(* Remainders.                                                              *)

LEMMA Division ==
  ASSUME NEW n \in Nat, NEW d \in Nat \ {0}
  PROVE  /\ n \div d \in Nat /\ n % d \in 0 .. d - 1
         /\ n = (n \div d) * d + (n % d)
  OBVIOUS

LEMMA RemainderUnique ==
  ASSUME NEW n \in Nat, NEW d \in Nat \ {0}, NEW q \in Nat, NEW r \in 0 .. d - 1,
         n = q * d + r
  PROVE  n % d = r
  BY SMT

(* Every p-th sample has the same worker, and those between have others.    *)
LEMMA NextRemainder ==
  ASSUME NEW p \in Nat \ {0}, NEW n \in Nat
  PROVE  (n + p) % p = n % p
<1> DEFINE q == n \div p
           r == n % p
<1>1. q \in Nat /\ r \in 0 .. p - 1 /\ n = q * p + r
  BY Division
<1> HIDE DEF q, r
<1>2. n + p = (q + 1) * p + r
  BY <1>1
<1>3. (n + p) % p = r
  BY <1>1, <1>2, RemainderUnique
<1> QED
  BY <1>3 DEF r

LEMMA PositiveMultiple ==
  ASSUME NEW p \in Nat, NEW k \in Int, k >= 1
  PROVE  k * p >= p
  OBVIOUS

LEMMA SameRemainder ==
  ASSUME NEW p \in Nat \ {0}, NEW m \in Nat, NEW n \in Nat, m < n,
         m % p = n % p
  PROVE  m + p <= n
<1> DEFINE a == m \div p
           b == n \div p
           r == m % p
<1>1. /\ a \in Nat /\ b \in Nat /\ r \in 0 .. p - 1
      /\ m = a * p + r /\ n = b * p + r
  BY Division
<1> HIDE DEF a, b, r
<1>2. CASE b - a >= 1
  <2>1. (b - a) * p >= p
    BY <1>1, <1>2, PositiveMultiple
  <2>2. (b - a) * p = n - m
    BY <1>1
  <2> QED
    BY <2>1, <2>2
<1>3. CASE b = a
  BY <1>1, <1>3
<1>4. CASE a - b >= 1
  <2>1. (a - b) * p >= p
    BY <1>1, <1>4, PositiveMultiple
  <2>2. (a - b) * p = m - n
    BY <1>1
  <2> QED
    BY <2>1, <2>2
<1> QED
  BY <1>1, <1>2, <1>3, <1>4

LEMMA Workers ==
  ASSUME planned \in Nat \ {0}
  PROVE  /\ \A i \in Nat \ {0} : /\ WorkerOf(i) \in 1 .. planned
                                 /\ WorkerOf(i + planned) = WorkerOf(i)
         /\ \A w \in 1 .. planned : WorkerOf(w) = w
         /\ \A i, j \in Nat \ {0} :
              WorkerOf(i) = WorkerOf(j) /\ i < j => i + planned <= j
<1>1. ASSUME NEW i \in Nat \ {0}
      PROVE  /\ WorkerOf(i) \in 1 .. planned
             /\ WorkerOf(i + planned) = WorkerOf(i)
  <2>1. i - 1 \in Nat /\ (i - 1) + planned = i + planned - 1
    OBVIOUS
  <2>2. (i - 1) % planned \in 0 .. planned - 1
    BY <2>1, Division
  <2>3. ((i - 1) + planned) % planned = (i - 1) % planned
    BY <2>1, NextRemainder
  <2> QED
    BY <2>1, <2>2, <2>3 DEF WorkerOf
<1>2. ASSUME NEW w \in 1 .. planned PROVE WorkerOf(w) = w
  <2>1. w - 1 \in Nat /\ w - 1 \in 0 .. planned - 1 /\ w - 1 = 0 * planned + (w - 1)
    OBVIOUS
  <2>2. (w - 1) % planned = w - 1
    BY <2>1, RemainderUnique
  <2> QED
    BY <2>1, <2>2 DEF WorkerOf
<1>3. ASSUME NEW i \in Nat \ {0}, NEW j \in Nat \ {0},
             WorkerOf(i) = WorkerOf(j), i < j
      PROVE  i + planned <= j
  <2>1. i - 1 \in Nat /\ j - 1 \in Nat /\ i - 1 < j - 1
    BY <1>3
  <2>2. (i - 1) % planned \in 0 .. planned - 1
          /\ (j - 1) % planned \in 0 .. planned - 1
    BY <2>1, Division
  <2>3. (i - 1) % planned = (j - 1) % planned
    BY <1>3, <2>2 DEF WorkerOf
  <2>4. (i - 1) + planned <= j - 1
    BY <2>1, <2>3, SameRemainder
  <2> QED
    BY <2>1, <2>4
<1> QED
  BY <1>1, <1>2, <1>3

-----------------------------------------------------------------------------
(* Steps that end the command.                                              *)

LEMMA RequestKnown ==
  ASSUME PredictionIInv
  PROVE  /\ request.mode \in {"document", "positional", "evaluate"}
         /\ Lines \in Seq({"good", "overflow", "missing", "malformed",
                          "misplaced", "end", "content"})
         /\ Len(Lines) \in Nat /\ DOMAIN Lines = 1 .. Len(Lines)
         /\ request.declared \in Nat
         /\ request.batch \in Nat \ {0} /\ request.threads \in Nat \ {0}
         /\ request.imputes \in BOOLEAN /\ request.fits \in BOOLEAN
         /\ request.mode = "evaluate" =>
              \A i \in DOMAIN Lines : Lines[i] # "missing"
  BY RequestAssumption DEF PredictionIInv, BatchTyped, Lines

LEMMA FailKeeps ==
  ASSUME PredictionIInv, place' = "ended", outcome' # <<"running">>,
         UNCHANGED <<asked, batch, threads, outputs, first>>,
         \A w \in DOMAIN workers : ended[w] # Running
  PROVE  PredictionIInv'
<1>1. BatchTyped'
  BY DEF PredictionIInv, BatchTyped, asked, batch, Lines
<1>2. BatchSound' /\ DocumentSound' /\ AnswersSound' /\ OutputSound'
  BY DEF BatchSound, DocumentSound, AnswersSound, OutputSound, InBatch, Working
<1>3. WorkSound'
  BY DEF PredictionIInv, WorkSound, Working, threads
<1> QED
  BY <1>1, <1>2, <1>3 DEF PredictionIInv

LEMMA NoneRunning ==
  ASSUME PredictionIInv, ~Working
  PROVE  \A w \in DOMAIN workers : ended[w] # Running
  BY DEF PredictionIInv, WorkSound

LEMMA FailAtFirstFails ==
  ASSUME NEW kind, NEW samples, FailAtFirst(kind, samples)
  PROVE  place' = "ended" /\ outcome' # <<"running">>
  BY DEF FailAtFirst, Fail

(* A step that goes on to another place leaves the request's outcome open.  *)
LEMMA ContinueTyped ==
  ASSUME PredictionIInv, place # "ended", NEW next, Continue(next),
         next \in {"read", "prepare", "plan", "create", "join", "abandon",
                  "write", "finish", "copy"}
  PROVE  /\ place' = next /\ outcome' = <<"running">>
         /\ place' \in {"read", "prepare", "plan", "create", "join", "abandon",
                       "write", "finish", "copy"}
  BY DEF Continue, PredictionIInv, BatchTyped

-----------------------------------------------------------------------------
(* Reading.                                                                 *)

LEMMA OpenDocumentKeeps ==
  ASSUME PredictionIInv, OpenDocument
  PROVE  PredictionIInv'
<1>a. /\ BatchTyped /\ BatchSound /\ WorkSound /\ OutputSound
      /\ place = "begin" /\ Document
  BY DEF PredictionIInv, OpenDocument
<1>1. CASE ~(request.fits /\ request.declared > 0)
  <2>1. /\ place' = "ended" /\ outcome' # <<"running">>
        /\ UNCHANGED <<asked, batch, threads, outputs, first>>
    BY <1>1 DEF OpenDocument, Fail, asked
  <2>2. \A w \in DOMAIN workers : ended[w] # Running
    BY <1>a, NoneRunning DEF Working
  <2> QED
    BY <2>1, <2>2, FailKeeps
<1>2. CASE request.fits /\ request.declared > 0
  <2>1. /\ capacity' = Lesser(request.batch, request.declared)
        /\ outputs' = [i \in 1 .. capacity' |-> 0]
        /\ staged' = <<<<"header">>>>
        /\ place' = "read" /\ outcome' = outcome
        /\ UNCHANGED <<request, batch, threads, first, printed>>
    BY <1>2 DEF OpenDocument, Continue
  <2>2. capacity' \in Nat
    BY <1>2, <2>1, RequestKnown DEF Lesser
  <2>3. outputs' \in Seq(Nat) /\ Len(outputs') = capacity'
    BY <2>1, <2>2, IsASeq
  <2>4. inputs = <<>> /\ first = 0 /\ position = 0
    BY <1>a DEF BatchSound
  <2>5. BatchTyped'
    BY <1>a, <2>1, <2>2, <2>3, <2>4 DEF BatchTyped, batch, Lines
  <2>6. BatchSound'
    BY <1>2, <1>a, <2>1, <2>4 DEF BatchSound, InBatch, Working, batch, Document
  <2>7. DocumentSound'
    BY <1>2, <2>1, <2>4, RequestKnown
    DEF DocumentSound, InBatch, Working, Document
  <2>8. AnswersSound'
    BY <2>1, <2>4 DEF AnswersSound, InBatch, Working
  <2>9. WorkSound'
    BY <1>a, <2>1 DEF WorkSound, Working, threads
  <2>10. OutputSound'
    <3>1. <<<<"header">>>> \o [i \in 1 .. 0 |-> <<i - 1, i>>] = <<<<"header">>>>
      OBVIOUS
    <3> QED
      BY <1>a, <2>1, <2>4, <3>1 DEF OutputSound, InBatch, Working, Document
  <2> QED
    BY <2>5, <2>6, <2>7, <2>8, <2>9, <2>10 DEF PredictionIInv
<1> QED
  BY <1>1, <1>2

LEMMA TakeAllKeeps ==
  ASSUME PredictionIInv, TakeAll
  PROVE  PredictionIInv'
<1>a. /\ BatchTyped /\ BatchSound /\ WorkSound /\ OutputSound
      /\ place = "begin" /\ ~Document
  BY DEF PredictionIInv, TakeAll
<1> DEFINE Good == /\ request.fits /\ Lines # <<>>
                   /\ \A i \in DOMAIN Lines : Reads(Lines[i])
<1>1. CASE ~Good
  <2>1. /\ place' = "ended" /\ outcome' # <<"running">>
        /\ UNCHANGED <<asked, batch, threads, outputs, first>>
    BY <1>1 DEF TakeAll, Fail, asked, batch, output
  <2>2. \A w \in DOMAIN workers : ended[w] # Running
    BY <1>a, NoneRunning DEF Working
  <2> QED
    BY <2>1, <2>2, FailKeeps
<1>2. CASE Good
  <2>1. /\ capacity' = Len(Lines)
        /\ inputs' = [i \in DOMAIN Lines |-> i]
        /\ outputs' = [i \in DOMAIN Lines |-> 0]
        /\ position' = Len(Lines)
        /\ place' = (IF request.mode = "evaluate" THEN "plan" ELSE "prepare")
        /\ outcome' = outcome
        /\ UNCHANGED <<request, complete, threads, staged, first, printed>>
    BY <1>2 DEF TakeAll, Continue, output
  <2>2. Len(Lines) \in Nat \ {0} /\ DOMAIN Lines = 1 .. Len(Lines)
    BY <1>2, RequestKnown
  <2>3. /\ outputs' \in Seq(Nat) /\ Len(outputs') = Len(Lines)
        /\ inputs' \in Seq(Nat) /\ Len(inputs') = Len(Lines)
        /\ Samples' = 1 .. Len(Lines)
    BY <2>1, <2>2, IsASeq DEF Samples
  <2>4. first = 0
    BY <1>a DEF BatchSound
  <2>5. Lines' = Lines /\ Document' = Document
    BY <2>1 DEF Lines, Document
  <2>6. BatchTyped'
    BY <1>a, <2>1, <2>2, <2>3, <2>5 DEF BatchTyped
  <2>7. BatchSound'
    BY <1>2, <1>a, <2>1, <2>2, <2>3, <2>4, <2>5
    DEF BatchSound, InBatch, Working
  <2>8. DocumentSound'
    BY <1>a, <2>5 DEF DocumentSound
  <2>9. AnswersSound'
    BY <2>1, <2>2, <2>4, <2>5, RequestKnown DEF AnswersSound, InBatch, Working
  <2>10. WorkSound'
    BY <1>a, <2>1 DEF WorkSound, Working, threads
  <2>11. OutputSound'
    BY <1>a, <2>1, <2>5 DEF OutputSound
  <2> QED
    BY <2>6, <2>7, <2>8, <2>9, <2>10, <2>11 DEF PredictionIInv
<1> QED
  BY <1>1, <1>2

LEMMA ReadBatchKeeps ==
  ASSUME PredictionIInv, ReadBatch
  PROVE  PredictionIInv'
<1> DEFINE n == Lesser(capacity, Left)
           Good == /\ position + n <= Len(Lines)
                   /\ \A i \in position + 1 .. position + n : Reads(Lines[i])
                   /\ n = Left => Ends(position + n)
<1>a. /\ BatchTyped /\ BatchSound /\ DocumentSound /\ AnswersSound /\ WorkSound
      /\ OutputSound /\ place = "read"
  BY DEF PredictionIInv, ReadBatch
<1>1. CASE ~Good
  <2>1. /\ place' = "ended" /\ outcome' # <<"running">>
        /\ UNCHANGED <<asked, batch, threads, outputs, first>>
    BY <1>1 DEF ReadBatch, Fail, output
  <2>2. \A w \in DOMAIN workers : ended[w] # Running
    BY <1>a, NoneRunning DEF Working
  <2> QED
    BY <2>1, <2>2, FailKeeps
<1>2. CASE Good
  <2>1. /\ inputs' = [i \in 1 .. n |-> position + i]
        /\ position' = position + n
        /\ complete' = (n = Left)
        /\ place' = "prepare" /\ outcome' = outcome
        /\ UNCHANGED <<request, capacity, outputs, threads, staged, first, printed>>
    BY <1>2 DEF ReadBatch, Continue, output, asked
  <2>2. /\ Document /\ request.fits /\ position = first /\ first < request.declared
        /\ capacity = Lesser(request.batch, request.declared)
        /\ position \in Nat
    BY <1>a DEF BatchSound, DocumentSound, BatchTyped
  <2>3. /\ n \in Nat \ {0} /\ n <= capacity /\ n <= request.batch
        /\ n <= request.declared - first
        /\ n = Left <=> position + n = request.declared
        /\ n # Left => n = request.batch
        /\ capacity \in Nat
    BY <2>2, RequestKnown DEF Left, Lesser
  <2> HIDE DEF n
  <2>4. /\ inputs' \in Seq(Nat) /\ Len(inputs') = n /\ Samples' = 1 .. n
    BY <2>1, <2>2, <2>3, IsASeq DEF Samples
  <2>5. Lines' = Lines /\ Document' = Document
    BY <2>1 DEF Lines, Document
  <2>6. BatchTyped'
    BY <1>2, <1>a, <2>1, <2>2, <2>3, <2>4, <2>5, RequestKnown DEF BatchTyped
  <2>7. BatchSound'
    <3>1. \A i \in 1 .. position' : Reads(Lines'[i])
      <4>1. \A i \in 1 .. first : Reads(Lines[i])
        BY <1>a DEF AnswersSound, Promised!Answerable, Reads
      <4> QED
        BY <1>2, <2>1, <2>2, <2>3, <2>5, <4>1
    <3>2. n \in 1 .. Len(Lines)
      BY <1>2, <2>2, <2>3, RequestKnown
    <3> QED
      BY <1>a, <2>1, <2>2, <2>3, <2>4, <2>5, <3>1, <3>2
      DEF BatchSound, InBatch, Working
  <2>8. DocumentSound'
    <3>1. first' = 0 \/ first' >= request'.batch
      BY <1>a, <2>1, <2>2 DEF DocumentSound
    <3>2. complete' => Ends(position)'
      <4>1. Ends(position)' <=> Ends(position + n)
        BY <2>1, <2>5 DEF Ends
      <4> QED
        BY <1>2, <2>1, <4>1
    <3>3. position' <= request'.declared
      BY <2>1, <2>2, <2>3, RequestKnown
    <3>4. complete' <=> position' = request'.declared
      BY <2>1, <2>3
    <3>5. ~complete' => Len(inputs') = request'.batch
      BY <2>1, <2>3, <2>4
    <3>6. capacity' = Lesser(request'.batch, request'.declared)
      BY <2>1, <2>2
    <3> QED
      BY <2>1, <2>5, <3>1, <3>2, <3>3, <3>4, <3>5, <3>6
      DEF DocumentSound, InBatch, Working
  <2>9. AnswersSound'
    BY <1>a, <2>1, <2>5 DEF AnswersSound, InBatch, Working
  <2>10. WorkSound'
    BY <1>a, <2>1 DEF WorkSound, Working, threads
  <2>11. OutputSound'
    BY <1>a, <2>1, <2>2, <2>5 DEF OutputSound, InBatch, Working
  <2> QED
    BY <2>6, <2>7, <2>8, <2>9, <2>10, <2>11 DEF PredictionIInv
<1> QED
  BY <1>1, <1>2

(* Places of one batch that follow each other without a change of its data. *)
LEMMA SameBatch ==
  ASSUME PredictionIInv, InBatch, InBatch',
         place' \in {"prepare", "plan", "create", "join", "abandon", "write"},
         UNCHANGED <<request, capacity, position, inputs, complete, first,
                     staged, printed, outcome>>
  PROVE  /\ BatchSound' /\ DocumentSound' /\ OutputSound'
         /\ outputs' \in Seq(Nat) /\ Len(outputs') = capacity => BatchTyped'
         /\ \A i \in 1 .. first' : Promised!Answerable(request', Lines'[i])
<1>a. /\ BatchTyped /\ BatchSound /\ DocumentSound /\ AnswersSound /\ OutputSound
      /\ place # "begin" /\ place \notin {"read", "finish", "copy", "ended"}
      /\ place' \notin {"begin", "read", "finish", "copy", "ended"}
  BY DEF PredictionIInv, InBatch, Working
<1>1. Lines' = Lines /\ Document' = Document /\ Samples' = Samples
  BY DEF Lines, Document, Samples
<1>2. BatchSound'
  BY <1>a, <1>1 DEF BatchSound
<1>3. DocumentSound'
  <2>1. Ends(position)' <=> Ends(position)
    BY <1>1 DEF Ends
  <2> QED
    BY <1>a, <1>1, <2>1 DEF DocumentSound
<1>4. OutputSound'
  BY <1>a, <1>1 DEF OutputSound
<1>5. outputs' \in Seq(Nat) /\ Len(outputs') = capacity => BatchTyped'
  BY <1>a, <1>1 DEF BatchTyped
<1>6. \A i \in 1 .. first' : Promised!Answerable(request', Lines'[i])
  BY <1>a, <1>1 DEF AnswersSound
<1> QED
  BY <1>2, <1>3, <1>4, <1>5, <1>6

LEMMA PrepareKeeps ==
  ASSUME PredictionIInv, Prepare
  PROVE  PredictionIInv'
<1> DEFINE refused == {i \in Samples : Lines[inputs[i]] = "missing"
                                       /\ ~request.imputes}
<1>a. /\ BatchTyped /\ BatchSound /\ AnswersSound /\ WorkSound
      /\ place = "prepare" /\ UNCHANGED <<asked, batch, outputs, threads, output>>
  BY DEF PredictionIInv, Prepare
<1>b. \A w \in DOMAIN workers : ended[w] # Running
  BY <1>a, NoneRunning DEF Working
<1>1. CASE refused # {}
  <2>1. place' = "ended" /\ outcome' # <<"running">>
    BY <1>1, FailAtFirstFails DEF Prepare
  <2> QED
    BY <1>a, <1>b, <2>1, FailKeeps DEF output
<1>2. CASE refused = {}
  <2>1. place' = "plan" /\ outcome' = outcome
    BY <1>2 DEF Prepare, Continue
  <2>2. /\ InBatch /\ InBatch'
        /\ UNCHANGED <<request, capacity, position, inputs, complete, first,
                       staged, printed, outcome, outputs>>
    BY <1>a, <2>1 DEF InBatch, asked, batch, output
  <2>3. BatchSound' /\ DocumentSound' /\ OutputSound' /\ BatchTyped'
          /\ \A i \in 1 .. first' : Promised!Answerable(request', Lines'[i])
    BY <1>a, <2>1, <2>2, SameBatch DEF BatchTyped
  <2>4. ASSUME NEW i \in 1 .. position, Lines[i] = "missing"
        PROVE  request.imputes
    <3>1. CASE i <= first
      BY <1>a, <2>2, <2>4, <3>1
      DEF AnswersSound, Promised!Answerable, BatchTyped
    <3>2. CASE i > first
      <4>1. /\ position = first + Len(inputs) /\ Len(inputs) \in Nat
            /\ Samples = 1 .. Len(inputs) /\ first \in Nat
            /\ \A j \in Samples : inputs[j] = first + j
        BY <1>a, <2>2 DEF BatchSound, BatchTyped, Samples
      <4>2. i - first \in Samples /\ inputs[i - first] = i
        BY <3>2, <4>1
      <4> QED
        BY <1>2, <2>4, <4>2
    <3> QED
      BY <1>a, <3>1, <3>2 DEF BatchTyped
  <2>5. AnswersSound'
    BY <2>1, <2>2, <2>3, <2>4 DEF AnswersSound, Working, Lines
  <2>6. WorkSound'
    BY <1>a, <2>1 DEF WorkSound, Working, threads
  <2> QED
    BY <2>3, <2>5, <2>6 DEF PredictionIInv
<1> QED
  BY <1>1, <1>2

-----------------------------------------------------------------------------
(* The threads of a batch.                                                  *)

(* What the steps of a batch's threads leave as it is.                      *)
LEMMA ThreadsOnly ==
  ASSUME PredictionIInv, InBatch, place # "prepare", InBatch', place' # "prepare",
         place' # "write",
         place' \in {"plan", "create", "join", "abandon"},
         UNCHANGED <<request, capacity, position, inputs, complete, first,
                     staged, printed, outcome>>,
         outputs' \in Seq(Nat), Len(outputs') = capacity, WorkSound'
  PROVE  PredictionIInv'
<1>a. AnswersSound
  BY DEF PredictionIInv
<1>1. BatchSound' /\ DocumentSound' /\ OutputSound' /\ BatchTyped'
        /\ \A i \in 1 .. first' : Promised!Answerable(request', Lines'[i])
  BY SameBatch
<1>2. AnswersSound'
  <2>1. Working \/ place \in {"plan", "write"}
    BY DEF InBatch
  <2> QED
    BY <1>a, <1>1, <2>1 DEF AnswersSound, Lines
<1> QED
  BY <1>1, <1>2 DEF PredictionIInv

LEMMA BatchKnown ==
  ASSUME PredictionIInv, InBatch
  PROVE  /\ Len(inputs) \in Nat \ {0} /\ Samples = 1 .. Len(inputs)
         /\ Len(inputs) <= capacity /\ capacity \in Nat
         /\ inputs \in Seq(Nat) /\ outputs \in Seq(Nat) /\ Len(outputs) = capacity
         /\ place # "ended" /\ outcome = <<"running">>
         /\ position = first + Len(inputs) /\ first \in Nat
         /\ \A i \in Samples : inputs[i] = first + i
  BY DEF PredictionIInv, BatchTyped, BatchSound, Samples, InBatch, Working

LEMMA PlanKeeps ==
  ASSUME PredictionIInv, Plan
  PROVE  PredictionIInv'
<1>a. /\ place = "plan" /\ InBatch
      /\ planned' = Lesser(request.threads, Len(inputs))
      /\ workers' = <<>> /\ ended' = <<>> /\ joined' = 0
      /\ place' = "create" /\ outcome' = outcome
      /\ UNCHANGED <<asked, batch, outputs, output>>
  BY DEF Plan, Continue, InBatch
<1>1. planned' \in 1 .. Len(inputs')
  <2>1. request.threads \in Nat \ {0}
    BY RequestKnown
  <2>2. Len(inputs) \in Nat \ {0}
    BY <1>a, BatchKnown
  <2>3. inputs' = inputs
    BY <1>a DEF batch
  <2>4. planned' = Lesser(request.threads, Len(inputs))
    BY <1>a
  <2> QED
    BY ONLY <2>1, <2>2, <2>3, <2>4 DEF Lesser
<1>2. WorkSound'
  BY <1>a, <1>1 DEF WorkSound
<1>3. InBatch' /\ place' # "prepare" /\ place' # "write"
  BY <1>a DEF InBatch, Working
<1> QED
  BY <1>a, <1>2, <1>3, BatchKnown, ThreadsOnly DEF asked, batch, output

(* A step of one worker leaves the others' samples as they are.             *)
LEMMA WorkerStays ==
  ASSUME NEW w, WorkerSound(w), UNCHANGED <<request, inputs, planned>>,
         workers'[w] = workers[w], ended'[w] = ended[w],
         \A i \in Samples : WorkerOf(i) = w => outputs'[i] = outputs[i]
  PROVE  WorkerSound(w)'
  BY DEF WorkerSound, WorkerOf, Answers, Lines, Samples

LEMMA WorkersStay ==
  ASSUME PredictionIInv, Working,
         UNCHANGED <<request, inputs, planned, workers, ended, outputs>>
  PROVE  \A w \in (DOMAIN workers)' : WorkerSound(w)'
<1> SUFFICES ASSUME NEW w \in DOMAIN workers PROVE WorkerSound(w)'
  OBVIOUS
<1>1. WorkerSound(w)
  BY DEF PredictionIInv, WorkSound
<1> QED
  BY <1>1, WorkerStays

LEMMA ThreadsKnown ==
  ASSUME PredictionIInv, Working
  PROVE  /\ planned \in 1 .. Len(inputs) /\ planned \in Nat \ {0}
         /\ workers \in Seq(Nat) /\ ended \in Seq(Int)
         /\ Len(workers) = Len(ended) /\ Len(workers) \in Nat
         /\ Len(workers) <= planned
         /\ DOMAIN workers = 1 .. Len(workers) /\ DOMAIN ended = 1 .. Len(workers)
         /\ place = "join" => Len(workers) = planned
         /\ joined \in 0 .. planned
         /\ place # "join" => joined = 0
         /\ \A w \in 1 .. joined : ended[w] # Running
         /\ \A w \in DOMAIN workers : WorkerSound(w)
<1>1. WorkSound /\ InBatch
  BY DEF PredictionIInv, InBatch
<1> QED
  BY <1>1, BatchKnown DEF WorkSound

LEMMA CreateKeeps ==
  ASSUME PredictionIInv, Create
  PROVE  PredictionIInv'
<1>a. /\ place = "create" /\ Working /\ InBatch
      /\ Len(workers) < planned
      /\ workers' = Append(workers, Len(workers) + 1)
      /\ ended' = Append(ended, Running)
      /\ UNCHANGED <<request, capacity, position, inputs, complete, first,
                     staged, printed, outputs, planned, joined, place, outcome>>
  BY DEF Create, Working, InBatch, asked, batch, output
<1> DEFINE n == Len(workers) + 1
<1>1. /\ workers' \in Seq(Nat) /\ ended' \in Seq(Int)
      /\ Len(workers') = n /\ Len(ended') = n
      /\ DOMAIN workers' = 1 .. n
      /\ workers'[n] = n /\ ended'[n] = Running
      /\ \A w \in 1 .. n - 1 : workers'[w] = workers[w] /\ ended'[w] = ended[w]
  <2>1. Running \in Int
    BY DEF Running
  <2>2. Len(workers) \in Nat /\ n \in Nat /\ Len(ended) = Len(workers)
    BY <1>a, ThreadsKnown
  <2>3. /\ workers' \in Seq(Nat) /\ Len(workers') = n /\ workers'[n] = n
        /\ \A w \in 1 .. Len(workers) : workers'[w] = workers[w]
    BY <1>a, <2>2, ThreadsKnown, AppendProperties
  <2>4. /\ ended' \in Seq(Int) /\ Len(ended') = n /\ ended'[n] = Running
        /\ \A w \in 1 .. Len(workers) : ended'[w] = ended[w]
    BY <1>a, <2>1, <2>2, ThreadsKnown, AppendProperties
  <2> QED
    BY <2>2, <2>3, <2>4
<1>b. planned \in Nat \ {0} /\ planned <= Len(inputs) /\ Len(workers) \in Nat
  BY <1>a, ThreadsKnown, BatchKnown
<1>c. Samples = 1 .. Len(inputs) /\ Len(inputs) \in Nat
  BY <1>a, BatchKnown
<1>2. n \in 1 .. planned /\ n \in Samples /\ WorkerOf(n) = n
  <2>1. n \in 1 .. planned
    BY <1>a, <1>b
  <2> HIDE DEF n
  <2>2. WorkerOf(n) = n
    BY <1>b, <2>1, Workers
  <2> QED
    BY <1>b, <1>c, <2>1, <2>2
<1> HIDE DEF n
<1>3. ASSUME NEW i \in Samples, WorkerOf(i) = n PROVE ~(i < n)
  <2>1. i \in Nat \ {0} /\ n \in Nat \ {0}
    BY <1>b, <1>c, <1>2
  <2>2. i < n => i + planned <= n
    BY <1>b, <1>2, <1>3, <2>1, Workers
  <2> QED
    BY <1>b, <1>2, <2>1, <2>2
<1>4. ASSUME NEW w \in 1 .. n PROVE WorkerSound(w)'
  <2>1. CASE w \in 1 .. n - 1
    <3>1. w \in DOMAIN workers
      BY <1>a, <2>1, ThreadsKnown DEF n
    <3>2. WorkerSound(w)
      BY <1>a, <3>1, ThreadsKnown
    <3> QED
      BY <1>a, <1>1, <2>1, <3>2, WorkerStays
  <2>2. CASE w = n
    <3>1. /\ Samples' = Samples
          /\ workers'[w] = n /\ ended'[w] = Running
          /\ Running # 0 /\ Running # n
      BY <1>a, <1>c, <1>1, <1>2, <2>2 DEF Samples, Running
    <3>2. \A i \in Samples : WorkerOf(i)' = w => ~(i < n)
      BY <1>a, <1>3, <2>2 DEF WorkerOf
    <3>3. WorkerOf(workers[w])' = w
      <4>1. 1 + ((n - 1) % planned) = n
        BY <1>2 DEF WorkerOf
      <4> QED
        BY <1>a, <2>2, <3>1, <4>1 DEF WorkerOf
    <3> QED
      BY <1>2, <2>2, <3>1, <3>2, <3>3 DEF WorkerSound
  <2> QED
    BY <1>2, <2>1, <2>2
<1>5. WorkSound'
  BY <1>a, <1>1, <1>2, <1>4, ThreadsKnown DEF WorkSound, Working
<1> QED
  BY <1>a, <1>5, BatchKnown, ThreadsOnly DEF InBatch, Working

LEMMA CreationEnds ==
  ASSUME PredictionIInv, CreateFails \/ AllCreated
  PROVE  PredictionIInv'
<1>a. /\ place = "create" /\ Working /\ InBatch
      /\ place' \in {"abandon", "join"}
      /\ place' = "join" => Len(workers) = planned
      /\ UNCHANGED <<request, capacity, position, inputs, complete, first,
                     staged, printed, outcome, outputs, planned, workers, ended,
                     joined>>
  BY DEF CreateFails, AllCreated, Continue, Working, InBatch, asked, batch,
         threads, output
<1>1. WorkSound'
  BY <1>a, ThreadsKnown, WorkersStay DEF WorkSound, Working
<1> QED
  BY <1>a, <1>1, BatchKnown, ThreadsOnly DEF InBatch, Working

LEMMA JoinKeeps ==
  ASSUME PredictionIInv, Join
  PROVE  PredictionIInv'
<1>a. /\ place = "join" /\ Working /\ InBatch
      /\ joined < planned /\ ended[joined + 1] # Running
      /\ joined' = joined + 1
      /\ UNCHANGED <<request, capacity, position, inputs, complete, first,
                     staged, printed, outcome, outputs, planned, workers, ended,
                     place>>
  BY DEF Join, Working, InBatch, asked, batch, output
<1>1. joined' \in 0 .. planned /\ \A w \in 1 .. joined' : ended[w] # Running
  <2>1. planned \in Nat /\ joined \in 0 .. planned
    BY <1>a, ThreadsKnown
  <2>2. \A w \in 1 .. joined : ended[w] # Running
    BY <1>a, ThreadsKnown
  <2>3. joined < planned /\ joined' = joined + 1 /\ ended[joined + 1] # Running
    BY <1>a
  <2> QED
    BY ONLY <2>1, <2>2, <2>3
<1>2. WorkSound'
  BY <1>a, <1>1, ThreadsKnown, WorkersStay DEF WorkSound, Working
<1> QED
  BY <1>a, <1>2, BatchKnown, ThreadsOnly DEF InBatch, Working

(* A worker answers a sample: the next one of its samples is planned later, *)
(* and without one it has answered all of them.                             *)
LEMMA WorkKeeps ==
  ASSUME PredictionIInv, NEW w \in Threads, Work(w)
  PROVE  PredictionIInv'
<1> DEFINE s == workers[w]
<1>a. /\ w \in DOMAIN workers /\ ended[w] = Running
      /\ UNCHANGED <<request, capacity, position, inputs, complete, first,
                     staged, printed, outcome, planned, joined, place>>
  BY DEF Work, asked, batch, output
<1>b. Working /\ InBatch
  BY <1>a, NoneRunning DEF InBatch
<1>c. /\ w \in 1 .. planned /\ s \in Samples /\ s \in Nat \ {0}
      /\ WorkerOf(s) = w /\ WorkerSound(w) /\ inputs[s] \in Nat
      /\ s <= Len(inputs)
  <2>1. WorkerSound(w) /\ w \in 1 .. Len(workers) /\ Len(workers) <= planned
          /\ planned \in Nat /\ Len(workers) \in Nat
    BY <1>a, <1>b, ThreadsKnown
  <2>2. /\ Samples = 1 .. Len(inputs) /\ Len(inputs) \in Nat
        /\ inputs \in Seq(Nat)
    BY <1>b, BatchKnown
  <2>3. s \in Samples /\ WorkerOf(s) = w
    BY <2>1 DEF WorkerSound
  <2> HIDE DEF s
  <2> QED
    BY <2>1, <2>2, <2>3
<1> HIDE DEF s
<1>d. Samples' = Samples /\ s # Running /\ s # 0 /\ Running # 0
  BY <1>a, <1>c DEF Samples, Running
<1>e. /\ \A i \in Samples : i \in Nat \ {0} /\ i <= Len(inputs)
      /\ \A i \in Nat \ {0} : i <= Len(inputs) => i \in Samples
      /\ planned \in Nat \ {0} /\ Len(inputs) \in Nat
  <2>1. planned \in Nat \ {0}
    BY <1>b, ThreadsKnown
  <2>2. Samples = 1 .. Len(inputs) /\ Len(inputs) \in Nat
    BY <1>b, BatchKnown
  <2> QED
    BY <2>1, <2>2
<1>f. ASSUME NEW i \in Samples, WorkerOf(i) = w, s < i PROVE s + planned <= i
  BY <1>c, <1>e, <1>f, Workers
<1>1. \E v \in {0, Running, s}, t \in Samples :
        /\ ended' = [ended EXCEPT ![w] = v]
        /\ workers' = [workers EXCEPT ![w] = t]
        /\ WorkerOf(t) = w
        /\ v \in {0, Running, t}
        /\ v = t => v = s /\ ~Answers(inputs[s])
        /\ \A i \in Samples :
             WorkerOf(i) = w /\ (i < t \/ v = 0) =>
               i < s \/ (i = s /\ Answers(inputs[s]))
        /\ Answers(inputs[s]) => outputs' = [outputs EXCEPT ![s] = inputs[s]]
        /\ ~Answers(inputs[s]) => outputs' = outputs
  <2>1. workers = [workers EXCEPT ![w] = s] /\ ended = [ended EXCEPT ![w] = Running]
    BY <1>a, <1>b, ThreadsKnown DEF s
  <2>2. CASE ~Answers(inputs[s])
    <3>1. /\ ended' = [ended EXCEPT ![w] = s]
          /\ outputs' = outputs /\ workers' = workers
      BY <2>2 DEF Work, s
    <3> QED
      BY <1>c, <1>d, <2>1, <2>2, <3>1
  <2>3. CASE Answers(inputs[s]) /\ After(w) = 0
    <3>1. /\ ended' = [ended EXCEPT ![w] = 0]
          /\ outputs' = [outputs EXCEPT ![s] = inputs[s]] /\ workers' = workers
      BY <2>3 DEF Work, s
    <3>2. Len(inputs) - s < planned
      BY <1>b, <1>c, <2>3, ThreadsKnown DEF After, s
    <3>3. ASSUME NEW i \in Samples, WorkerOf(i) = w PROVE i <= s
      BY <1>c, <1>e, <1>f, <3>2, <3>3
    <3> QED
      BY <1>c, <1>d, <1>e, <2>1, <2>3, <3>1, <3>3
  <2>4. CASE Answers(inputs[s]) /\ After(w) # 0
    <3>1. /\ workers' = [workers EXCEPT ![w] = After(w)]
          /\ outputs' = [outputs EXCEPT ![s] = inputs[s]] /\ ended' = ended
      BY <2>4 DEF Work, s
    <3>2. After(w) = s + planned /\ ~(Len(inputs) - s < planned)
      BY <2>4 DEF After, s
    <3>5. s + planned \in Samples /\ WorkerOf(s + planned) = w
      BY <1>c, <1>e, <3>2, Workers
    <3>3. ASSUME NEW i \in Samples, WorkerOf(i) = w, i < s + planned PROVE i <= s
      BY <1>c, <1>e, <1>f, <3>3
    <3>4. s + planned # Running
      BY <1>c, <1>e DEF Running
    <3>6. \A i \in Samples :
            WorkerOf(i) = w /\ (i < s + planned \/ Running = 0) =>
              i < s \/ (i = s /\ Answers(inputs[s]))
      BY <1>c, <1>d, <1>e, <2>4, <3>3
    <3> DEFINE t == s + planned
    <3>7. t \in Samples /\ workers' = [workers EXCEPT ![w] = t] /\ WorkerOf(t) = w
            /\ Running # t
      BY <3>1, <3>2, <3>4, <3>5
    <3>8. \A i \in Samples :
            WorkerOf(i) = w /\ (i < t \/ Running = 0) =>
              i < s \/ (i = s /\ Answers(inputs[s]))
      BY <3>6
    <3> HIDE DEF t
    <3> QED
      BY <2>1, <2>4, <3>1, <3>7, <3>8
  <2> QED
    BY <2>2, <2>3, <2>4
<1>2. PICK v \in {0, Running, s}, t \in Samples :
        /\ ended' = [ended EXCEPT ![w] = v]
        /\ workers' = [workers EXCEPT ![w] = t]
        /\ WorkerOf(t) = w
        /\ v \in {0, Running, t}
        /\ v = t => v = s /\ ~Answers(inputs[s])
        /\ \A i \in Samples :
             WorkerOf(i) = w /\ (i < t \/ v = 0) =>
               i < s \/ (i = s /\ Answers(inputs[s]))
        /\ Answers(inputs[s]) => outputs' = [outputs EXCEPT ![s] = inputs[s]]
        /\ ~Answers(inputs[s]) => outputs' = outputs
  BY <1>1
<1>3. /\ workers' \in Seq(Nat) /\ ended' \in Seq(Int)
      /\ Len(workers') = Len(workers) /\ Len(ended') = Len(ended)
      /\ DOMAIN workers' = DOMAIN workers
      /\ workers'[w] = t /\ ended'[w] = v
      /\ \A u \in DOMAIN workers \ {w} :
           workers'[u] = workers[u] /\ ended'[u] = ended[u]
  BY <1>a, <1>b, <1>c, <1>2, <1>e, ThreadsKnown, ExceptSeq DEF Running
<1>4. /\ outputs' \in Seq(Nat) /\ Len(outputs') = capacity
      /\ Answers(inputs[s]) => outputs'[s] = inputs[s]
      /\ \A i \in Samples \ {s} : outputs'[i] = outputs[i]
  <2>1. /\ outputs \in Seq(Nat) /\ Len(outputs) = capacity
        /\ \A i \in Samples : i \in 1 .. Len(outputs)
    BY <1>b, <1>e, BatchKnown
  <2>2. CASE Answers(inputs[s])
    <3>1. outputs' = [outputs EXCEPT ![s] = inputs[s]]
      BY <1>2, <2>2
    <3> QED
      BY <1>c, <2>1, <3>1, ExceptSeq
  <2>3. CASE ~Answers(inputs[s])
    BY <1>2, <2>1, <2>3
  <2> QED
    BY <2>2, <2>3
<1>5. ASSUME NEW u \in DOMAIN workers PROVE WorkerSound(u)'
  <2>1. CASE u # w
    <3>1. WorkerSound(u)
      BY <1>b, ThreadsKnown
    <3>2. \A i \in Samples : WorkerOf(i) = u => outputs'[i] = outputs[i]
      BY <1>4, <1>c, <2>1
    <3> QED
      BY <1>a, <1>3, <2>1, <3>1, <3>2, WorkerStays
  <2>2. CASE u = w
    <3>1. workers[w]' \in Samples' /\ WorkerOf(workers[w])' = w
      BY <1>a, <1>2, <1>3, <1>d DEF WorkerOf
    <3>2. ended[w]' \in {0, Running, workers[w]'}
      BY <1>2, <1>3
    <3>3. (ended[w] = workers[w] => ~Answers(inputs[workers[w]]))'
      BY <1>a, <1>2, <1>3 DEF Answers, Lines
    <3>4. ASSUME NEW i \in Samples, WorkerOf(i)' = w,
                 i < workers'[w] \/ ended'[w] = 0
          PROVE  outputs'[i] = inputs'[i] /\ Answers(inputs[i])'
      <4>1. WorkerOf(i) = w /\ (i < t \/ v = 0)
        BY <1>a, <1>3, <3>4 DEF WorkerOf
      <4>2. i < s \/ (i = s /\ Answers(inputs[s]))
        BY <1>2, <4>1
      <4>3. CASE i < s
        <5>1. outputs[i] = inputs[i] /\ Answers(inputs[i])
          BY <1>c, <4>1, <4>3 DEF WorkerSound, s
        <5>2. outputs'[i] = outputs[i]
          BY <1>4, <1>c, <1>e, <4>3
        <5> QED
          BY <1>a, <5>1, <5>2 DEF Answers, Lines
      <4>4. CASE i = s /\ Answers(inputs[s])
        BY <1>a, <1>4, <4>4 DEF Answers, Lines
      <4> QED
        BY <4>2, <4>3, <4>4
    <3>5. \A i \in Samples' :
            WorkerOf(i)' = w /\ (i < workers'[w] \/ ended'[w] = 0) =>
              outputs'[i] = inputs'[i] /\ Answers(inputs[i])'
      BY <1>d, <3>4
    <3> QED
      BY <2>2, <3>1, <3>2, <3>3, <3>5 DEF WorkerSound
  <2> QED
    BY <2>1, <2>2
<1>6. joined' = joined /\ \A u \in 1 .. joined : ended'[u] # Running
  <2>1. \A u \in 1 .. joined : u \in DOMAIN workers \ {w} /\ ended[u] # Running
    BY <1>a, <1>b, ThreadsKnown
  <2> QED
    BY <1>a, <1>3, <2>1
<1>7. WorkSound'
  BY <1>a, <1>b, <1>3, <1>5, <1>6, ThreadsKnown DEF WorkSound, Working
<1> QED
  BY <1>a, <1>b, <1>4, <1>7, BatchKnown, ThreadsOnly DEF InBatch, Working

LEMMA SettleKeeps ==
  ASSUME PredictionIInv, Settle
  PROVE  PredictionIInv'
<1>a. /\ place = "join" /\ Working /\ InBatch /\ joined = planned
      /\ UNCHANGED <<asked, batch, outputs, threads, output>>
  BY DEF Settle, Working, InBatch
<1>b. /\ DOMAIN workers = 1 .. planned /\ DOMAIN ended = 1 .. planned
      /\ planned \in Nat \ {0}
      /\ \A w \in 1 .. planned : ended[w] # Running /\ WorkerSound(w)
  BY <1>a, ThreadsKnown
<1>1. CASE Failed # {}
  <2>1. place' = "ended" /\ outcome' # <<"running">>
    BY <1>1, FailAtFirstFails DEF Settle
  <2> QED
    BY <1>a, <1>b, <2>1, FailKeeps DEF output
<1>2. CASE Failed = {}
  <2>1. place' = "write" /\ outcome' = outcome
    BY <1>2 DEF Settle, Continue
  <2>2. ASSUME NEW i \in Samples
        PROVE  outputs[i] = inputs[i] /\ Answers(inputs[i])
    <3>1. i \in Nat \ {0}
      BY <1>a, BatchKnown
    <3>2. WorkerOf(i) \in 1 .. planned
      BY <1>b, <3>1, Workers
    <3>3. ended[WorkerOf(i)] = 0
      BY <1>2, <1>b, <3>2 DEF Failed
    <3> QED
      BY <1>b, <3>2, <3>3 DEF WorkerSound
  <2>3. /\ InBatch' /\ (Working \/ place \in {"plan", "write"})
        /\ UNCHANGED <<request, capacity, position, inputs, complete, first,
                       staged, printed, outcome, outputs>>
    BY <1>a, <2>1 DEF InBatch, asked, batch, output
  <2>4. BatchSound' /\ DocumentSound' /\ OutputSound' /\ BatchTyped'
          /\ \A i \in 1 .. first' : Promised!Answerable(request', Lines'[i])
    BY <1>a, <2>1, <2>3, SameBatch, BatchKnown
  <2>5. AnswersSound'
    <3>1. \A i \in Samples' : outputs'[i] = inputs'[i] /\ Answers(inputs[i])'
      BY <2>2, <2>3 DEF Samples, Answers, Lines
    <3>2. \A i \in 1 .. position' : Lines'[i] = "missing" => request'.imputes
      BY <1>a, <2>3 DEF PredictionIInv, AnswersSound, Lines
    <3> QED
      BY <2>4, <3>1, <3>2 DEF AnswersSound
  <2>6. WorkSound'
    BY <1>a, <1>b, <2>1, ThreadsKnown DEF WorkSound, Working, threads
  <2> QED
    BY <2>4, <2>5, <2>6 DEF PredictionIInv
<1> QED
  BY <1>1, <1>2

LEMMA AbandonKeeps ==
  ASSUME PredictionIInv, Abandon
  PROVE  PredictionIInv'
<1>1. /\ place = "abandon" /\ Working
      /\ place' = "ended" /\ outcome' # <<"running">>
      /\ UNCHANGED <<asked, batch, threads, outputs, first>>
      /\ \A w \in DOMAIN ended : ended[w] # Running
  BY DEF Abandon, Fail, output, Working
<1>2. \A w \in DOMAIN workers : ended[w] # Running
  BY <1>1, ThreadsKnown
<1> QED
  BY <1>1, <1>2, FailKeeps

-----------------------------------------------------------------------------
(* The answer.                                                              *)

(* The lines of two batches that follow each other are one part of it.      *)
LEMMA StagedTogether ==
  ASSUME NEW a \in Nat, NEW n \in Nat
  PROVE  (<<<<"header">>>> \o [i \in 1 .. a |-> <<i - 1, i>>])
           \o [i \in 1 .. n |-> <<a + i - 1, a + i>>]
         = <<<<"header">>>> \o [i \in 1 .. a + n |-> <<i - 1, i>>]
<1> DEFINE S == {<<"header">>} \cup (Int \X Int)
           h == <<<<"header">>>>
           x == [i \in 1 .. a |-> <<i - 1, i>>]
           y == [i \in 1 .. n |-> <<a + i - 1, a + i>>]
           z == [i \in 1 .. a + n |-> <<i - 1, i>>]
<1>1. h \in Seq(S) /\ Len(h) = 1 /\ h[1] = <<"header">>
  OBVIOUS
<1>2. /\ x \in Seq(S) /\ Len(x) = a /\ \A i \in 1 .. a : x[i] = <<i - 1, i>>
      /\ y \in Seq(S) /\ Len(y) = n /\ \A i \in 1 .. n : y[i] = <<a + i - 1, a + i>>
      /\ z \in Seq(S) /\ Len(z) = a + n /\ \A i \in 1 .. a + n : z[i] = <<i - 1, i>>
  BY IsASeq
<1> HIDE DEF S, h, x, y, z
<1> DEFINE l == x \o y
<1>3. /\ l \in Seq(S) /\ Len(l) = Len(x) + Len(y)
      /\ \A j \in 1 .. Len(x) + Len(y) :
           l[j] = IF j <= Len(x) THEN x[j] ELSE y[j - Len(x)]
  BY <1>2, ConcatProperties
<1> HIDE DEF l
<1>4. ASSUME NEW j \in 1 .. a + n PROVE l[j] = z[j]
  <2>1. l[j] = (IF j <= a THEN x[j] ELSE y[j - a]) /\ z[j] = <<j - 1, j>>
    BY <1>2, <1>3
  <2>2. CASE j <= a
    BY <1>2, <2>1, <2>2
  <2>3. CASE j > a
    <3> DEFINE i == j - a
    <3>1. i \in 1 .. n /\ a + i = j /\ a + i - 1 = j - 1 /\ l[j] = y[i]
      BY <2>1, <2>3
    <3> HIDE DEF i
    <3>2. y[i] = <<a + i - 1, a + i>>
      BY <1>2, <3>1
    <3> QED
      BY <2>1, <3>1, <3>2
  <2> QED
    BY <2>2, <2>3
<1>5. l = z
  BY <1>2, <1>3, <1>4, SeqEqual
<1>6. (h \o x) \o y = h \o z
  <2>1. (h \o x) \o y = h \o (x \o y)
    <3>1. h \in Seq(S) /\ x \in Seq(S) /\ y \in Seq(S)
      BY <1>1, <1>2
    <3> QED
      BY ONLY <3>1, ConcatAssociative
  <2> QED
    BY <1>5, <2>1 DEF l
<1> QED
  BY <1>6 DEF h, x, y, z

(* What is staged for a batch, once its threads have answered it.           *)
LEMMA BatchAnswered ==
  ASSUME PredictionIInv, place = "write"
  PROVE  /\ SampleLines = [i \in 1 .. Len(inputs) |-> <<first + i - 1, first + i>>]
         /\ \A i \in 1 .. position : Promised!Answerable(request, Lines[i])
<1>a. InBatch /\ AnswersSound /\ first \in Nat /\ position \in Nat
  BY DEF InBatch, PredictionIInv, BatchTyped
<1>b. /\ Samples = 1 .. Len(inputs) /\ Len(inputs) \in Nat
      /\ position = first + Len(inputs)
      /\ \A i \in Samples : inputs[i] = first + i
  BY <1>a, BatchKnown
<1>1. \A i \in Samples : outputs[i] = first + i /\ Answers(first + i)
  BY <1>a, <1>b DEF AnswersSound
<1>2. SampleLines = [i \in 1 .. Len(inputs) |-> <<first + i - 1, first + i>>]
  BY <1>b, <1>1 DEF SampleLines, SampleLine
<1>3. ASSUME NEW i \in 1 .. position
      PROVE  Promised!Answerable(request, Lines[i])
  <2>1. CASE i <= first
    BY <1>a, <2>1 DEF AnswersSound
  <2>2. CASE i > first
    <3>1. i - first \in Samples /\ first + (i - first) = i
      BY <1>a, <1>b, <2>2
    <3>2. Answers(i)
      BY <1>1, <3>1
    <3>3. Lines[i] = "missing" => request.imputes
      BY <1>a DEF AnswersSound
    <3> QED
      BY <3>2, <3>3 DEF Answers, Promised!Answerable
  <2> QED
    BY <1>a, <2>1, <2>2
<1> QED
  BY <1>2, <1>3

LEMMA StageKeeps ==
  ASSUME PredictionIInv, Stage
  PROVE  PredictionIInv'
<1>a. /\ place = "write" /\ Document /\ InBatch /\ ~Working
      /\ UNCHANGED <<asked, batch, outputs, threads, printed>>
  BY DEF Stage, InBatch, Working
<1>b. \A w \in DOMAIN workers : ended[w] # Running
  BY <1>a, NoneRunning
<1>1. CASE Fail(<<"other">>) /\ UNCHANGED <<staged, first>>
  BY <1>a, <1>b, <1>1, FailKeeps DEF Fail
<1>2. CASE /\ staged' = staged \o SampleLines
           /\ first' = first + Len(inputs)
           /\ Continue(IF complete THEN "finish" ELSE "read")
  <2>1. /\ place' = (IF complete THEN "finish" ELSE "read") /\ outcome' = outcome
        /\ UNCHANGED <<request, capacity, position, inputs, complete, outputs,
                       threads, printed>>
        /\ Lines' = Lines /\ Document' = Document
    BY <1>a, <1>2 DEF Continue, asked, batch, Lines, Document
  <2>2. /\ BatchTyped /\ BatchSound /\ DocumentSound /\ WorkSound /\ OutputSound
    BY DEF PredictionIInv
  <2>3. /\ first' = position /\ position \in Nat /\ first \in Nat
        /\ Len(inputs) \in Nat
    BY <1>a, <1>2, BatchKnown
  <2>4. BatchTyped'
    BY <1>a, <2>1, <2>2, <2>3 DEF BatchTyped
  <2>5. BatchSound'
    BY <1>a, <2>1, <2>2, <2>3 DEF BatchSound, InBatch, Working
  <2>6. DocumentSound'
    <3>1. CASE complete
      <4>1. first' = request.declared /\ Ends(first')
        BY <1>a, <2>2, <2>3, <3>1 DEF DocumentSound
      <4>2. Ends(first)'
        BY <2>1, <4>1 DEF Ends
      <4> QED
        BY <2>1, <3>1, <4>1, <4>2 DEF DocumentSound, InBatch, Working
    <3>2. CASE ~complete
      <4>1. /\ first' < request.declared /\ Len(inputs) = request.batch
            /\ capacity = Lesser(request.batch, request.declared)
        BY <1>a, <2>2, <2>3, <3>2, RequestKnown DEF DocumentSound
      <4>2. first' >= request'.batch
        BY <1>2, <2>1, <2>3, <4>1, RequestKnown
      <4> QED
        BY <2>1, <3>2, <4>1, <4>2 DEF DocumentSound, InBatch, Working
    <3> QED
      BY <3>1, <3>2
  <2>7. AnswersSound'
    BY <1>a, <2>1, <2>3, BatchAnswered DEF AnswersSound, InBatch, Working
  <2>8. WorkSound'
    BY <1>a, <1>b, <2>1, <2>2 DEF WorkSound, Working, threads
  <2>9. OutputSound'
    <3>1. staged = <<<<"header">>>> \o [i \in 1 .. first |-> <<i - 1, i>>]
      BY <1>a, <2>2 DEF OutputSound
    <3>2. staged' = <<<<"header">>>> \o [i \in 1 .. first + Len(inputs) |-> <<i - 1, i>>]
      BY <1>a, <1>2, <2>3, <3>1, BatchAnswered, StagedTogether
    <3>3. printed' = <<>>
      BY <1>a, <2>1, <2>2 DEF OutputSound
    <3> QED
      BY <1>2, <2>1, <3>2, <3>3 DEF OutputSound, InBatch, Working
  <2> QED
    BY <2>4, <2>5, <2>6, <2>7, <2>8, <2>9 DEF PredictionIInv
<1> QED
  BY <1>1, <1>2 DEF Stage

LEMMA Extended ==
  ASSUME NEW S, NEW s \in Seq(S), NEW e \in S
  PROVE  Append(s, e) = s \o <<e>>
  BY AppendIsConcat

(* The answer to a document.                                                *)
LEMMA DocumentAnswered ==
  ASSUME PredictionIInv, Document, request.fits, Ends(request.declared),
         \A i \in 1 .. request.declared : Promised!Answerable(request, Lines[i])
  PROVE  /\ Promised!Valid(request)
         /\ Promised!Answer(request) =
              Append(<<<<"header">>>>
                       \o [i \in 1 .. request.declared |-> <<i - 1, i>>], <<"end">>)
<1> DEFINE n == request.declared
           e == Promised!Expected(request)
<1>1. n \in Nat /\ request.mode = "document"
  BY RequestKnown DEF Document
<1>2. Promised!Wanted(request) = n
  BY <1>1 DEF Promised!Wanted
<1>3. Promised!Valid(request)
  <2>1. e = [i \in 1 .. n |-> "sample"] \o <<"end">>
    BY <1>1, <1>2 DEF Promised!Expected
  <2>2. /\ Len(e) = n + 1 /\ e[n + 1] = "end"
        /\ \A i \in 1 .. n : e[i] = "sample"
    <3> DEFINE S == {"sample", "end"}
               x == [i \in 1 .. n |-> "sample"]
               y == <<"end">>
    <3>1. /\ x \in Seq(S) /\ Len(x) = n /\ \A i \in 1 .. n : x[i] = "sample"
          /\ y \in Seq(S) /\ Len(y) = 1 /\ y[1] = "end"
      BY <1>1, IsASeq
    <3>3. e = x \o y
      BY <2>1 DEF x, y, n
    <3> HIDE DEF x, y, n, S, e
    <3>2. /\ Len(e) = Len(x) + Len(y)
          /\ \A i \in 1 .. Len(x) + Len(y) :
               e[i] = IF i <= Len(x) THEN x[i] ELSE y[i - Len(x)]
      <4>1. x \in Seq(S) /\ y \in Seq(S)
        BY <3>1
      <4> QED
        BY ONLY <3>3, <4>1, ConcatProperties
    <3>4. /\ Len(e) = n + 1
          /\ \A i \in 1 .. n + 1 : e[i] = IF i <= n THEN x[i] ELSE y[i - n]
      BY <3>1, <3>2, <3>3
    <3> QED
      BY <1>1, <3>1, <3>4
  <2>3. Len(Lines) = n + 1 /\ Lines[n + 1] = "end"
    BY DEF Ends
  <2>4. DOMAIN Lines = 1 .. n + 1
    BY <2>3, RequestKnown
  <2> HIDE DEF e
  <2>5. ASSUME NEW i \in DOMAIN Lines
        PROVE  IF e[i] = "end" THEN Lines[i] = "end"
               ELSE Promised!Answerable(request, Lines[i])
    <3>1. CASE i = n + 1
      BY <2>2, <2>3, <3>1
    <3>2. CASE i # n + 1
      <4>1. i \in 1 .. n
        BY <1>1, <2>4, <3>2
      <4> QED
        BY <2>2, <4>1
    <3> QED
      BY <3>1, <3>2
  <2> QED
    BY <2>2, <2>3, <2>5 DEF Promised!Valid, Lines, e
<1>4. Promised!Answer(request) =
        (<<<<"header">>>> \o [i \in 1 .. n |-> <<i - 1, i>>]) \o <<<<"end">>>>
  BY <1>1, <1>2 DEF Promised!Answer
<1>5. <<<<"header">>>> \o [i \in 1 .. n |-> <<i - 1, i>>]
        \in Seq({<<"header">>, <<"end">>} \cup (Int \X Int))
  <2> DEFINE S == {<<"header">>, <<"end">>} \cup (Int \X Int)
             h == <<<<"header">>>>
             x == [i \in 1 .. n |-> <<i - 1, i>>]
  <2>1. h \in Seq(S) /\ x \in Seq(S)
    BY <1>1, IsASeq
  <2> HIDE DEF h, x, S
  <2>2. h \o x \in Seq(S)
    BY <2>1, ConcatProperties
  <2> QED
    BY <2>2 DEF h, x, S
<1> DEFINE g == <<<<"header">>>> \o [i \in 1 .. n |-> <<i - 1, i>>]
<1>6. Append(g, <<"end">>) = g \o <<<<"end">>>>
  <2>1. g \in Seq({<<"header">>, <<"end">>} \cup (Int \X Int))
    BY <1>5
  <2>2. <<"end">> \in {<<"header">>, <<"end">>} \cup (Int \X Int)
    OBVIOUS
  <2> HIDE DEF g
  <2> QED
    BY <2>1, <2>2, Extended
<1> QED
  BY <1>3, <1>4, <1>6

(* The answer to other requests.                                            *)
LEMMA SamplesAnswered ==
  ASSUME PredictionIInv, ~Document, request.fits,
         \A i \in 1 .. Len(Lines) : Promised!Answerable(request, Lines[i])
  PROVE  /\ Promised!Valid(request)
         /\ Promised!Answer(request) =
              LET all == [i \in 1 .. Len(Lines) |-> <<i - 1, i>>]
              IN  IF request.mode = "evaluate" THEN <<<<"metrics", all>>>>
                  ELSE <<<<"header">>>> \o all \o <<<<"end">>>>
<1> DEFINE n == Len(Lines)
           e == Promised!Expected(request)
<1>1. /\ n \in Nat /\ request.mode # "document" /\ DOMAIN Lines = 1 .. n
      /\ Lines = request.lines
  BY RequestKnown DEF Document, Lines
<1>2. Promised!Wanted(request) = n
  BY <1>1 DEF Promised!Wanted
<1>3. e = [i \in 1 .. n |-> "sample"]
  <2>1. e = [i \in 1 .. n |-> "sample"] \o <<>>
    BY <1>1, <1>2 DEF Promised!Expected
  <2>2. [i \in 1 .. n |-> "sample"] \in Seq({"sample", "end"})
    BY <1>1, IsASeq
  <2> QED
    BY <2>1, <2>2, ConcatEmptySeq
<1>4. Len(e) = n /\ \A i \in 1 .. n : e[i] = "sample"
  BY <1>1, <1>3
<1>5. Promised!Valid(request)
  <2> HIDE DEF e
  <2>1. Len(request.lines) = Len(e)
    BY <1>1, <1>4
  <2>2. \A i \in DOMAIN request.lines :
          IF e[i] = "end" THEN request.lines[i] = "end"
          ELSE Promised!Answerable(request, request.lines[i])
    BY <1>1, <1>4
  <2> QED
    BY <2>1, <2>2 DEF Promised!Valid, e
<1>6. Promised!Answer(request) =
        LET all == [i \in 1 .. n |-> <<i - 1, i>>]
        IN  IF request.mode = "evaluate" THEN <<<<"metrics", all>>>>
            ELSE <<<<"header">>>> \o all \o <<<<"end">>>>
  BY <1>2 DEF Promised!Answer
<1> QED
  BY <1>5, <1>6

LEMMA AnswerTyped ==
  ASSUME PredictionIInv
  PROVE  \E S : Promised!Answer(request) \in Seq(S)
<1> DEFINE n == Promised!Wanted(request)
           all == [i \in 1 .. n |-> <<i - 1, i>>]
<1>1. n \in Nat
  BY RequestKnown DEF Promised!Wanted, Lines
<1>2. CASE request.mode = "evaluate"
  <2>1. Promised!Answer(request) = <<<<"metrics", all>>>>
    BY <1>2 DEF Promised!Answer
  <2> HIDE DEF all
  <2>2. <<<<"metrics", all>>>> \in Seq({<<"metrics", all>>})
    OBVIOUS
  <2> QED
    BY <2>1, <2>2
<1>3. CASE request.mode # "evaluate"
  <2> DEFINE S == {<<"header">>, <<"end">>} \cup (Int \X Int)
             h == <<<<"header">>>>
             f == <<<<"end">>>>
  <2>1. Promised!Answer(request) = (h \o all) \o f
    BY <1>3 DEF Promised!Answer
  <2>2. h \in Seq(S) /\ all \in Seq(S) /\ f \in Seq(S)
    BY <1>1, IsASeq
  <2> HIDE DEF h, all, f, S
  <2>3. (h \o all) \o f \in Seq(S)
    <3>1. h \o all \in Seq(S)
      BY ONLY <2>2, ConcatProperties
    <3> QED
      BY ONLY <2>2, <3>1, ConcatProperties
  <2> QED
    BY <2>1, <2>3
<1> QED
  BY <1>2, <1>3

(* The whole answer is staged before any of it is printed.                  *)
LEMMA CopyBegins ==
  ASSUME PredictionIInv, place \in {"finish", "write"}, Continue("copy"),
         UNCHANGED <<asked, batch, outputs, threads, first, printed>>,
         Promised!Valid(request), staged' = Promised!Answer(request)
  PROVE  PredictionIInv'
<1>a. /\ BatchTyped /\ WorkSound /\ OutputSound /\ ~Working
      /\ place' = "copy" /\ outcome' = outcome
  BY DEF PredictionIInv, Working, Continue
<1>b. \A w \in DOMAIN workers : ended[w] # Running
  BY <1>a, NoneRunning
<1>1. BatchTyped'
  BY <1>a DEF BatchTyped, asked, batch, Lines
<1>2. BatchSound' /\ DocumentSound' /\ AnswersSound'
  BY <1>a DEF BatchSound, DocumentSound, AnswersSound, InBatch, Working
<1>3. WorkSound'
  BY <1>a, <1>b DEF WorkSound, Working, threads
<1>4. OutputSound'
  <2>1. request' = request /\ printed' = <<>>
    BY <1>a DEF OutputSound, asked
  <2>2. PICK S : staged' \in Seq(S)
    BY AnswerTyped
  <2>3. Len(printed') \in 0 .. Len(staged') /\ printed' = SubSeq(staged', 1, Len(printed'))
    BY <2>1, <2>2, SubSeqEmpty
  <2> QED
    BY <1>a, <2>1, <2>3 DEF OutputSound, InBatch, Working
<1> QED
  BY <1>1, <1>2, <1>3, <1>4 DEF PredictionIInv

LEMMA FinishKeeps ==
  ASSUME PredictionIInv, Finish
  PROVE  PredictionIInv'
<1>a. /\ place = "finish"
      /\ UNCHANGED <<asked, batch, outputs, threads, first, printed>>
      /\ BatchSound /\ DocumentSound /\ AnswersSound /\ OutputSound
  BY DEF Finish, PredictionIInv
<1>b. /\ request.fits /\ Document /\ first = request.declared /\ Ends(first)
      /\ \A i \in 1 .. first : Promised!Answerable(request, Lines[i])
      /\ staged = <<<<"header">>>> \o [i \in 1 .. first |-> <<i - 1, i>>]
  BY <1>a DEF BatchSound, DocumentSound, AnswersSound, OutputSound
<1>1. staged' = Append(staged, <<"end">>) /\ Continue("copy")
  BY <1>b DEF Finish
<1>2. Promised!Valid(request) /\ staged' = Promised!Answer(request)
  BY <1>b, <1>1, DocumentAnswered
<1> QED
  BY <1>a, <1>1, <1>2, CopyBegins

(* The one batch of a request that is no document.                          *)
LEMMA OneBatch ==
  ASSUME PredictionIInv, place = "write", ~Document
  PROVE  /\ request.fits
         /\ SampleLines = [i \in 1 .. Len(Lines) |-> <<i - 1, i>>]
         /\ \A i \in 1 .. Len(Lines) : Promised!Answerable(request, Lines[i])
<1>1. /\ request.fits /\ first = 0 /\ position = Len(Lines)
      /\ position = first + Len(inputs) /\ Len(inputs) \in Nat
  BY BatchKnown DEF PredictionIInv, BatchSound, InBatch
<1>2. Len(inputs) = Len(Lines)
  BY <1>1
<1>3. SampleLines = [i \in 1 .. Len(Lines) |-> <<first + i - 1, first + i>>]
  BY <1>2, BatchAnswered
<1>4. SampleLines = [i \in 1 .. Len(Lines) |-> <<i - 1, i>>]
  <2>1. \A i \in 1 .. Len(Lines) : first + i - 1 = i - 1 /\ first + i = i
    BY <1>1
  <2> QED
    BY <1>3, <2>1
<1> QED
  BY <1>1, <1>4, BatchAnswered

LEMMA WriteKeeps ==
  ASSUME PredictionIInv, Write
  PROVE  PredictionIInv'
<1>a. /\ place = "write" /\ request.mode = "positional" /\ ~Document
      /\ Continue("copy")
      /\ UNCHANGED <<asked, batch, outputs, threads, first, printed>>
      /\ staged' = <<<<"header">>>> \o SampleLines \o <<<<"end">>>>
  BY DEF Write, Document
<1>1. Promised!Valid(request) /\ staged' = Promised!Answer(request)
  BY <1>a, OneBatch, SamplesAnswered
<1> QED
  BY <1>a, <1>1, CopyBegins

LEMMA EvaluateKeeps ==
  ASSUME PredictionIInv, Evaluate
  PROVE  PredictionIInv'
<1>a. /\ place = "write" /\ request.mode = "evaluate" /\ ~Document /\ ~Working
      /\ UNCHANGED <<asked, batch, outputs, threads, first, printed>>
  BY DEF Evaluate, Document, Working
<1>1. CASE Fail(<<"other">>)
  <2>1. \A w \in DOMAIN workers : ended[w] # Running
    BY <1>a, NoneRunning
  <2> QED
    BY <1>a, <1>1, <2>1, FailKeeps DEF Fail
<1>2. CASE staged' = <<<<"metrics", SampleLines>>>> /\ Continue("copy")
  <2>1. Promised!Valid(request) /\ staged' = Promised!Answer(request)
    BY <1>a, <1>2, OneBatch, SamplesAnswered
  <2> QED
    BY <1>a, <1>2, <2>1, CopyBegins
<1> QED
  BY <1>1, <1>2 DEF Evaluate

(* The next part of a sequence after a first part of it.                    *)
LEMMA NextPart ==
  ASSUME NEW S, NEW s \in Seq(S), NEW n \in Nat, n < Len(s)
  PROVE  /\ Len(SubSeq(s, 1, n)) = n
         /\ Append(SubSeq(s, 1, n), s[n + 1]) = SubSeq(s, 1, n + 1)
<1> DEFINE a == SubSeq(s, 1, n)
           b == SubSeq(s, 1, n + 1)
<1>1. Len(s) \in Nat /\ \A i \in 1 .. n + 1 : s[i] \in S
  BY ElementOfSeq
<1>2. /\ a \in Seq(S) /\ Len(a) = n /\ \A i \in 1 .. n : a[i] = s[i]
      /\ b \in Seq(S) /\ Len(b) = n + 1 /\ \A i \in 1 .. n + 1 : b[i] = s[i]
  BY <1>1, SubSeqProperties
<1> HIDE DEF a, b
<1> DEFINE c == Append(a, s[n + 1])
<1>3. /\ c \in Seq(S) /\ Len(c) = n + 1 /\ c[n + 1] = s[n + 1]
      /\ \A i \in 1 .. n : c[i] = a[i]
  BY <1>1, <1>2, AppendProperties
<1> HIDE DEF c
<1>4. c = b
  BY <1>2, <1>3, SeqEqual
<1> QED
  BY <1>2, <1>4 DEF a, b, c

LEMMA ShowKeeps ==
  ASSUME PredictionIInv, Show
  PROVE  PredictionIInv'
<1>a. /\ place = "copy" /\ ~Working
      /\ UNCHANGED <<asked, batch, outputs, threads, staged, first>>
      /\ BatchTyped /\ WorkSound /\ OutputSound
      /\ \A w \in DOMAIN workers : ended[w] # Running
  BY NoneRunning DEF Show, Working, PredictionIInv
<1>1. CASE Fail(<<"other">>)
  BY <1>a, <1>1, FailKeeps DEF Fail
<1>2. CASE /\ printed' = Append(printed, staged[Len(printed) + 1])
           /\ UNCHANGED <<place, outcome>>
  <2>1. BatchTyped'
    BY <1>a, <1>2 DEF BatchTyped, asked, batch, Lines
  <2>2. BatchSound' /\ DocumentSound' /\ AnswersSound'
    BY <1>a, <1>2 DEF BatchSound, DocumentSound, AnswersSound, InBatch, Working
  <2>3. WorkSound'
    BY <1>a, <1>2 DEF WorkSound, Working, threads
  <2>4. OutputSound'
    <3>1. /\ Promised!Valid(request) /\ staged = Promised!Answer(request)
          /\ Len(printed) < Len(staged)
          /\ printed = SubSeq(staged, 1, Len(printed))
      BY <1>a DEF OutputSound, Show
    <3>2. PICK S : staged \in Seq(S)
      BY <3>1, AnswerTyped
    <3>3. Len(printed) \in Nat
      BY <1>a DEF OutputSound
    <3> DEFINE n == Len(printed)
    <3>4. printed' = SubSeq(staged, 1, n + 1)
      BY <1>2, <3>1, <3>2, <3>3, NextPart
    <3>5. n + 1 <= Len(staged)
      BY <3>1, <3>2, <3>3
    <3>6. Len(printed') = n + 1
      BY <3>2, <3>3, <3>4, <3>5
    <3> QED
      BY <1>a, <1>2, <3>1, <3>4, <3>5, <3>6
      DEF OutputSound, asked, InBatch, Working
  <2> QED
    BY <2>1, <2>2, <2>3, <2>4 DEF PredictionIInv
<1> QED
  BY <1>1, <1>2 DEF Show

LEMMA DoneKeeps ==
  ASSUME PredictionIInv, Done
  PROVE  PredictionIInv'
<1>1. /\ place' = "ended" /\ outcome' # <<"running">> /\ ~Working
      /\ UNCHANGED <<asked, batch, threads, outputs, first>>
  BY DEF Done, output, Working
<1> QED
  BY <1>1, NoneRunning, FailKeeps

-----------------------------------------------------------------------------
(* The invariant.                                                           *)

LEMMA InitKeeps ==
  ASSUME Init
  PROVE  PredictionIInv
<1>1. BatchTyped
  <2>1. Len(Lines) \in Nat /\ Len(<<>>) = 0
    BY RequestAssumption DEF Init, Lines
  <2>2. <<>> \in Seq(Nat)
    OBVIOUS
  <2>3. place # "ended" /\ outcome = <<"running">>
    BY DEF Init
  <2>4. outcome = <<"running">> <=> place # "ended"
    BY <2>3
  <2>5. /\ request \in Requests /\ position = 0 /\ capacity = 0 /\ inputs = <<>>
        /\ outputs = <<>> /\ first = 0 /\ place = "begin"
    BY DEF Init
  <2>6. position \in 0 .. Len(Lines)
    BY <2>1, <2>5
  <2>7. complete = FALSE
    BY DEF Init
  <2>8. complete \in BOOLEAN
    BY ONLY <2>7
  <2> QED
    BY <2>1, <2>2, <2>4, <2>5, <2>6, <2>8 DEF BatchTyped
<1>2. BatchSound /\ DocumentSound /\ AnswersSound /\ WorkSound /\ OutputSound
  BY DEF Init, BatchSound, DocumentSound, AnswersSound, WorkSound, OutputSound,
         InBatch, Working
<1> QED
  BY <1>1, <1>2 DEF PredictionIInv

LEMMA StepKeeps ==
  ASSUME PredictionIInv, [Next]_vars
  PROVE  PredictionIInv'
<1>1. CASE OpenDocument \/ TakeAll \/ ReadBatch \/ Prepare
  BY <1>1, OpenDocumentKeeps, TakeAllKeeps, ReadBatchKeeps, PrepareKeeps
<1>2. CASE Plan \/ Create \/ CreateFails \/ AllCreated \/ Join \/ Settle \/ Abandon
  BY <1>2, PlanKeeps, CreateKeeps, CreationEnds, JoinKeeps, SettleKeeps,
     AbandonKeeps
<1>3. CASE Stage \/ Finish \/ Write \/ Evaluate \/ Show \/ Done
  BY <1>3, StageKeeps, FinishKeeps, WriteKeeps, EvaluateKeeps, ShowKeeps,
     DoneKeeps
<1>4. CASE \E w \in Threads : Work(w)
  BY <1>4, WorkKeeps
<1>5. CASE UNCHANGED vars
  <2>1. /\ UNCHANGED <<request, capacity, position, inputs, complete, planned,
                       workers, ended, joined, staged, first, printed, outputs,
                       place, outcome>>
        /\ Lines' = Lines /\ Document' = Document /\ Samples' = Samples
    BY <1>5 DEF vars, asked, batch, threads, output, Lines, Document, Samples
  <2>2. BatchTyped' /\ BatchSound' /\ OutputSound'
    BY <2>1 DEF PredictionIInv, BatchTyped, BatchSound, OutputSound, InBatch,
                Working
  <2>3. DocumentSound'
    <3>1. Ends(position)' <=> Ends(position)
      BY <2>1 DEF Ends
    <3>2. Ends(first)' <=> Ends(first)
      BY <2>1 DEF Ends
    <3> QED
      BY <2>1, <3>1, <3>2 DEF PredictionIInv, DocumentSound, InBatch, Working
  <2>4. AnswersSound'
    BY <2>1 DEF PredictionIInv, AnswersSound, InBatch, Working, Answers
  <2>5. WorkSound'
    <3>1. Working => \A w \in (DOMAIN workers)' : WorkerSound(w)'
      BY <2>1, WorkersStay
    <3> QED
      BY <2>1, <3>1 DEF PredictionIInv, WorkSound, Working
  <2> QED
    BY <2>2, <2>3, <2>4, <2>5 DEF PredictionIInv
<1> QED
  BY <1>1, <1>2, <1>3, <1>4, <1>5 DEF Next, Main

(* The inductive invariant of a prediction: where it is in its document and *)
(* in its batch, what its threads have answered and what it has printed.    *)
THEOREM PredictionInvariance == Spec => []PredictionIInv
<1>1. Init => PredictionIInv
  BY InitKeeps
<1>2. PredictionIInv /\ [Next]_vars => PredictionIInv'
  BY StepKeeps
<1> QED
  BY <1>1, <1>2, PTL DEF Spec

(* The variables have their types, and a thread runs only while the main    *)
(* thread creates and joins the threads of its batch                        *)
(* (neural_prediction_run).                                                 *)
THEOREM PredictionTypeCorrect == Spec => []TypeOK
<1>1. ASSUME PredictionIInv PROVE TypeOK
  <2>1. BatchTyped /\ WorkSound
    BY <1>1 DEF PredictionIInv
  <2>2. ASSUME NEW w \in DOMAIN workers, ended[w] = Running
        PROVE  workers[w] \in Samples /\ place \in {"create", "join", "abandon"}
    BY <2>1, <2>2 DEF WorkSound, WorkerSound, Working
  <2> QED
    BY <2>1, <2>2 DEF BatchTyped, WorkSound, TypeOK
<1> QED
  BY <1>1, PredictionInvariance, PTL

-----------------------------------------------------------------------------
(* What predictions promise.                                                *)

(* The failure of a batch's sample before which none fails alike is the     *)
(* first of the whole request.                                              *)
LEMMA FirstFailure ==
  ASSUME PredictionIInv, InBatch,
         NEW kind \in {"missing", "overflow"}, NEW i \in Samples,
         Lines[inputs[i]] = kind, kind = "missing" => ~request.imputes,
         \A j \in Samples : j < i => Lines[inputs[j]] # kind
  PROVE  <<kind, i - 1>> \in Promised!Reports(request)
<1> DEFINE k == first + i
<1>1. /\ Samples = 1 .. Len(inputs) /\ Len(inputs) \in Nat /\ first \in Nat
      /\ position = first + Len(inputs)
      /\ \A j \in Samples : inputs[j] = first + j
  BY BatchKnown
<1>2. /\ position \in 0 .. Len(Lines) /\ Lines = request.lines
      /\ DOMAIN Lines = 1 .. Len(Lines) /\ Len(Lines) \in Nat
      /\ AnswersSound /\ BatchSound /\ DocumentSound
  BY RequestKnown DEF PredictionIInv, BatchTyped, Lines
<1>3. k \in DOMAIN Lines /\ Lines[k] = kind
  BY <1>1, <1>2
<1>4. ASSUME NEW j \in 1 .. k - 1 PROVE Lines[j] # kind
  <2>1. CASE j <= first
    BY <1>1, <1>2, <2>1 DEF AnswersSound, Promised!Answerable
  <2>2. CASE j > first
    <3>1. j - first \in Samples /\ j - first < i
      <4>1. /\ Samples = 1 .. Len(inputs) /\ Len(inputs) \in Nat
            /\ first \in Nat /\ i \in Samples
        BY <1>1
      <4> QED
        BY ONLY <4>1, <2>2, j \in 1 .. k - 1
    <3>2. inputs[j - first] = first + (j - first)
      BY ONLY <1>1, <3>1
    <3>3. first + (j - first) = j
      BY ONLY <1>1, j \in 1 .. k - 1
    <3>4. Lines[inputs[j - first]] # kind
      BY <3>1
    <3> QED
      BY ONLY <3>2, <3>3, <3>4
  <2> QED
    BY <1>1, <2>1, <2>2
<1>5. i - 1 \in Promised!Numbers(request, k)
  <2>1. i - 1 \in 0 .. k - 1
    BY <1>1
  <2>2. ASSUME Promised!InFirstBatch(request, k) PROVE first = 0
    <3>1. CASE Document
      <4>1. first = 0 \/ first >= request.batch
        BY <1>2, <3>1 DEF DocumentSound
      <4>2. k <= request.batch
        BY <2>2, <3>1 DEF Promised!InFirstBatch, Document
      <4> QED
        BY <1>1, <4>1, <4>2, RequestKnown
    <3>2. CASE ~Document
      BY <1>2, <3>2 DEF BatchSound
    <3> QED
      BY <3>1, <3>2
  <2>3. Promised!InFirstBatch(request, k) => i - 1 = k - 1
    BY <1>1, <2>2
  <2> QED
    BY <2>1, <2>3 DEF Promised!Numbers
<1> HIDE DEF k
<1>6. k \in Promised!FirstOf(request, kind)
  BY <1>2, <1>3, <1>4 DEF Promised!FirstOf
<1> QED
  BY <1>5, <1>6 DEF Promised!Reports

(* A sample that is refused for a missing input.                            *)
LEMMA MissingReported ==
  ASSUME PredictionIInv, Prepare, place' = "ended"
  PROVE  outcome' \in Promised!Reports(request)
<1> DEFINE refused == {i \in Samples : Lines[inputs[i]] = "missing"
                                       /\ ~request.imputes}
<1>1. place = "prepare" /\ InBatch
  BY DEF Prepare, InBatch
<1>2. FailAtFirst("missing", refused)
  BY <1>1 DEF Prepare, Continue
<1>3. PICK i \in refused : /\ \A j \in refused : i <= j
                           /\ outcome' = <<"missing", i - 1>>
  BY <1>2 DEF FailAtFirst, Fail
<1>4. \A j \in Samples : j < i => Lines[inputs[j]] # "missing"
  <2>1. \A j \in Samples : j \in Nat
    BY <1>1, BatchKnown
  <2> QED
    BY <1>3, <2>1
<1> QED
  BY <1>1, <1>3, <1>4, FirstFailure

(* The first sample that some worker could not answer.                      *)
LEMMA OverflowReported ==
  ASSUME PredictionIInv, Settle, place' = "ended"
  PROVE  outcome' \in Promised!Reports(request)
<1>a. place = "join" /\ Working /\ InBatch /\ joined = planned
  BY DEF Settle, Working, InBatch
<1>b. /\ DOMAIN workers = 1 .. planned /\ DOMAIN ended = 1 .. planned
      /\ planned \in Nat \ {0}
      /\ \A w \in 1 .. planned : ended[w] # Running /\ WorkerSound(w)
  BY <1>a, ThreadsKnown
<1>c. /\ Samples = 1 .. Len(inputs) /\ Len(inputs) \in Nat
      /\ \A j \in Samples : inputs[j] = first + j
      /\ position = first + Len(inputs) /\ first \in Nat
  BY <1>a, BatchKnown
<1>1. PICK i \in Failed : /\ \A j \in Failed : i <= j
                          /\ outcome' = <<"overflow", i - 1>>
  BY <1>a DEF Settle, FailAtFirst, Fail, Continue
<1>2. PICK w \in 1 .. planned : ended[w] = i /\ i # 0
  BY <1>b DEF Failed
<1>3. i \in Samples /\ ~Answers(inputs[i])
  BY <1>b, <1>2 DEF WorkerSound
<1>4. Lines[inputs[i]] = "overflow"
  <2>1. inputs[i] \in 1 .. position
    BY <1>c, <1>3
  <2>2. Reads(Lines[inputs[i]])
    BY <1>a, <2>1 DEF PredictionIInv, BatchSound
  <2> QED
    BY <1>3, <2>2 DEF Reads, Answers
<1>5. ASSUME NEW j \in Samples, j < i PROVE Lines[inputs[j]] # "overflow"
  <2> DEFINE v == WorkerOf(j)
  <2>1. v \in 1 .. planned
    <3>1. j \in Nat \ {0} /\ planned \in Nat \ {0}
      BY <1>b, <1>c
    <3> QED
      BY ONLY <3>1, Workers
  <2>2. /\ ended[v] \in {0, Running, workers[v]} /\ ended[v] # Running
        /\ workers[v] \in Samples
        /\ j < workers[v] \/ ended[v] = 0 => Answers(inputs[j])
    BY <1>b, <2>1 DEF WorkerSound
  <2> HIDE DEF v
  <2>3. ended[v] = 0 \/ ended[v] \in Failed
    BY <1>b, <2>1, <2>2 DEF Failed
  <2>4. Answers(inputs[j])
    BY <1>1, <1>3, <1>5, <1>c, <2>2, <2>3
  <2> QED
    BY <2>4 DEF Answers
<1> QED
  BY <1>1, <1>3, <1>4, <1>5, <1>a, FirstFailure

(* A step that ends the command reports what may be reported, and the       *)
(* others leave the outcome open.                                           *)
LEMMA OutcomeReported ==
  ASSUME PredictionIInv, Main, outcome' # outcome
  PROVE  /\ outcome = <<"running">> /\ UNCHANGED <<request, printed>>
         /\ \/ outcome' \in Promised!Reports(request)
            \/ outcome' = <<"ok">> /\ printed = Promised!Answer(request)
<1>1. <<"other">> \in Promised!Reports(request)
  BY DEF Promised!Reports
<1>2. ASSUME Prepare \/ Settle PROVE place' = "ended"
  <2>1. ASSUME NEW kind, NEW samples, FailAtFirst(kind, samples)
        PROVE  place' = "ended"
    BY <2>1 DEF FailAtFirst, Fail
  <2> QED
    BY <1>2, <2>1 DEF Prepare, Settle, Continue
<1>3. place # "ended" => outcome = <<"running">>
  BY DEF PredictionIInv, BatchTyped
<1>4. CASE OpenDocument \/ TakeAll \/ ReadBatch
  BY <1>1, <1>3, <1>4
  DEF OpenDocument, TakeAll, ReadBatch, Fail, Continue, asked, output
<1>5. CASE Prepare \/ Settle
  <2>1. outcome' \in Promised!Reports(request)
    BY <1>2, <1>5, MissingReported, OverflowReported
  <2> QED
    BY <1>3, <1>5, <2>1 DEF Prepare, Settle, asked, output
<1>6. CASE Plan \/ Create \/ CreateFails \/ AllCreated \/ Join
  BY <1>6 DEF Plan, Create, CreateFails, AllCreated, Join, Continue
<1>7. CASE Abandon \/ Stage \/ Finish \/ Write \/ Evaluate \/ Show
  BY <1>1, <1>3, <1>7
  DEF Abandon, Stage, Finish, Write, Evaluate, Show, Fail, Continue, asked, output
<1>8. CASE Done
  BY <1>3, <1>8 DEF Done, PredictionIInv, OutputSound, asked, output
<1> QED
  BY <1>4, <1>5, <1>6, <1>7, <1>8 DEF Main

(* Every step is one of the promise, or changes nothing it tells of.        *)
LEMMA StepPromised ==
  ASSUME PredictionIInv, [Next]_vars
  PROVE  [Promised!Next]_<<request, printed, outcome>>
<1>1. request' = request
  BY DEF Next, Main, OpenDocument, TakeAll, ReadBatch, Prepare, Plan, Create,
         CreateFails, AllCreated, Join, Settle, Abandon, Stage, Finish, Write,
         Evaluate, Show, Done, Work, vars, asked
<1>2. CASE outcome' # outcome
  <2>1. Main
    BY <1>2 DEF Next, Work, vars
  <2>2. /\ outcome = <<"running">> /\ UNCHANGED <<request, printed>>
        /\ \/ outcome' \in Promised!Reports(request)
           \/ outcome' = <<"ok">> /\ printed = Promised!Answer(request)
    BY <1>2, <2>1, OutcomeReported
  <2> QED
    BY <2>2 DEF Promised!Next, Promised!Fail, Promised!Succeed
<1>3. CASE outcome' = outcome /\ printed' # printed
  <2>1. Show
    BY <1>3 DEF Next, Main, OpenDocument, TakeAll, ReadBatch, Prepare, Plan,
                Create, CreateFails, AllCreated, Join, Settle, Abandon, Stage,
                Finish, Write, Evaluate, Done, Work, vars, output
  <2>2. /\ place = "copy" /\ printed' = Append(printed, staged[Len(printed) + 1])
        /\ Len(printed) < Len(staged)
    BY <1>3, <2>1 DEF Show
  <2>3. /\ Promised!Valid(request) /\ staged = Promised!Answer(request)
        /\ printed = SubSeq(staged, 1, Len(printed)) /\ Len(printed) \in Nat
        /\ outcome = <<"running">>
    BY <2>2 DEF PredictionIInv, OutputSound, BatchTyped
  <2>4. PICK S : staged \in Seq(S)
    BY <2>3, AnswerTyped
  <2>5. printed' = SubSeq(staged, 1, Len(printed) + 1)
    BY <2>2, <2>3, <2>4, NextPart
  <2>6. Len(printed) + 1 \in Len(printed) + 1 .. Len(staged)
    BY <2>2, <2>3, <2>4
  <2>7. \E n \in Len(printed) + 1 .. Len(Promised!Answer(request)) :
          printed' = SubSeq(Promised!Answer(request), 1, n)
    BY <2>3, <2>5, <2>6
  <2> QED
    BY <1>1, <1>3, <2>3, <2>7 DEF Promised!Next, Promised!Show
<1>4. CASE outcome' = outcome /\ printed' = printed
  BY <1>1, <1>4
<1> QED
  BY <1>2, <1>3, <1>4

(* A prediction is what the documents promise: a request is answered        *)
(* completely and in order or not at all, and a failure of a single batch   *)
(* or of a document's first batch names the first sample that fails like it *)
(* (predict and evaluate of main.c).                                        *)
THEOREM DocumentImplemented == Spec => ImplementsDocument
<1>1. Init => Promised!Init
  BY DEF Init, Promised!Init
<1>2. PredictionIInv /\ [Next]_vars => [Promised!Next]_<<request, printed, outcome>>
  BY StepPromised
<1> QED
  BY <1>1, <1>2, PredictionInvariance, PTL DEF Spec, ImplementsDocument, Promised!Spec

=============================================================================
