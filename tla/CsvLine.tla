-------------------------------- MODULE CsvLine --------------------------------
(***************************************************************************)
(* The division of one line of a CSV file into fields (parse_csv_line of   *)
(* src/data_import.c): a scanner that decodes quoted fields in place, so   *)
(* that what it writes follows what it reads through the same buffer.      *)
(* The growth of the array of fields is left out.                          *)
(***************************************************************************)
EXTENDS Selection, SequencesExt

Quote == "\""
Comma == ","
Nul == "end of line"

Started(line) ==
  [buffer |-> Append(line, Nul), read |-> 1, write |-> 1, field |-> 1,
   fields |-> <<>>, mode |-> "start"]

At(s) == s.buffer[s.read]

Refuse(s) == [s EXCEPT !.mode = "refused"]

(* "*write++ = c" after "read" has gone on by n.                            *)
Put(s, c, n) ==
  [s EXCEPT !.buffer[s.write] = c, !.write = @ + 1, !.read = @ + n]

(* Mutant: a comma before the end of the line adds no empty field.          *)
EndFieldWithoutLast(s) ==
  LET more == At(s) = Comma
      ended == [Put(s, Nul, IF more THEN 1 ELSE 0)
                EXCEPT !.fields = Append(@, s.field)]
  IN  IF ~more \/ At(ended) = Nul
        THEN [ended EXCEPT !.mode = "done"]
        ELSE [ended EXCEPT !.mode = "start"]

(* A field ends at a comma or at the end of the line.  A comma at the very  *)
(* end leaves one more field, the empty one.                                *)
EndField(s) ==
  LET more == At(s) = Comma
      ended == [Put(s, Nul, IF more THEN 1 ELSE 0)
                EXCEPT !.fields = Append(@, s.field)]
  IN  IF ~more THEN [ended EXCEPT !.mode = "done"]
      ELSE IF At(ended) = Nul
        THEN [ended EXCEPT !.mode = "done",
                           !.fields = Append(@, ended.write),
                           !.buffer[ended.write] = Nul]
      ELSE [ended EXCEPT !.mode = "start"]

Start(s) ==
  IF At(s) = Quote
    THEN [s EXCEPT !.field = s.write, !.read = @ + 1, !.mode = "quoted"]
    ELSE [s EXCEPT !.field = s.write, !.mode = "plain"]

Quoted(s) ==
  CASE At(s) = Nul -> Refuse(s)
    [] At(s) = Quote /\ s.buffer[s.read + 1] = Quote -> Put(s, Quote, 2)
    [] At(s) = Quote /\ s.buffer[s.read + 1] # Quote ->
         [s EXCEPT !.read = @ + 1, !.mode = "closed"]
    [] OTHER -> Put(s, At(s), 1)

Plain(s) ==
  CASE At(s) \in {Comma, Nul} -> EndField(s)
    [] At(s) = Quote -> Refuse(s)
    [] OTHER -> Put(s, At(s), 1)

Closed(s) == IF At(s) \in {Comma, Nul} THEN EndField(s) ELSE Refuse(s)

Scan(s) ==
  CASE s.mode = "start" -> Start(s)
    [] s.mode = "quoted" -> Quoted(s)
    [] s.mode = "plain" -> Plain(s)
    [] s.mode = "closed" -> Closed(s)
    [] OTHER -> s

Ended(s) == s.mode \in {"done", "refused"}

(* Every step but the first of a field reads on.                            *)
Steps(line) == 2 * Len(line) + 2

(* The states of the scanner after each step.                               *)
Scanning(line) ==
  LET scanned[i \in 0 .. Steps(line)] ==
        IF i = 0 THEN Started(line) ELSE Scan(scanned[i - 1])
  IN  scanned

ScanOf(line) == Scanning(line)[Steps(line)]

Text(buffer, start) ==
  SubSeq(buffer, start,
         CHOOSE i \in start - 1 .. Len(buffer) - 1 :
           /\ buffer[i + 1] = Nul
           /\ \A j \in start .. i : buffer[j] # Nul)

None == <<>>

(* The fields of a line, None of a line that is refused.                    *)
ParseCsvLine(line) ==
  LET s == ScanOf(line)
  IN  IF s.mode = "done"
        THEN [i \in DOMAIN s.fields |-> Text(s.buffer, s.fields[i])]
        ELSE None

-----------------------------------------------------------------------------
(* What a line says, without a scanner.                                     *)

Quotes(text, n) == Len(SelectSeq(SubSeq(text, 1, n), LAMBDA c : c = Quote))

Separators(line) ==
  {i \in DOMAIN line : line[i] = Comma /\ Quotes(line, i) % 2 = 0}

(* The texts between the separators.                                        *)
Pieces(line) ==
  LET ends == <<0>> \o InOrder(Separators(line), Len(line))
                   \o <<Len(line) + 1>>
  IN  [k \in 1 .. Len(ends) - 1 |->
         SubSeq(line, ends[k] + 1, ends[k + 1] - 1)]

Inner(piece) == SubSeq(piece, 2, Len(piece) - 1)

(* Either no quote, or quotes around, and every quote inside doubled.       *)
WellFormed(piece) ==
  \/ Quotes(piece, Len(piece)) = 0
  \/ /\ Len(piece) >= 2
     /\ piece[1] = Quote /\ Last(piece) = Quote
     /\ \A i \in 1 .. Len(Inner(piece)) + 1 :
          (i > Len(Inner(piece)) \/ Inner(piece)[i] # Quote) =>
            Quotes(Inner(piece), i - 1) % 2 = 0

Decoded(piece) ==
  IF Quotes(piece, Len(piece)) = 0 THEN piece
  ELSE LET kept == {i \in DOMAIN Inner(piece) :
                      Inner(piece)[i] = Quote =>
                        Quotes(Inner(piece), i) % 2 = 1}
           order == InOrder(kept, Len(Inner(piece)))
       IN  [k \in DOMAIN order |-> Inner(piece)[order[k]]]

FieldsOf(line) ==
  IF \A k \in DOMAIN Pieces(line) : WellFormed(Pieces(line)[k])
    THEN [k \in DOMAIN Pieces(line) |-> Decoded(Pieces(line)[k])]
    ELSE None

(* The scanner comes to an end, never writes past what it has read nor      *)
(* reads past the end of the line, and starts each field behind the end of  *)
(* the one before; the buffer still ends as it did.                         *)
ScansInPlace(line) ==
  /\ Ended(ScanOf(line))
  /\ \A n \in 0 .. Steps(line) :
       LET s == Scanning(line)[n]
       IN  ~Ended(s) => s.write <= s.read /\ s.read <= Len(line) + 1
  /\ LET s == ScanOf(line)
     IN  /\ s.buffer[Len(line) + 1] = Nul
         /\ \A i \in 1 .. Len(s.fields) :
              /\ s.fields[i] \in 1 .. Len(line) + 1
              /\ i > 1 => /\ s.fields[i - 1] < s.fields[i]
                          /\ s.buffer[s.fields[i] - 1] = Nul

(* The scanner finds the fields that a line has, in place.                  *)
ScansAsWritten(line) ==
  ParseCsvLine(line) = FieldsOf(line) /\ ScansInPlace(line)
=============================================================================
