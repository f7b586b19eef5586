------------------------- MODULE ProjectSettingsProofs -------------------------
(***************************************************************************)
(* Proofs about ProjectSettings: equal digests mean that training and      *)
(* prediction make use of the same settings, layers and data, and files    *)
(* that are edited by hand are read as what they were meant to say.        *)
(***************************************************************************)
EXTENDS ProjectSettings, SequenceTheorems, WellFoundedInduction, TLAPS

-----------------------------------------------------------------------------
(* Readers and sequences.                                                   *)

(* Induction over the naturals, for a set instead of a predicate.           *)
LEMMA SetInduction ==
  ASSUME NEW S, 0 \in S, \A n \in Nat : n \in S => n + 1 \in S
  PROVE  Nat \subseteq S
<1> DEFINE Less == OpToRel(<, Nat)
<1>1. IsWellFoundedOn(Less, Nat)
  BY NatLessThanWellFounded, Zenon
<1>2. SUFFICES ASSUME Nat \ S # {} PROVE FALSE
  OBVIOUS
<1>3. PICK n \in Nat \ S : \A m \in Nat \ S : ~(<<m, n>> \in Less)
  <2> HIDE DEF Less
  <2> QED
    BY <1>1, <1>2, WFMin
<1>4. \A m \in Nat \ S : ~(m < n)
  BY <1>3, Zenon DEF OpToRel
<1>5. n # 0 /\ n - 1 \in Nat
  OBVIOUS
<1> QED
  BY <1>4, <1>5

(* The reader of project.conf before its first line.                        *)
ConfigStart == [ok |-> TRUE, config |-> Defaults, fields |-> {}]

(* "g" is the reader after each of the first "n" lines.                     *)
ConfigReadersUpTo(g, lines, n) ==
  /\ g = [i \in 0 .. n |-> g[i]]
  /\ g[0] = ConfigStart
  /\ \A i \in 1 .. n : g[i] = ReadConfigLine(g[i - 1], lines[i])

LEMMA ConfigReadersAre ==
  ASSUME NEW lines, Len(lines) \in Nat
  PROVE  ConfigReadersUpTo(ConfigReaders(lines), lines, Len(lines))
<1> DEFINE N == Len(lines)
           Step(g) == [i \in 0 .. N |->
                         IF i = 0 THEN ConfigStart
                         ELSE ReadConfigLine(g[i - 1], lines[i])]
           S == {n \in Nat : \E g : ConfigReadersUpTo(g, lines, n)}
<1>1. 0 \in S
  <2> DEFINE g == [i \in 0 .. 0 |-> ConfigStart]
  <2>1. g = [i \in 0 .. 0 |-> g[i]] /\ g[0] = ConfigStart
    OBVIOUS
  <2> HIDE DEF g
  <2>2. ConfigReadersUpTo(g, lines, 0)
    BY <2>1 DEF ConfigReadersUpTo
  <2> QED
    BY <2>2
<1>2. ASSUME NEW n \in Nat, n \in S
      PROVE  n + 1 \in S
  <2>1. PICK g : ConfigReadersUpTo(g, lines, n)
    BY <1>2
  <2> DEFINE v == ReadConfigLine(g[n], lines[n + 1])
             h == [i \in 0 .. n + 1 |-> IF i = n + 1 THEN v ELSE g[i]]
  <2>2. h[n + 1] = v /\ \A i \in 0 .. n : h[i] = g[i]
    OBVIOUS
  <2>3. h = [i \in 0 .. n + 1 |-> h[i]]
    OBVIOUS
  <2> HIDE DEF h
  <2>4. ASSUME NEW i \in 1 .. n + 1
        PROVE  h[i] = ReadConfigLine(h[i - 1], lines[i])
    <3>1. CASE i = n + 1
      BY <2>2, <3>1
    <3>2. CASE i # n + 1
      <4>1. i \in 1 .. n /\ i \in 0 .. n /\ i - 1 \in 0 .. n
        BY <3>2
      <4>2. h[i] = g[i] /\ h[i - 1] = g[i - 1]
        BY <2>2, <4>1
      <4>3. g[i] = ReadConfigLine(g[i - 1], lines[i])
        BY <2>1, <4>1 DEF ConfigReadersUpTo
      <4> QED
        BY <4>2, <4>3
    <3> QED
      BY <3>1, <3>2
  <2>5. h[0] = ConfigStart
    BY <2>1, <2>2 DEF ConfigReadersUpTo
  <2>6. ConfigReadersUpTo(h, lines, n + 1)
    BY ONLY <2>3, <2>4, <2>5 DEF ConfigReadersUpTo
  <2> QED
    BY <2>6
<1>3. Nat \subseteq S
  <2> HIDE DEF S
  <2> QED
    BY <1>1, <1>2, SetInduction
<1>4. PICK g : ConfigReadersUpTo(g, lines, N)
  BY <1>3
<1>5. g = Step(g)
  <2>1. /\ g = [i \in 0 .. N |-> g[i]] /\ g[0] = ConfigStart
        /\ \A i \in 1 .. N : g[i] = ReadConfigLine(g[i - 1], lines[i])
    BY <1>4 DEF ConfigReadersUpTo
  <2>2. \A i \in 0 .. N : i # 0 => i \in 1 .. N
    OBVIOUS
  <2> QED
    BY <2>1, <2>2
<1> DEFINE r == ConfigReaders(lines)
<1>6. r = CHOOSE f : f = Step(f)
  BY DEF ConfigReaders, ConfigStart
<1>7. r = Step(r)
  <2> HIDE DEF Step, r
  <2> QED
    BY <1>5, <1>6
<1> HIDE DEF r
<1>8. /\ r = [i \in 0 .. N |-> r[i]] /\ r[0] = ConfigStart
      /\ \A i \in 1 .. N : r[i] = ReadConfigLine(r[i - 1], lines[i])
  BY <1>7
<1>9. ConfigReadersUpTo(r, lines, N)
  BY <1>8 DEF ConfigReadersUpTo
<1> QED
  BY <1>9 DEF r

(* The reader of model.txt before its first line.                           *)
ModelStart == [ok |-> TRUE, inputs |-> 0, layers |-> <<>>]

(* "g" is the reader after each of the first "n" lines.                     *)
ModelReadersUpTo(g, lines, n) ==
  /\ g = [i \in 0 .. n |-> g[i]]
  /\ g[0] = ModelStart
  /\ \A i \in 1 .. n : g[i] = ReadModelLine(g[i - 1], lines[i])

LEMMA ModelReadersAre ==
  ASSUME NEW lines, Len(lines) \in Nat
  PROVE  ModelReadersUpTo(ModelReaders(lines), lines, Len(lines))
<1> DEFINE N == Len(lines)
           Step(g) == [i \in 0 .. N |->
                         IF i = 0 THEN ModelStart
                         ELSE ReadModelLine(g[i - 1], lines[i])]
           S == {n \in Nat : \E g : ModelReadersUpTo(g, lines, n)}
<1>1. 0 \in S
  <2> DEFINE g == [i \in 0 .. 0 |-> ModelStart]
  <2>1. g = [i \in 0 .. 0 |-> g[i]] /\ g[0] = ModelStart
    OBVIOUS
  <2> HIDE DEF g
  <2>2. ModelReadersUpTo(g, lines, 0)
    BY <2>1 DEF ModelReadersUpTo
  <2> QED
    BY <2>2
<1>2. ASSUME NEW n \in Nat, n \in S
      PROVE  n + 1 \in S
  <2>1. PICK g : ModelReadersUpTo(g, lines, n)
    BY <1>2
  <2> DEFINE v == ReadModelLine(g[n], lines[n + 1])
             h == [i \in 0 .. n + 1 |-> IF i = n + 1 THEN v ELSE g[i]]
  <2>2. h[n + 1] = v /\ \A i \in 0 .. n : h[i] = g[i]
    OBVIOUS
  <2>3. h = [i \in 0 .. n + 1 |-> h[i]]
    OBVIOUS
  <2> HIDE DEF h
  <2>4. ASSUME NEW i \in 1 .. n + 1
        PROVE  h[i] = ReadModelLine(h[i - 1], lines[i])
    <3>1. CASE i = n + 1
      BY <2>2, <3>1
    <3>2. CASE i # n + 1
      <4>1. i \in 1 .. n /\ i \in 0 .. n /\ i - 1 \in 0 .. n
        BY <3>2
      <4>2. h[i] = g[i] /\ h[i - 1] = g[i - 1]
        BY <2>2, <4>1
      <4>3. g[i] = ReadModelLine(g[i - 1], lines[i])
        BY <2>1, <4>1 DEF ModelReadersUpTo
      <4> QED
        BY <4>2, <4>3
    <3> QED
      BY <3>1, <3>2
  <2>5. h[0] = ModelStart
    BY <2>1, <2>2 DEF ModelReadersUpTo
  <2>6. ModelReadersUpTo(h, lines, n + 1)
    BY ONLY <2>3, <2>4, <2>5 DEF ModelReadersUpTo
  <2> QED
    BY <2>6
<1>3. Nat \subseteq S
  <2> HIDE DEF S
  <2> QED
    BY <1>1, <1>2, SetInduction
<1>4. PICK g : ModelReadersUpTo(g, lines, N)
  BY <1>3
<1>5. g = Step(g)
  <2>1. /\ g = [i \in 0 .. N |-> g[i]] /\ g[0] = ModelStart
        /\ \A i \in 1 .. N : g[i] = ReadModelLine(g[i - 1], lines[i])
    BY <1>4 DEF ModelReadersUpTo
  <2>2. \A i \in 0 .. N : i # 0 => i \in 1 .. N
    OBVIOUS
  <2> QED
    BY <2>1, <2>2
<1> DEFINE r == ModelReaders(lines)
<1>6. r = CHOOSE f : f = Step(f)
  BY DEF ModelReaders, ModelStart
<1>7. r = Step(r)
  <2> HIDE DEF Step, r
  <2> QED
    BY <1>5, <1>6
<1> HIDE DEF r
<1>8. /\ r = [i \in 0 .. N |-> r[i]] /\ r[0] = ModelStart
      /\ \A i \in 1 .. N : r[i] = ReadModelLine(r[i - 1], lines[i])
  BY <1>7
<1>9. ModelReadersUpTo(r, lines, N)
  BY <1>8 DEF ModelReadersUpTo
<1> QED
  BY <1>9 DEF r

-----------------------------------------------------------------------------
(* What project.conf is read as.                                            *)

LineReads(line) == line[1] \in ConfigKeys /\ ValueReads(line[1], line[2])

(* The first "n" lines can be read, and no key is in two of them.           *)
Acceptable(lines, n) ==
  /\ \A i \in 1 .. n : LineReads(lines[i])
  /\ \A i, j \in 1 .. n : lines[i][1] = lines[j][1] => i = j

KeysOf(lines, n) == {lines[i][1] : i \in 1 .. n}

(* A setting is what its line says, or its default.                         *)
Says(lines, n, c) ==
  /\ c = [k \in ConfigKeys |-> c[k]]
  /\ \A i \in 1 .. n : c[lines[i][1]] = lines[i][2]
  /\ \A k \in ConfigKeys : k \notin KeysOf(lines, n) => c[k] = Defaults[k]

ReaderAfter(r, lines, n) ==
  IF Acceptable(lines, n)
    THEN /\ r \in [ok : {TRUE}, config : {r.config}, fields : {r.fields}]
         /\ r.fields = KeysOf(lines, n)
         /\ Says(lines, n, r.config)
    ELSE r = Refused

LEMMA AcceptableNext ==
  ASSUME NEW lines, NEW n \in Nat
  PROVE  Acceptable(lines, n + 1) <=>
           /\ Acceptable(lines, n)
           /\ LineReads(lines[n + 1])
           /\ lines[n + 1][1] \notin KeysOf(lines, n)
<1>1. ASSUME Acceptable(lines, n + 1)
      PROVE  /\ Acceptable(lines, n)
             /\ LineReads(lines[n + 1])
             /\ lines[n + 1][1] \notin KeysOf(lines, n)
  <2>1. \A i \in 1 .. n : i \in 1 .. n + 1 /\ i # n + 1
    OBVIOUS
  <2>2. n + 1 \in 1 .. n + 1
    OBVIOUS
  <2> QED
    BY <1>1, <2>1, <2>2, Zenon DEF Acceptable, KeysOf
<1>2. ASSUME Acceptable(lines, n), LineReads(lines[n + 1]),
             lines[n + 1][1] \notin KeysOf(lines, n)
      PROVE  Acceptable(lines, n + 1)
  <2>1. \A i \in 1 .. n + 1 : i \in 1 .. n \/ i = n + 1
    OBVIOUS
  <2>2. \A i \in 1 .. n : lines[i][1] # lines[n + 1][1]
    BY <1>2 DEF KeysOf
  <2> QED
    BY <1>2, <2>1, <2>2, Zenon DEF Acceptable
<1> QED
  BY <1>1, <1>2

LEMMA ReaderStep ==
  ASSUME NEW lines, NEW n \in Nat, NEW r, ReaderAfter(r, lines, n)
  PROVE  ReaderAfter(ReadConfigLine(r, lines[n + 1]), lines, n + 1)
<1> DEFINE line == lines[n + 1]
           key == line[1]
           t == ReadConfigLine(r, line)
<1>1. Acceptable(lines, n + 1) <=>
        Acceptable(lines, n) /\ LineReads(line) /\ key \notin KeysOf(lines, n)
  BY AcceptableNext
<1>2. KeysOf(lines, n + 1) = KeysOf(lines, n) \cup {key}
  <2>1. 1 .. n + 1 = (1 .. n) \cup {n + 1}
    OBVIOUS
  <2> QED
    BY <2>1 DEF KeysOf
<1>3. CASE Acceptable(lines, n + 1)
  <2>1. /\ Acceptable(lines, n) /\ LineReads(line)
        /\ key \notin KeysOf(lines, n)
    BY <1>1, <1>3
  <2>2. /\ r \in [ok : {TRUE}, config : {r.config}, fields : {r.fields}]
        /\ r.fields = KeysOf(lines, n) /\ Says(lines, n, r.config)
    BY <2>1 DEF ReaderAfter
  <2>3. t = [r EXCEPT !.config[key] = line[2], !.fields = @ \cup {key}]
    BY <2>1, <2>2 DEF ReadConfigLine, LineReads
  <2> DEFINE c == [r.config EXCEPT ![key] = line[2]]
  <2>4. t \in [ok : {TRUE}, config : {c}, fields : {r.fields \cup {key}}]
    <3> HIDE DEF key, line, t
    <3> QED
      BY ONLY <2>2, <2>3 DEF c
  <2>5. /\ c = [k \in ConfigKeys |-> c[k]]
        /\ c[key] = line[2]
        /\ \A k \in ConfigKeys : k # key => c[k] = r.config[k]
    BY <2>1, <2>2 DEF Says, LineReads
  <2>6. \A i \in 1 .. n : lines[i][1] \in ConfigKeys /\ lines[i][1] # key
    BY <2>1 DEF Acceptable, LineReads, KeysOf
  <2> HIDE DEF c
  <2>7. Says(lines, n + 1, c)
    <3>1. ASSUME NEW i \in 1 .. n + 1 PROVE c[lines[i][1]] = lines[i][2]
      <4>1. CASE i = n + 1
        BY <2>5, <4>1
      <4>2. CASE i # n + 1
        <5>1. i \in 1 .. n
          BY <4>2
        <5> QED
          BY <2>2, <2>5, <2>6, <5>1 DEF Says
      <4> QED
        BY <4>1, <4>2
    <3>2. ASSUME NEW k \in ConfigKeys, k \notin KeysOf(lines, n + 1)
          PROVE  c[k] = Defaults[k]
      BY <1>2, <2>2, <2>5, <3>2 DEF Says
    <3> QED
      BY ONLY <2>5, <3>1, <3>2 DEF Says
  <2> HIDE DEF t
  <2>8. t.config = c /\ t.fields = r.fields \cup {key}
    BY <2>4
  <2> QED
    BY <1>2, <1>3, <2>2, <2>4, <2>7, <2>8 DEF ReaderAfter, t
<1>4. CASE ~Acceptable(lines, n + 1)
  <2>1. t = Refused
    <3>1. CASE Acceptable(lines, n)
      <4>1. r.fields = KeysOf(lines, n)
        BY <3>1 DEF ReaderAfter
      <4> QED
        BY <1>1, <1>4, <3>1, <4>1 DEF ReadConfigLine, LineReads
    <3>2. CASE ~Acceptable(lines, n)
      <4>1. ~r.ok
        BY <3>2 DEF ReaderAfter, Refused
      <4> QED
        BY <4>1 DEF ReadConfigLine
    <3> QED
      BY <3>1, <3>2
  <2> QED
    BY <1>4, <2>1 DEF ReaderAfter
<1> QED
  BY <1>3, <1>4

(* The configuration that is read from lines that say "c".                  *)
Completed(lines, c) ==
  /\ RequiredKeys \subseteq Stated(lines)
  /\ EarlyKeys \cap Stated(lines) \in {{}, EarlyKeys}
  /\ ConfigValid(c)

LEMMA ConfigRead ==
  ASSUME NEW lines, Len(lines) \in Nat, DOMAIN lines = 1 .. Len(lines)
  PROVE  LET r == ReadConfig(lines)
         IN  /\ r.ok => /\ Acceptable(lines, Len(lines))
                        /\ Says(lines, Len(lines), r.config)
                        /\ Completed(lines, r.config)
             /\ r.ok \in BOOLEAN
             /\ Acceptable(lines, Len(lines)) =>
                  \E c : /\ Says(lines, Len(lines), c)
                         /\ r.ok <=> Completed(lines, c)
<1> DEFINE N == Len(lines)
           g == ConfigReaders(lines)
           end == g[N]
           r == ReadConfig(lines)
<1>1. ConfigReadersUpTo(g, lines, N)
  BY ConfigReadersAre
<1> HIDE DEF g
<1> DEFINE S == {n \in Nat : n \in 0 .. N => ReaderAfter(g[n], lines, n)}
<1>2. 0 \in S
  <2>1. g[0] = ConfigStart
    BY <1>1 DEF ConfigReadersUpTo
  <2>2. /\ ConfigStart \in [ok : {TRUE}, config : {Defaults}, fields : {{}}]
        /\ ConfigStart.config = Defaults /\ ConfigStart.fields = {}
    BY DEF ConfigStart
  <2>3. KeysOf(lines, 0) = {}
    BY DEF KeysOf
  <2>4. Acceptable(lines, 0)
    BY DEF Acceptable
  <2>5. Defaults = [k \in ConfigKeys |-> Defaults[k]]
    BY DEF Defaults, ConfigKeys
  <2>6. Says(lines, 0, Defaults)
    BY <2>3, <2>5 DEF Says
  <2>7. ReaderAfter(ConfigStart, lines, 0)
    BY <2>2, <2>3, <2>4, <2>6 DEF ReaderAfter
  <2> QED
    BY <2>1, <2>7
<1>3. ASSUME NEW n \in Nat, n \in S PROVE n + 1 \in S
  <2> SUFFICES ASSUME n + 1 \in 0 .. N
               PROVE  ReaderAfter(g[n + 1], lines, n + 1)
    OBVIOUS
  <2>1. n \in 0 .. N /\ n + 1 \in 1 .. N /\ (n + 1) - 1 = n
    OBVIOUS
  <2>2. g[n + 1] = ReadConfigLine(g[n], lines[n + 1])
    BY <1>1, <2>1 DEF ConfigReadersUpTo
  <2> QED
    BY <1>3, <2>1, <2>2, ReaderStep
<1>4. ReaderAfter(end, lines, N)
  <2>1. Nat \subseteq S
    <3> HIDE DEF S
    <3> QED
      BY <1>2, <1>3, SetInduction
  <2> QED
    BY <2>1
<1>5. KeysOf(lines, N) = Stated(lines)
  BY DEF KeysOf, Stated
<1>6. r = IF /\ end.ok /\ RequiredKeys \subseteq end.fields
             /\ EarlyKeys \cap end.fields \in {{}, EarlyKeys}
             /\ ConfigValid(end.config)
            THEN end ELSE Refused
  BY DEF ReadConfig, g
<1> HIDE DEF end, r
<1>7. Refused.ok = FALSE
  BY DEF Refused
<1>8. CASE Acceptable(lines, N)
  <2>1. /\ end \in [ok : {TRUE}, config : {end.config}, fields : {end.fields}]
        /\ end.fields = Stated(lines) /\ Says(lines, N, end.config)
    BY <1>4, <1>5, <1>8 DEF ReaderAfter
  <2>2. end.ok = TRUE
    BY <2>1
  <2>3. r = IF Completed(lines, end.config) THEN end ELSE Refused
    BY <1>6, <2>1, <2>2 DEF Completed
  <2>4. r.ok <=> Completed(lines, end.config)
    BY <1>7, <2>2, <2>3
  <2>5. r.ok \in BOOLEAN /\ (r.ok => r.config = end.config)
    BY <1>7, <2>2, <2>3, <2>4
  <2>6. r.ok => /\ Says(lines, N, r.config) /\ Completed(lines, r.config)
    BY <2>1, <2>4, <2>5
  <2>7. \E c : Says(lines, N, c) /\ (r.ok <=> Completed(lines, c))
    BY <2>1, <2>4
  <2> QED
    BY <1>8, <2>5, <2>6, <2>7 DEF r, N
<1>9. CASE ~Acceptable(lines, N)
  <2>1. end = Refused
    BY <1>4, <1>9 DEF ReaderAfter
  <2>2. r.ok = FALSE
    BY <1>6, <1>7, <2>1
  <2> QED
    BY <1>9, <2>2 DEF r, N
<1> QED
  BY <1>8, <1>9

-----------------------------------------------------------------------------
(* What model.txt is read as.                                               *)

ReadableModel(m) ==
  /\ m \in WritableModels
  /\ \A i \in DOMAIN m.layers : LayerReads(m.layers[i])

ModelLines ==
  {<<"input", n>> : n \in Nat} \cup {<<"dense", l>> : l \in WritableLayers}

(* The lines begin with those of the model "m".                             *)
BeginsAs(lines, m) ==
  /\ lines[1] = <<"input", m.inputs>>
  /\ \A i \in 1 .. Len(m.layers) : lines[i + 1] = <<"dense", m.layers[i]>>

LEMMA ModelWritten ==
  ASSUME NEW m \in WritableModels
  PROVE  /\ WriteModel(m) \in Seq(ModelLines)
         /\ Len(WriteModel(m)) = Len(m.layers) + 1
         /\ Len(m.layers) \in Nat \ {0}
         /\ BeginsAs(WriteModel(m), m)
<1> DEFINE N == Len(m.layers)
           a == <<<<"input", m.inputs>>>>
           b == [i \in DOMAIN m.layers |-> <<"dense", m.layers[i]>>]
<1>1. /\ m.layers \in Seq(WritableLayers) /\ m.layers # <<>> /\ m.inputs \in Nat
  BY DEF WritableModels
<1>2. N \in Nat \ {0} /\ DOMAIN m.layers = 1 .. N
      /\ \A i \in 1 .. N : m.layers[i] \in WritableLayers
  <2> DEFINE s == m.layers
  <2>1. s \in Seq(WritableLayers) /\ s # <<>>
    BY <1>1
  <2> HIDE DEF s
  <2>2. Len(s) \in Nat \ {0} /\ DOMAIN s = 1 .. Len(s)
        /\ \A i \in 1 .. Len(s) : s[i] \in WritableLayers
    BY <2>1
  <2> QED
    BY <2>2 DEF s
<1>3. a \in Seq(ModelLines) /\ Len(a) = 1 /\ a[1] = <<"input", m.inputs>>
  <2>1. <<"input", m.inputs>> \in ModelLines
    BY <1>1 DEF ModelLines
  <2> HIDE DEF ModelLines
  <2> QED
    BY <2>1
<1>4. b \in Seq(ModelLines) /\ Len(b) = N
      /\ \A i \in 1 .. N : b[i] = <<"dense", m.layers[i]>>
  <2>1. \A i \in 1 .. N : <<"dense", m.layers[i]>> \in ModelLines
    BY <1>2 DEF ModelLines
  <2> HIDE DEF N
  <2>2. b \in [1 .. N -> ModelLines]
    BY <1>2, <2>1
  <2>3. b \in Seq(ModelLines) /\ Len(b) = N
    <3> HIDE DEF b
    <3> QED
      BY <1>2, <2>2
  <2> QED
    BY <1>2, <2>3
<1>5. WriteModel(m) = a \o b
  BY DEF WriteModel
<1> HIDE DEF a, b, N
<1>6. /\ a \o b \in Seq(ModelLines) /\ Len(a \o b) = N + 1
      /\ (a \o b)[1] = a[1]
      /\ \A i \in 1 .. N : (a \o b)[i + 1] = b[i]
  <2>1. a \o b \in Seq(ModelLines) /\ Len(a \o b) = Len(a) + Len(b)
        /\ \A i \in 1 .. Len(a) + Len(b) :
             (a \o b)[i] = IF i <= Len(a) THEN a[i] ELSE b[i - Len(a)]
    BY <1>3, <1>4, ConcatProperties
  <2>2. /\ 1 \in 1 .. 1 + N
        /\ \A i \in 1 .. N : /\ i + 1 \in 1 .. 1 + N
                             /\ ~(i + 1 <= 1) /\ (i + 1) - 1 = i
    BY <1>2
  <2> QED
    BY <1>2, <1>3, <1>4, <2>1, <2>2
<1>7. BeginsAs(a \o b, m)
  BY <1>3, <1>4, <1>6 DEF BeginsAs, N
<1> QED
  BY <1>2, <1>5, <1>6, <1>7 DEF N

LEMMA RefusalKept ==
  ASSUME NEW line
  PROVE  ReadModelLine(NoModel, line) = NoModel
<1>1. NoModel.ok = FALSE
  BY DEF NoModel
<1> QED
  BY <1>1 DEF ReadModelLine, InputLine, DenseLine

(* Once refused, a file stays refused.                                      *)
LEMMA RefusedToTheEnd ==
  ASSUME NEW g, NEW lines, NEW N \in Nat, ModelReadersUpTo(g, lines, N),
         NEW n \in 0 .. N, g[n] = NoModel
  PROVE  g[N] = NoModel
<1> DEFINE S == {i \in Nat : n + i <= N => g[n + i] = NoModel}
<1>1. 0 \in S
  OBVIOUS
<1>2. ASSUME NEW i \in Nat, i \in S PROVE i + 1 \in S
  <2> SUFFICES ASSUME n + (i + 1) <= N PROVE g[n + (i + 1)] = NoModel
    OBVIOUS
  <2>1. n + (i + 1) \in 1 .. N /\ (n + (i + 1)) - 1 = n + i /\ n + i <= N
    OBVIOUS
  <2>2. g[n + (i + 1)] = ReadModelLine(g[n + i], lines[n + (i + 1)])
    BY <2>1 DEF ModelReadersUpTo
  <2> QED
    BY <1>2, <2>1, <2>2, RefusalKept
<1>3. Nat \subseteq S
  <2> HIDE DEF S
  <2> QED
    BY <1>1, <1>2, SetInduction
<1>4. N - n \in Nat /\ n + (N - n) = N
  OBVIOUS
<1> QED
  BY <1>3, <1>4

(* The model after the input line and "n" of the layers.                    *)
ModelAfter(r, m, n) ==
  IF \A i \in 1 .. n : LayerReads(m.layers[i])
    THEN /\ r \in [ok : {TRUE}, inputs : {m.inputs}, layers : {r.layers}]
         /\ r.layers \in Seq(WritableLayers)
         /\ Len(r.layers) = n
         /\ \A i \in 1 .. n : r.layers[i] = m.layers[i]
    ELSE r = NoModel

LEMMA LayerStep ==
  ASSUME NEW m \in WritableModels, NEW n \in Nat, n + 1 \in 1 .. Len(m.layers),
         NEW r, ModelAfter(r, m, n)
  PROVE  ModelAfter(ReadModelLine(r, <<"dense", m.layers[n + 1]>>), m, n + 1)
<1> DEFINE layer == m.layers[n + 1]
           t == ReadModelLine(r, <<"dense", layer>>)
<1>1. m.inputs # 0 /\ layer \in WritableLayers
  BY DEF WritableModels
<1>2. t = DenseLine(r, layer)
  BY DEF ReadModelLine
<1>3. \A i \in 1 .. n + 1 : i \in 1 .. n \/ i = n + 1
  OBVIOUS
<1>4. CASE \A i \in 1 .. n + 1 : LayerReads(m.layers[i])
  <2>1. (\A i \in 1 .. n : LayerReads(m.layers[i])) /\ LayerReads(layer)
    BY <1>4
  <2>2. /\ r \in [ok : {TRUE}, inputs : {m.inputs}, layers : {r.layers}]
        /\ r.layers \in Seq(WritableLayers) /\ Len(r.layers) = n
        /\ \A i \in 1 .. n : r.layers[i] = m.layers[i]
    BY <2>1 DEF ModelAfter
  <2>3. t = [r EXCEPT !.layers = Append(@, layer)]
    BY <1>1, <1>2, <2>1, <2>2 DEF DenseLine
  <2> DEFINE s == Append(r.layers, layer)
  <2>4. /\ s \in Seq(WritableLayers) /\ Len(s) = n + 1 /\ s[n + 1] = layer
        /\ \A i \in 1 .. n : s[i] = r.layers[i]
    BY <1>1, <2>2, AppendProperties
  <2> HIDE DEF layer, t, s
  <2>5. t \in [ok : {TRUE}, inputs : {m.inputs}, layers : {s}]
    BY ONLY <2>2, <2>3 DEF s
  <2>6. t.layers = s
    BY ONLY <2>5
  <2>7. \A i \in 1 .. n + 1 : s[i] = m.layers[i]
    BY <1>3, <2>2, <2>4 DEF layer
  <2> QED
    BY <1>4, <2>4, <2>5, <2>6, <2>7 DEF ModelAfter, t, layer
<1>5. CASE ~ \A i \in 1 .. n + 1 : LayerReads(m.layers[i])
  <2>1. t = NoModel
    <3>1. CASE \A i \in 1 .. n : LayerReads(m.layers[i])
      <4>1. ~LayerReads(layer)
        BY <1>3, <1>5, <3>1
      <4> QED
        BY <1>2, <4>1 DEF DenseLine
    <3>2. CASE ~ \A i \in 1 .. n : LayerReads(m.layers[i])
      <4>1. r = NoModel
        BY <3>2 DEF ModelAfter
      <4> QED
        BY <4>1, RefusalKept
    <3> QED
      BY <3>1, <3>2
  <2> QED
    BY <1>5, <2>1 DEF ModelAfter
<1> QED
  BY <1>4, <1>5

LEMMA LayersRead ==
  ASSUME NEW m \in WritableModels, NEW lines, NEW N \in Nat, NEW g,
         ModelReadersUpTo(g, lines, N), BeginsAs(lines, m),
         N >= Len(m.layers) + 1
  PROVE  /\ g[1] \in [ok : {TRUE}, inputs : {m.inputs}, layers : {<<>>}]
         /\ ModelAfter(g[Len(m.layers) + 1], m, Len(m.layers))
<1> DEFINE n == Len(m.layers)
           S == {i \in Nat : i <= n => ModelAfter(g[i + 1], m, i)}
<1>1. n \in Nat /\ m.inputs \in Nat \ {0}
  BY ModelWritten DEF WritableModels
<1>2. g[1] \in [ok : {TRUE}, inputs : {m.inputs}, layers : {<<>>}]
  <2>1. 1 \in 1 .. N /\ 1 - 1 = 0
    BY <1>1
  <2>2. g[1] = ReadModelLine(ModelStart, <<"input", m.inputs>>)
    BY <2>1 DEF ModelReadersUpTo, BeginsAs
  <2>3. ModelStart \in [ok : {TRUE}, inputs : {0}, layers : {<<>>}]
    BY DEF ModelStart
  <2>4. g[1] = [ModelStart EXCEPT !.inputs = m.inputs]
    BY <1>1, <2>2, <2>3 DEF ReadModelLine, InputLine
  <2> QED
    BY <2>3, <2>4
<1>3. 0 \in S
  <2>1. g[1].layers = <<>>
    BY <1>2
  <2>2. /\ <<>> \in Seq(WritableLayers) /\ Len(<<>>) = 0
        /\ \A i \in 1 .. 0 : FALSE
    OBVIOUS
  <2>3. ModelAfter(g[1], m, 0)
    BY <1>2, <2>1, <2>2 DEF ModelAfter
  <2> QED
    BY <2>3
<1>4. ASSUME NEW i \in Nat, i \in S PROVE i + 1 \in S
  <2> SUFFICES ASSUME i + 1 <= n PROVE ModelAfter(g[(i + 1) + 1], m, i + 1)
    OBVIOUS
  <2>1. /\ i <= n /\ i + 1 \in 1 .. n /\ (i + 1) + 1 \in 1 .. N
        /\ ((i + 1) + 1) - 1 = i + 1
    BY <1>1
  <2>2. g[(i + 1) + 1] = ReadModelLine(g[i + 1], lines[(i + 1) + 1])
    BY <2>1 DEF ModelReadersUpTo
  <2>3. lines[(i + 1) + 1] = <<"dense", m.layers[i + 1]>>
    BY <2>1 DEF BeginsAs
  <2> QED
    BY <1>4, <2>1, <2>2, <2>3, LayerStep
<1>5. Nat \subseteq S
  <2> HIDE DEF S
  <2> QED
    BY <1>3, <1>4, SetInduction
<1>6. ModelAfter(g[n + 1], m, n)
  BY <1>1, <1>5
<1> QED
  BY <1>2, <1>6

LEMMA SameRecord ==
  ASSUME NEW inputs, NEW layers,
         NEW r \in [ok : {TRUE}, inputs : {inputs}, layers : {layers}],
         NEW s \in [ok : {TRUE}, inputs : {inputs}, layers : {layers}]
  PROVE  r = s
<1>1. r.ok = s.ok /\ r.inputs = s.inputs /\ r.layers = s.layers
  OBVIOUS
<1>2. /\ r = [ok |-> r.ok, inputs |-> r.inputs, layers |-> r.layers]
      /\ s = [ok |-> s.ok, inputs |-> s.inputs, layers |-> s.layers]
  OBVIOUS
<1> QED
  BY <1>1, <1>2, Zenon

LEMMA ModelEnd ==
  ASSUME NEW lines, Len(lines) \in Nat
  PROVE  LET end == ModelReaders(lines)[Len(lines)]
         IN  /\ ModelReadersUpTo(ModelReaders(lines), lines, Len(lines))
             /\ ReadModel(lines) = (IF end.inputs # 0 /\ end.layers # <<>>
                                      THEN end ELSE NoModel)
  BY ModelReadersAre DEF ReadModel

(* A model that is written is read back, or refused for one of its layers.  *)
LEMMA ModelReadBack ==
  ASSUME NEW m \in WritableModels
  PROVE  /\ ReadableModel(m) => ReadModel(WriteModel(m)) = m
         /\ ~ReadableModel(m) => ReadModel(WriteModel(m)) = NoModel
<1> DEFINE lines == WriteModel(m)
           n == Len(m.layers)
           end == ModelReaders(lines)[Len(lines)]
<1>1. /\ Len(lines) = n + 1 /\ n \in Nat \ {0} /\ BeginsAs(lines, m)
      /\ m.layers \in Seq(WritableLayers) /\ DOMAIN m.layers = 1 .. n
  <2>1. Len(lines) = n + 1 /\ n \in Nat \ {0} /\ BeginsAs(lines, m)
    BY ModelWritten
  <2>2. m.layers \in Seq(WritableLayers)
    BY DEF WritableModels
  <2>3. DOMAIN m.layers = 1 .. n
    <3> DEFINE s == m.layers
    <3>1. s \in Seq(WritableLayers)
      BY <2>2
    <3> HIDE DEF s
    <3>2. DOMAIN s = 1 .. Len(s)
      BY <3>1
    <3> QED
      BY <3>2 DEF s
  <2> HIDE DEF lines, n
  <2> QED
    BY <2>1, <2>2, <2>3
<1>2. /\ ModelReadersUpTo(ModelReaders(lines), lines, n + 1)
      /\ ReadModel(lines) = (IF end.inputs # 0 /\ end.layers # <<>>
                               THEN end ELSE NoModel)
  <2>1. Len(lines) \in Nat
    BY <1>1
  <2> HIDE DEF lines
  <2> QED
    BY <1>1, <2>1, ModelEnd
<1>3. ModelAfter(end, m, n)
  <2>1. n + 1 \in Nat /\ n + 1 >= n + 1
    BY <1>1
  <2> HIDE DEF lines
  <2> QED
    BY <1>1, <1>2, <2>1, LayersRead
<1> HIDE DEF lines, n, end
<1>4. CASE ReadableModel(m)
  <2>1. \A i \in 1 .. n : LayerReads(m.layers[i])
    BY <1>1, <1>4 DEF ReadableModel
  <2>2. /\ end \in [ok : {TRUE}, inputs : {m.inputs}, layers : {end.layers}]
        /\ end.layers \in Seq(WritableLayers) /\ Len(end.layers) = n
        /\ \A i \in 1 .. n : end.layers[i] = m.layers[i]
    BY <1>3, <2>1 DEF ModelAfter
  <2>3. end.layers = m.layers
    <3> DEFINE s == end.layers
               t == m.layers
    <3>1. /\ s \in Seq(WritableLayers) /\ t \in Seq(WritableLayers)
          /\ Len(s) = Len(t) /\ \A i \in 1 .. Len(s) : s[i] = t[i]
      BY <1>1, <2>2 DEF n
    <3> HIDE DEF s, t
    <3>2. s = t
      BY <3>1, SeqEqual
    <3> QED
      BY <3>2 DEF s, t
  <2>4. end = m
    <3>1. m \in [ok : {TRUE}, inputs : {m.inputs}, layers : {m.layers}]
      BY DEF WritableModels
    <3>2. end \in [ok : {TRUE}, inputs : {m.inputs}, layers : {m.layers}]
      BY <2>2, <2>3
    <3> QED
      BY ONLY <3>1, <3>2, SameRecord, Zenon
  <2>5. m.inputs # 0 /\ m.layers # <<>>
    BY DEF WritableModels
  <2>6. ReadModel(lines) = m
    BY <1>2, <2>4, <2>5
  <2> QED
    BY <1>4, <2>6 DEF lines
<1>5. CASE ~ReadableModel(m)
  <2>1. ~ \A i \in 1 .. n : LayerReads(m.layers[i])
    BY <1>1, <1>5 DEF ReadableModel
  <2>2. end = NoModel
    BY <1>3, <2>1 DEF ModelAfter
  <2>3. ReadModel(lines) = NoModel
    BY <1>2, <2>2
  <2> QED
    BY <1>5, <2>3 DEF lines
<1> QED
  BY <1>4, <1>5

(* A file whose first line is a layer, whose input line comes twice or that *)
(* has no layers is refused.                                                *)
LEMMA FirstLayerRefused ==
  ASSUME NEW lines, Len(lines) \in Nat \ {0}, NEW layer,
         lines[1] = <<"dense", layer>>
  PROVE  ReadModel(lines) = NoModel
<1> DEFINE N == Len(lines)
           g == ModelReaders(lines)
<1>1. /\ ModelReadersUpTo(g, lines, N)
      /\ ReadModel(lines) = (IF g[N].inputs # 0 /\ g[N].layers # <<>>
                               THEN g[N] ELSE NoModel)
  BY ModelEnd
<1> HIDE DEF g
<1>2. 1 \in 1 .. N /\ 1 - 1 = 0 /\ 1 \in 0 .. N /\ N \in Nat
  OBVIOUS
<1>3. g[1] = ReadModelLine(ModelStart, <<"dense", layer>>)
  BY <1>1, <1>2 DEF ModelReadersUpTo
<1>4. g[1] = NoModel
  BY <1>3 DEF ReadModelLine, DenseLine, ModelStart
<1>5. g[N] = NoModel
  BY <1>1, <1>2, <1>4, RefusedToTheEnd
<1> QED
  BY <1>1, <1>5

LEMMA SpoiledRefused ==
  ASSUME NEW m \in WritableModels, NEW lines,
         LET a == WriteModel(m)
         IN  lines \in {Tail(a), Append(a, a[1]), Append(Tail(a), a[1]), <<a[1]>>}
  PROVE  ReadModel(lines) = NoModel
<1> DEFINE a == WriteModel(m)
           n == Len(m.layers)
<1>1. /\ a \in Seq(ModelLines) /\ Len(a) = n + 1 /\ n \in Nat \ {0}
      /\ a[1] = <<"input", m.inputs>>
      /\ \A i \in 1 .. n : a[i + 1] = <<"dense", m.layers[i]>>
      /\ m.inputs # 0
  BY ModelWritten DEF BeginsAs, WritableModels
<1>2. lines \in {Tail(a), Append(a, a[1]), Append(Tail(a), a[1]), <<a[1]>>}
  OBVIOUS
<1> HIDE DEF a
<1>3. /\ Tail(a) \in Seq(ModelLines) /\ Len(Tail(a)) = n
      /\ Tail(a)[1] = <<"dense", m.layers[1]>>
  <2>1. a # <<>> /\ 1 \in 1 .. n
    BY <1>1
  <2>2. /\ Tail(a) \in Seq(ModelLines) /\ Len(Tail(a)) = Len(a) - 1
        /\ \A i \in 1 .. Len(a) - 1 : Tail(a)[i] = a[i + 1]
    BY <1>1, <2>1, HeadTailProperties
  <2>3. Len(a) - 1 = n
    BY <1>1
  <2>4. Tail(a)[1] = a[1 + 1]
    BY <2>1, <2>2, <2>3
  <2> QED
    BY <1>1, <2>1, <2>2, <2>3, <2>4
<1>4. a[1] \in ModelLines
  <2>1. 1 \in 1 .. Len(a)
    BY <1>1
  <2> HIDE DEF n
  <2> QED
    BY <1>1, <2>1, ElementOfSeq
<1>5. CASE lines = Tail(a)
  BY <1>1, <1>3, <1>5, FirstLayerRefused
<1>6. CASE lines = Append(Tail(a), a[1])
  <2>1. Len(lines) = n + 1 /\ lines[1] = Tail(a)[1]
    <3> DEFINE t == Tail(a)
    <3>1. t \in Seq(ModelLines) /\ Len(t) = n /\ 1 \in 1 .. n
      BY <1>1, <1>3
    <3> HIDE DEF t
    <3>2. Len(Append(t, a[1])) = n + 1 /\ Append(t, a[1])[1] = t[1]
      BY <1>4, <3>1, AppendProperties
    <3> QED
      BY <1>6, <3>2 DEF t
  <2> QED
    BY <1>1, <1>3, <2>1, FirstLayerRefused
<1>7. CASE lines = Append(a, a[1])
  <2>1. /\ Len(lines) = n + 2 /\ lines[n + 2] = <<"input", m.inputs>>
        /\ \A i \in 1 .. n + 1 : lines[i] = a[i]
    <3>1. /\ Len(Append(a, a[1])) = Len(a) + 1
          /\ Append(a, a[1])[Len(a) + 1] = a[1]
          /\ \A i \in 1 .. Len(a) : Append(a, a[1])[i] = a[i]
      BY <1>1, <1>4, AppendProperties
    <3>2. Len(a) + 1 = n + 2
      BY <1>1
    <3> QED
      BY <1>1, <1>7, <3>1, <3>2
  <2>2. BeginsAs(lines, m)
    <3>1. 1 \in 1 .. n + 1 /\ \A i \in 1 .. n : i + 1 \in 1 .. n + 1
      BY <1>1
    <3> QED
      BY <1>1, <2>1, <3>1 DEF BeginsAs
  <2> DEFINE g == ModelReaders(lines)
  <2>3. /\ ModelReadersUpTo(g, lines, n + 2)
        /\ ReadModel(lines) = (IF g[n + 2].inputs # 0 /\ g[n + 2].layers # <<>>
                                 THEN g[n + 2] ELSE NoModel)
    <3>1. Len(lines) \in Nat
      BY <1>1, <2>1
    <3> QED
      BY <2>1, <3>1, ModelEnd
  <2> HIDE DEF g
  <2>4. ModelAfter(g[n + 1], m, n)
    <3>1. n + 2 \in Nat /\ n + 2 >= n + 1
      BY <1>1
    <3> QED
      BY <2>2, <2>3, <3>1, LayersRead
  <2>5. g[n + 2] = ReadModelLine(g[n + 1], <<"input", m.inputs>>)
    <3>1. n + 2 \in 1 .. n + 2 /\ (n + 2) - 1 = n + 1
      BY <1>1
    <3> QED
      BY <2>1, <2>3, <3>1 DEF ModelReadersUpTo
  <2>6. g[n + 2] = InputLine(g[n + 1], m.inputs)
    BY <2>5 DEF ReadModelLine
  <2>7. ~g[n + 1].ok \/ g[n + 1].inputs # 0
    <3> DEFINE t == g[n + 1]
    <3>1. \/ t \in [ok : {TRUE}, inputs : {m.inputs}, layers : {t.layers}]
          \/ t = NoModel
      BY <2>4 DEF ModelAfter
    <3> SUFFICES ~t.ok \/ t.inputs # 0
      OBVIOUS
    <3> HIDE DEF t
    <3>2. CASE t = NoModel
      BY <3>2 DEF NoModel
    <3>3. CASE t \in [ok : {TRUE}, inputs : {m.inputs}, layers : {t.layers}]
      <4>1. t.inputs = m.inputs
        BY <3>3
      <4> QED
        BY <1>1, <4>1
    <3> QED
      BY <3>1, <3>2, <3>3
  <2>8. g[n + 2] = NoModel
    BY <2>6, <2>7 DEF InputLine
  <2> QED
    BY <2>3, <2>8
<1>8. CASE lines = <<a[1]>>
  <2>1. Len(lines) = 1 /\ lines[1] = <<"input", m.inputs>>
    BY <1>1, <1>8
  <2> DEFINE g == ModelReaders(lines)
  <2>2. /\ ModelReadersUpTo(g, lines, 1)
        /\ ReadModel(lines) = (IF g[1].inputs # 0 /\ g[1].layers # <<>>
                                 THEN g[1] ELSE NoModel)
    <3>1. Len(lines) \in Nat
      BY <2>1
    <3> QED
      BY <2>1, <3>1, ModelEnd
  <2> HIDE DEF g
  <2>3. 1 \in 1 .. 1 /\ 1 - 1 = 0
    OBVIOUS
  <2>4. g[1] = ReadModelLine(ModelStart, <<"input", m.inputs>>)
    BY <2>1, <2>2, <2>3 DEF ModelReadersUpTo
  <2>5. ModelStart \in [ok : {TRUE}, inputs : {0}, layers : {<<>>}]
    BY DEF ModelStart
  <2>6. g[1] = [ModelStart EXCEPT !.inputs = m.inputs] \/ g[1] = NoModel
    BY <2>4 DEF ReadModelLine, InputLine
  <2>7. g[1].layers = <<>>
    BY <2>5, <2>6 DEF NoModel
  <2> QED
    BY <2>2, <2>7
<1> QED
  BY <1>2, <1>5, <1>6, <1>7, <1>8

-----------------------------------------------------------------------------
(* The inductive invariant.                                                 *)

Lines ==
  Offered \cup {<<k, w.config[k]>> : k \in ConfigKeys, w \in Wanted}

(* The reader comes to the end of the lines, and every key that has to be   *)
(* there is.                                                                *)
Readable(lines) ==
  /\ Acceptable(lines, Len(lines))
  /\ RequiredKeys \subseteq Stated(lines)
  /\ ~HalfEarly(lines)

(* What init writes.                                                        *)
Written(c) ==
  /\ c = [k \in ConfigKeys |-> c[k]]
  /\ ConfigValid(c)
  /\ \A k \in ConfigKeys : ValueReads(k, c[k])

(* The settings that the lines are meant to state: those that they are read *)
(* as or, in the file that init wrote, also values that it left out.        *)
Meant(lines, c) ==
  \/ Says(lines, Len(lines), c)
  \/ lines = WriteConfig(c) /\ Written(c)

ConfInv ==
  /\ conf \in Seq(Lines)
  /\ asked.config = [k \in ConfigKeys |-> asked.config[k]]
  /\ "conf" \notin spoiled <=> Readable(conf)
  /\ "conf" \notin spoiled => Meant(conf, asked.config)

ModelInv ==
  /\ asked.model \in WritableModels
  /\ "model" \notin spoiled =>
       architecture = WriteModel(asked.model) /\ ReadableModel(asked.model)
  /\ "model" \in spoiled => ReadModel(architecture) = NoModel

RestInv ==
  /\ asked \in [config : {asked.config}, model : {asked.model}]
  /\ train \in Datasets \cup {Absent}
  /\ validation \in Datasets \cup {Absent}
  /\ preprocessing \in Preprocessings \cup {Absent}
  /\ spoiled \subseteq {"conf", "model"}
  /\ edits \in 0 .. MaxEdits

(* A setting has a value that its line can have, or its default.            *)
Typed(c) ==
  /\ c = [k \in ConfigKeys |-> c[k]]
  /\ \A k \in ConfigKeys : ValueReads(k, c[k]) \/ c[k] = Defaults[k]

(* A project that can be loaded.                                            *)
Loadable(p) ==
  /\ ReadableModel(p.model)
  /\ Typed(p.config)
  /\ p.dataset \in Datasets
  /\ StopsEarly(p.config) => p.validation \in Datasets
  /\ p.preprocessing \in Preprocessings \cup {Absent}

(* "s" is what a training of the project "p" saves.                         *)
SavedOf(s, p) == s.digests = Digests(p) /\ s.used = Used(p)

SavedInv ==
  /\ saved # Absent => \E p : Loadable(p) /\ SavedOf(saved, p)
  /\ continued # Absent => saved # Absent /\ continued = saved.used

-----------------------------------------------------------------------------
(* What init writes can be read.                                            *)

LEMMA ConfigKeysAre ==
  ConfigKeys =
    {"epochs", "learning_rate", "seed", "loss", "checkpoint_interval",
     "early_stopping_patience", "early_stopping_min_delta", "batch_size",
     "shuffle", "gradient_clip_norm", "l1_regularization",
     "l2_regularization", "regularize_biases", "optimizer", "momentum",
     "adam_beta1", "adam_beta2", "adam_epsilon", "learning_rate_schedule",
     "learning_rate_decay", "learning_rate_step_epochs",
     "learning_rate_plateau_patience", "learning_rate_plateau_min_delta",
     "divergence_threshold", "target_loss", "max_no_improvement_epochs",
     "no_improvement_min_delta"}
  BY DEF ConfigKeys, Defaults

LEMMA KeyReads ==
  ASSUME NEW k, NEW v, ValueReads(k, v)
  PROVE  k \in ConfigKeys
  BY ConfigKeysAre DEF ValueReads, RunReads, BatchReads, OptimizerReads,
     ScheduleReads, ConvergenceReads, EarlyKeys

(* The keys of "K", each once.                                              *)
Listing(s, K) ==
  /\ s \in Seq(ConfigKeys)
  /\ \A i \in 1 .. Len(s) : s[i] \in K
  /\ \A k \in K : \E i \in 1 .. Len(s) : s[i] = k
  /\ \A i, j \in 1 .. Len(s) : s[i] = s[j] => i = j

LEMMA ListingsJoin ==
  ASSUME NEW s, NEW t, NEW K, NEW M, Listing(s, K), Listing(t, M), K \cap M = {}
  PROVE  Listing(s \o t, K \cup M)
<1> DEFINE u == s \o t
           m == Len(s)
           n == Len(t)
<1>1. /\ s \in Seq(ConfigKeys) /\ t \in Seq(ConfigKeys)
      /\ m \in Nat /\ n \in Nat
  BY DEF Listing
<1>2. /\ u \in Seq(ConfigKeys) /\ Len(u) = m + n
      /\ \A i \in 1 .. m + n : u[i] = IF i <= m THEN s[i] ELSE t[i - m]
  BY <1>1, ConcatProperties
<1> HIDE DEF u, m, n
<1>3. \A i \in 1 .. m + n : \/ i \in 1 .. m /\ u[i] = s[i] /\ u[i] \in K
                            \/ /\ i - m \in 1 .. n /\ u[i] = t[i - m]
                               /\ u[i] \in M /\ ~(i <= m)
  <2> TAKE i \in 1 .. m + n
  <2>1. CASE i <= m
    <3>1. i \in 1 .. m
      BY <1>1, <2>1
    <3> QED
      BY <1>2, <2>1, <3>1 DEF Listing, m
  <2>2. CASE ~(i <= m)
    <3>1. i - m \in 1 .. n
      BY <1>1, <2>2
    <3> QED
      BY <1>2, <2>2, <3>1 DEF Listing, n
  <2> QED
    BY <2>1, <2>2
<1>4. \A k \in K \cup M : \E i \in 1 .. m + n : u[i] = k
  <2>1. ASSUME NEW k \in K PROVE \E i \in 1 .. m + n : u[i] = k
    <3>1. PICK i \in 1 .. m : s[i] = k
      BY DEF Listing, m
    <3>2. i \in 1 .. m + n /\ i <= m
      BY <1>1
    <3> QED
      BY <1>2, <3>1, <3>2
  <2>2. ASSUME NEW k \in M PROVE \E i \in 1 .. m + n : u[i] = k
    <3>1. PICK i \in 1 .. n : t[i] = k
      BY DEF Listing, n
    <3>2. i + m \in 1 .. m + n /\ ~(i + m <= m) /\ (i + m) - m = i
      BY <1>1
    <3>3. u[i + m] = k
      BY <1>2, <3>1, <3>2
    <3> QED
      BY <3>2, <3>3
  <2> QED
    BY <2>1, <2>2
<1>5. ASSUME NEW i \in 1 .. m + n, NEW j \in 1 .. m + n, u[i] = u[j]
      PROVE  i = j
  <2>1. ASSUME i \in 1 .. m, u[i] = s[i], j \in 1 .. m, u[j] = s[j]
        PROVE  i = j
    BY <1>5, <2>1 DEF Listing, m
  <2>2. ASSUME i - m \in 1 .. n, u[i] = t[i - m], j - m \in 1 .. n, u[j] = t[j - m]
        PROVE  i = j
    <3>1. i - m = j - m
      BY <1>5, <2>2 DEF Listing, n
    <3> QED
      BY <1>1, <3>1
  <2>3. ~(u[i] \in K /\ u[j] \in M) /\ ~(u[j] \in K /\ u[i] \in M)
    BY <1>5
  <2> QED
    BY <1>3, <2>1, <2>2, <2>3
<1>6. Listing(u, K \cup M)
  BY <1>2, <1>3, <1>4, <1>5 DEF Listing
<1> QED
  BY <1>6 DEF u

LEMMA ListingGiven ==
  ASSUME NEW condition, NEW s, NEW K, Listing(s, K)
  PROVE  Listing(Given(condition, s), IF condition THEN K ELSE {})
<1>1. Listing(<<>>, {})
  BY DEF Listing
<1> QED
  BY <1>1 DEF Given

BasicKeys ==
  {"epochs", "learning_rate", "seed", "loss", "checkpoint_interval",
   "early_stopping_patience", "early_stopping_min_delta", "batch_size",
   "shuffle", "gradient_clip_norm", "l1_regularization",
   "l2_regularization", "regularize_biases", "optimizer"}

BasicList ==
  <<"epochs", "learning_rate", "seed", "loss", "checkpoint_interval",
    "early_stopping_patience", "early_stopping_min_delta", "batch_size",
    "shuffle", "gradient_clip_norm", "l1_regularization",
    "l2_regularization", "regularize_biases", "optimizer">>

LEMMA BasicListing == Listing(BasicList, BasicKeys)
<1>1. BasicList \in Seq(ConfigKeys) /\ Len(BasicList) = 14
  BY ConfigKeysAre DEF BasicList
<1>2. \A i \in 1 .. 14 : BasicList[i] \in BasicKeys
  BY DEF BasicList, BasicKeys
<1>3. \A k \in BasicKeys : \E i \in 1 .. 14 : BasicList[i] = k
  BY DEF BasicList, BasicKeys
<1>4. \A i, j \in 1 .. 14 : BasicList[i] = BasicList[j] => i = j
  BY DEF BasicList
<1> QED
  BY <1>1, <1>2, <1>3, <1>4 DEF Listing

AdamKeys == {"adam_beta1", "adam_beta2", "adam_epsilon"}

PlateauKeys ==
  {"learning_rate_plateau_patience", "learning_rate_plateau_min_delta"}

LastKeys ==
  {"divergence_threshold", "target_loss", "max_no_improvement_epochs",
   "no_improvement_min_delta"}

LEMMA SmallListings ==
  /\ Listing(<<"momentum">>, {"momentum"})
  /\ Listing(<<"adam_beta1", "adam_beta2", "adam_epsilon">>, AdamKeys)
  /\ Listing(<<"learning_rate_schedule">>, {"learning_rate_schedule"})
  /\ Listing(<<"learning_rate_decay">>, {"learning_rate_decay"})
  /\ Listing(<<"learning_rate_step_epochs">>, {"learning_rate_step_epochs"})
  /\ Listing(<<"learning_rate_plateau_patience",
               "learning_rate_plateau_min_delta">>, PlateauKeys)
  /\ Listing(<<"divergence_threshold", "target_loss",
               "max_no_improvement_epochs", "no_improvement_min_delta">>,
             LastKeys)
<1>1. Listing(<<"momentum">>, {"momentum"})
  BY ConfigKeysAre DEF Listing
<1>2. Listing(<<"adam_beta1", "adam_beta2", "adam_epsilon">>, AdamKeys)
  BY ConfigKeysAre DEF Listing, AdamKeys
<1>3. Listing(<<"learning_rate_schedule">>, {"learning_rate_schedule"})
  BY ConfigKeysAre DEF Listing
<1>4. Listing(<<"learning_rate_decay">>, {"learning_rate_decay"})
  BY ConfigKeysAre DEF Listing
<1>5. Listing(<<"learning_rate_step_epochs">>, {"learning_rate_step_epochs"})
  BY ConfigKeysAre DEF Listing
<1>6. Listing(<<"learning_rate_plateau_patience",
                "learning_rate_plateau_min_delta">>, PlateauKeys)
  BY ConfigKeysAre DEF Listing, PlateauKeys
<1>7. Listing(<<"divergence_threshold", "target_loss",
                "max_no_improvement_epochs", "no_improvement_min_delta">>,
              LastKeys)
  BY ConfigKeysAre DEF Listing, LastKeys
<1> QED
  BY <1>1, <1>2, <1>3, <1>4, <1>5, <1>6, <1>7

(* The keys that a written file has.                                        *)
OnlyIf(condition, K) == IF condition THEN K ELSE {}

WrittenSet(c) ==
  BasicKeys
  \cup OnlyIf(c.optimizer = "momentum", {"momentum"})
  \cup OnlyIf(c.optimizer = "adam", AdamKeys)
  \cup {"learning_rate_schedule"}
  \cup OnlyIf(c.learning_rate_schedule # "constant", {"learning_rate_decay"})
  \cup OnlyIf(c.learning_rate_schedule = "step", {"learning_rate_step_epochs"})
  \cup OnlyIf(c.learning_rate_schedule = "plateau", PlateauKeys)
  \cup LastKeys

LEMMA WrittenKeysListing ==
  ASSUME NEW c
  PROVE  Listing(WrittenKeys(c), WrittenSet(c))
<1> DEFINE A == OnlyIf(c.optimizer = "momentum", {"momentum"})
           B == OnlyIf(c.optimizer = "adam", AdamKeys)
           C == OnlyIf(c.learning_rate_schedule # "constant",
                       {"learning_rate_decay"})
           D == OnlyIf(c.learning_rate_schedule = "step",
                       {"learning_rate_step_epochs"})
           E == OnlyIf(c.learning_rate_schedule = "plateau", PlateauKeys)
           a == Given(c.optimizer = "momentum", <<"momentum">>)
           b == Given(c.optimizer = "adam",
                      <<"adam_beta1", "adam_beta2", "adam_epsilon">>)
           s == <<"learning_rate_schedule">>
           S == {"learning_rate_schedule"}
           d == Given(c.learning_rate_schedule # "constant",
                      <<"learning_rate_decay">>)
           e == Given(c.learning_rate_schedule = "step",
                      <<"learning_rate_step_epochs">>)
           f == Given(c.learning_rate_schedule = "plateau",
                      <<"learning_rate_plateau_patience",
                        "learning_rate_plateau_min_delta">>)
           l == <<"divergence_threshold", "target_loss",
                  "max_no_improvement_epochs", "no_improvement_min_delta">>
<1>1. Listing(a, A)
  BY SmallListings, ListingGiven DEF OnlyIf
<1>2. Listing(b, B)
  BY SmallListings, ListingGiven DEF OnlyIf
<1>3. Listing(s, S)
  BY SmallListings
<1>4. Listing(d, C)
  BY SmallListings, ListingGiven DEF OnlyIf
<1>5. Listing(e, D)
  BY SmallListings, ListingGiven DEF OnlyIf
<1>6. Listing(f, E)
  BY SmallListings, ListingGiven DEF OnlyIf
<1>7. Listing(l, LastKeys)
  BY SmallListings
<1>8. /\ A \subseteq {"momentum"} /\ B \subseteq AdamKeys
      /\ C \subseteq {"learning_rate_decay"}
      /\ D \subseteq {"learning_rate_step_epochs"} /\ E \subseteq PlateauKeys
  BY DEF OnlyIf
<1>9. WrittenKeys(c) = ((((((BasicList \o a) \o b) \o s) \o d) \o e) \o f) \o l
  BY DEF WrittenKeys, BasicList
<1>10. WrittenSet(c) =
         ((((((BasicKeys \cup A) \cup B) \cup S) \cup C) \cup D) \cup E)
         \cup LastKeys
  BY DEF WrittenSet
<1> HIDE DEF a, b, s, d, e, f, l, A, B, C, D, E
<1>11. Listing(BasicList \o a, BasicKeys \cup A)
  <2>1. BasicKeys \cap A = {}
    BY <1>8 DEF BasicKeys
  <2> QED
    BY ONLY <1>1, <2>1, BasicListing, ListingsJoin
<1>12. Listing((BasicList \o a) \o b, (BasicKeys \cup A) \cup B)
  <2>1. (BasicKeys \cup A) \cap B = {}
    BY <1>8 DEF BasicKeys, AdamKeys
  <2> QED
    BY ONLY <1>2, <1>11, <2>1, ListingsJoin
<1>13. Listing(((BasicList \o a) \o b) \o s, ((BasicKeys \cup A) \cup B) \cup S)
  <2>1. ((BasicKeys \cup A) \cup B) \cap S = {}
    BY <1>8 DEF BasicKeys, AdamKeys
  <2> QED
    BY ONLY <1>3, <1>12, <2>1, ListingsJoin
<1>14. Listing((((BasicList \o a) \o b) \o s) \o d,
               (((BasicKeys \cup A) \cup B) \cup S) \cup C)
  <2>1. (((BasicKeys \cup A) \cup B) \cup S) \cap C = {}
    BY <1>8 DEF BasicKeys, AdamKeys
  <2> QED
    BY ONLY <1>4, <1>13, <2>1, ListingsJoin
<1>15. Listing(((((BasicList \o a) \o b) \o s) \o d) \o e,
               ((((BasicKeys \cup A) \cup B) \cup S) \cup C) \cup D)
  <2>1. ((((BasicKeys \cup A) \cup B) \cup S) \cup C) \cap D = {}
    BY <1>8 DEF BasicKeys, AdamKeys
  <2> QED
    BY ONLY <1>5, <1>14, <2>1, ListingsJoin
<1>16. Listing((((((BasicList \o a) \o b) \o s) \o d) \o e) \o f,
               (((((BasicKeys \cup A) \cup B) \cup S) \cup C) \cup D) \cup E)
  <2>1. (((((BasicKeys \cup A) \cup B) \cup S) \cup C) \cup D) \cap E = {}
    BY <1>8 DEF BasicKeys, AdamKeys, PlateauKeys
  <2> QED
    BY ONLY <1>6, <1>15, <2>1, ListingsJoin
<1>17. Listing(((((((BasicList \o a) \o b) \o s) \o d) \o e) \o f) \o l,
               ((((((BasicKeys \cup A) \cup B) \cup S) \cup C) \cup D) \cup E)
               \cup LastKeys)
  <2>1. ((((((BasicKeys \cup A) \cup B) \cup S) \cup C) \cup D) \cup E)
        \cap LastKeys = {}
    BY <1>8 DEF BasicKeys, AdamKeys, PlateauKeys, LastKeys
  <2> QED
    BY ONLY <1>7, <1>16, <2>1, ListingsJoin
<1> QED
  BY ONLY <1>9, <1>10, <1>17

(* The keys that a written file does not have.                              *)
LEMMA WrittenSetMisses ==
  ASSUME NEW c
  PROVE  /\ WrittenSet(c) \subseteq ConfigKeys
         /\ RequiredKeys \subseteq WrittenSet(c)
         /\ EarlyKeys \subseteq WrittenSet(c)
         /\ \A k \in ConfigKeys \ WrittenSet(c) :
              \/ k = "momentum" /\ c.optimizer # "momentum"
              \/ k \in AdamKeys /\ c.optimizer # "adam"
              \/ k = "learning_rate_decay" /\ c.learning_rate_schedule = "constant"
              \/ /\ k = "learning_rate_step_epochs"
                 /\ c.learning_rate_schedule # "step"
              \/ k \in PlateauKeys /\ c.learning_rate_schedule # "plateau"
<1>1. /\ OnlyIf(c.optimizer = "momentum", {"momentum"}) \subseteq {"momentum"}
      /\ OnlyIf(c.optimizer = "adam", AdamKeys) \subseteq AdamKeys
      /\ OnlyIf(c.learning_rate_schedule # "constant", {"learning_rate_decay"})
           \subseteq {"learning_rate_decay"}
      /\ OnlyIf(c.learning_rate_schedule = "step", {"learning_rate_step_epochs"})
           \subseteq {"learning_rate_step_epochs"}
      /\ OnlyIf(c.learning_rate_schedule = "plateau", PlateauKeys)
           \subseteq PlateauKeys
  BY DEF OnlyIf
<1>2. WrittenSet(c) \subseteq ConfigKeys
  BY <1>1, ConfigKeysAre DEF WrittenSet, BasicKeys, AdamKeys, PlateauKeys, LastKeys
<1>3. RequiredKeys \subseteq WrittenSet(c) /\ EarlyKeys \subseteq WrittenSet(c)
  BY DEF WrittenSet, BasicKeys, RequiredKeys, EarlyKeys
<1>4. \A k \in ConfigKeys :
        \/ k \in BasicKeys \/ k \in LastKeys \/ k = "learning_rate_schedule"
        \/ k = "momentum" \/ k \in AdamKeys \/ k = "learning_rate_decay"
        \/ k = "learning_rate_step_epochs" \/ k \in PlateauKeys
  BY ConfigKeysAre DEF BasicKeys, AdamKeys, PlateauKeys, LastKeys
<1> QED
  BY <1>2, <1>3, <1>4 DEF WrittenSet, OnlyIf

LEMMA WrittenLines ==
  ASSUME NEW c, Written(c)
  PROVE  LET lines == WriteConfig(c)
             keys == WrittenKeys(c)
         IN  /\ Len(lines) \in Nat /\ DOMAIN lines = 1 .. Len(lines)
             /\ lines = [i \in 1 .. Len(lines) |-> lines[i]]
             /\ \A i \in 1 .. Len(lines) :
                  /\ lines[i] = <<keys[i], c[keys[i]]>>
                  /\ keys[i] \in ConfigKeys
             /\ Stated(lines) = WrittenSet(c)
             /\ Readable(lines)
<1> DEFINE lines == WriteConfig(c)
           keys == WrittenKeys(c)
           n == Len(keys)
           V == {c[k] : k \in ConfigKeys}
<1>1. Listing(keys, WrittenSet(c))
  BY WrittenKeysListing
<1>2. /\ keys \in Seq(ConfigKeys) /\ n \in Nat /\ DOMAIN keys = 1 .. n
      /\ \A i \in 1 .. n : keys[i] \in ConfigKeys
  <2> HIDE DEF keys
  <2>1. keys \in Seq(ConfigKeys)
    BY <1>1 DEF Listing
  <2> QED
    BY <2>1 DEF n
<1>3. lines = [i \in DOMAIN keys |-> <<keys[i], c[keys[i]]>>]
  BY DEF WriteConfig
<1> HIDE DEF lines, keys, n
<1>4. lines = [i \in 1 .. n |-> <<keys[i], c[keys[i]]>>]
  BY <1>2, <1>3
<1>5. /\ DOMAIN lines = 1 .. n
      /\ lines = [i \in 1 .. n |-> lines[i]]
      /\ \A i \in 1 .. n : lines[i] = <<keys[i], c[keys[i]]>>
  BY <1>4
<1>6. Len(lines) = n
  <2>0. \A i \in 1 .. n : keys[i] \in ConfigKeys /\ c[keys[i]] \in V
    BY <1>2
  <2> HIDE DEF V
  <2>1. ASSUME NEW i \in 1 .. n PROVE lines[i] \in ConfigKeys \X V
    <3> DEFINE k == keys[i]
               v == c[keys[i]]
    <3>1. k \in ConfigKeys /\ v \in V /\ lines[i] = <<k, v>>
      BY <1>5, <2>0
    <3> HIDE DEF k, v
    <3> QED
      BY ONLY <3>1
  <2>2. lines \in [1 .. n -> ConfigKeys \X V]
    BY <1>5, <2>1
  <2> QED
    BY ONLY <1>2, <2>2
<1>7. \A i \in 1 .. n : lines[i][1] = keys[i] /\ lines[i][2] = c[keys[i]]
  BY <1>5
<1>8. Stated(lines) = WrittenSet(c)
  <2>1. \A i \in 1 .. n : keys[i] \in WrittenSet(c)
    BY <1>1 DEF Listing, n
  <2>2. \A k \in WrittenSet(c) : \E i \in 1 .. n : keys[i] = k
    BY <1>1 DEF Listing, n
  <2>3. Stated(lines) = {lines[i][1] : i \in 1 .. n}
    BY <1>5 DEF Stated
  <2> QED
    BY ONLY <1>7, <2>1, <2>2, <2>3
<1>9. Acceptable(lines, n)
  <2>1. \A i \in 1 .. n : LineReads(lines[i])
    BY <1>2, <1>7 DEF LineReads, Written
  <2>2. \A i, j \in 1 .. n : keys[i] = keys[j] => i = j
    BY <1>1 DEF Listing, n
  <2>3. \A i, j \in 1 .. n : lines[i][1] = lines[j][1] => i = j
    BY <1>7, <2>2
  <2> QED
    BY <2>1, <2>3 DEF Acceptable
<1>10. RequiredKeys \subseteq Stated(lines) /\ ~HalfEarly(lines)
  BY <1>8, WrittenSetMisses DEF HalfEarly
<1>11. Readable(lines)
  BY <1>6, <1>9, <1>10 DEF Readable
<1> QED
  BY <1>2, <1>5, <1>6, <1>8, <1>11 DEF lines, keys

(* Two configurations that differ in settings that neither makes use of.    *)
Alike(c, d) ==
  /\ \A k \in BasicKeys \cup LastKeys \cup {"learning_rate_schedule"} : c[k] = d[k]
  /\ d.optimizer = "momentum" => c.momentum = d.momentum
  /\ d.optimizer = "adam" => \A k \in AdamKeys : c[k] = d[k]
  /\ d.learning_rate_schedule # "constant" =>
       c.learning_rate_decay = d.learning_rate_decay
  /\ d.learning_rate_schedule = "step" =>
       c.learning_rate_step_epochs = d.learning_rate_step_epochs
  /\ d.learning_rate_schedule = "plateau" =>
       \A k \in PlateauKeys : c[k] = d[k]

LEMMA AlikeFields ==
  ASSUME NEW c, NEW d, Alike(c, d)
  PROVE  /\ c.epochs = d.epochs /\ c.learning_rate = d.learning_rate
         /\ c.seed = d.seed /\ c.loss = d.loss
         /\ c.checkpoint_interval = d.checkpoint_interval
         /\ c.early_stopping_patience = d.early_stopping_patience
         /\ c.early_stopping_min_delta = d.early_stopping_min_delta
         /\ c.batch_size = d.batch_size /\ c.shuffle = d.shuffle
         /\ c.gradient_clip_norm = d.gradient_clip_norm
         /\ c.l1_regularization = d.l1_regularization
         /\ c.l2_regularization = d.l2_regularization
         /\ c.regularize_biases = d.regularize_biases
         /\ c.optimizer = d.optimizer
         /\ c.learning_rate_schedule = d.learning_rate_schedule
         /\ c.divergence_threshold = d.divergence_threshold
         /\ c.target_loss = d.target_loss
         /\ c.max_no_improvement_epochs = d.max_no_improvement_epochs
         /\ c.no_improvement_min_delta = d.no_improvement_min_delta
         /\ c.optimizer = "momentum" => c.momentum = d.momentum
         /\ c.optimizer = "adam" =>
              /\ c.adam_beta1 = d.adam_beta1 /\ c.adam_beta2 = d.adam_beta2
              /\ c.adam_epsilon = d.adam_epsilon
         /\ c.learning_rate_schedule # "constant" =>
              c.learning_rate_decay = d.learning_rate_decay
         /\ c.learning_rate_schedule = "step" =>
              c.learning_rate_step_epochs = d.learning_rate_step_epochs
         /\ c.learning_rate_schedule = "plateau" =>
              /\ c.learning_rate_plateau_patience =
                   d.learning_rate_plateau_patience
              /\ c.learning_rate_plateau_min_delta =
                   d.learning_rate_plateau_min_delta
  BY DEF Alike, BasicKeys, LastKeys, AdamKeys, PlateauKeys

LEMMA AlikeValid ==
  ASSUME NEW c, NEW d, Alike(c, d)
  PROVE  ConfigValid(c) <=> ConfigValid(d)
<1>1. BasicsValid(c) <=> BasicsValid(d)
  BY AlikeFields DEF BasicsValid
<1>2. OptimizerValid(c) <=> OptimizerValid(d)
  BY AlikeFields DEF OptimizerValid
<1>3. ScheduleValid(c) <=> ScheduleValid(d)
  BY AlikeFields DEF ScheduleValid
<1> QED
  BY <1>1, <1>2, <1>3 DEF ConfigValid

LEMMA AlikeUsed ==
  ASSUME NEW c, NEW d, Alike(c, d), NEW dataset, NEW v
  PROVE  /\ UsedByEpochs(c, dataset) = UsedByEpochs(d, dataset)
         /\ UsedByOptimizer(c) = UsedByOptimizer(d)
         /\ UsedByControls(c, v) = UsedByControls(d, v)
<1>1. /\ BatchSize(c, dataset) = BatchSize(d, dataset)
      /\ Regularized(c) <=> Regularized(d)
      /\ StopsEarly(c) <=> StopsEarly(d)
  BY AlikeFields DEF BatchSize, Regularized, StopsEarly
<1>2. UsedByEpochs(c, dataset) = UsedByEpochs(d, dataset)
  BY <1>1, AlikeFields DEF UsedByEpochs, Given
<1>3. UsedByOptimizer(c) = UsedByOptimizer(d)
  BY AlikeFields DEF UsedByOptimizer, Given
<1>4. UsedByControls(c, v) = UsedByControls(d, v)
  BY <1>1, AlikeFields DEF UsedByControls, Given
<1> QED
  BY <1>2, <1>3, <1>4

-----------------------------------------------------------------------------
(* Reading gives the settings that the lines are meant to state.            *)

LEMMA SaysOne ==
  ASSUME NEW lines, NEW n \in Nat, NEW c, NEW d, Says(lines, n, c), Says(lines, n, d)
  PROVE  c = d
<1>1. ASSUME NEW k \in ConfigKeys PROVE c[k] = d[k]
  <2>1. CASE k \in KeysOf(lines, n)
    <3>1. PICK i \in 1 .. n : lines[i][1] = k
      BY <2>1 DEF KeysOf
    <3> QED
      BY <3>1 DEF Says
  <2>2. CASE k \notin KeysOf(lines, n)
    BY <2>2 DEF Says
  <2> QED
    BY <2>1, <2>2
<1>2. c = [k \in ConfigKeys |-> c[k]] /\ d = [k \in ConfigKeys |-> d[k]]
  BY DEF Says
<1> QED
  BY ONLY <1>1, <1>2

LEMMA AlikeItself ==
  ASSUME NEW c
  PROVE  Alike(c, c)
  BY DEF Alike

LEMMA WrittenAlike ==
  ASSUME NEW c, Written(c), NEW d, Says(WriteConfig(c), Len(WriteConfig(c)), d)
  PROVE  Alike(d, c)
<1> DEFINE lines == WriteConfig(c)
           n == Len(lines)
<1>1. /\ n \in Nat /\ DOMAIN lines = 1 .. n
      /\ \A i \in 1 .. n : lines[i][2] = c[lines[i][1]]
      /\ Stated(lines) = WrittenSet(c)
  BY WrittenLines
<1> HIDE DEF lines, n
<1>2. \A k \in WrittenSet(c) : d[k] = c[k]
  <2> TAKE k \in WrittenSet(c)
  <2>1. PICK i \in 1 .. n : lines[i][1] = k
    BY <1>1 DEF Stated
  <2>2. d[lines[i][1]] = lines[i][2]
    BY <2>1 DEF Says, lines, n
  <2> QED
    BY <1>1, <2>1, <2>2
<1>3. \A k \in BasicKeys \cup LastKeys \cup {"learning_rate_schedule"} :
        k \in WrittenSet(c)
  BY DEF WrittenSet
<1>4. c.optimizer = "momentum" => "momentum" \in WrittenSet(c)
  BY DEF WrittenSet, OnlyIf
<1>5. c.optimizer = "adam" => AdamKeys \subseteq WrittenSet(c)
  BY DEF WrittenSet, OnlyIf
<1>6. c.learning_rate_schedule # "constant" =>
        "learning_rate_decay" \in WrittenSet(c)
  BY DEF WrittenSet, OnlyIf
<1>7. c.learning_rate_schedule = "step" =>
        "learning_rate_step_epochs" \in WrittenSet(c)
  BY DEF WrittenSet, OnlyIf
<1>8. c.learning_rate_schedule = "plateau" => PlateauKeys \subseteq WrittenSet(c)
  BY DEF WrittenSet, OnlyIf
<1> QED
  BY <1>2, <1>3, <1>4, <1>5, <1>6, <1>7, <1>8 DEF Alike

LEMMA MeantAlike ==
  ASSUME NEW lines, Len(lines) \in Nat, NEW c, Meant(lines, c),
         NEW d, Says(lines, Len(lines), d)
  PROVE  Alike(d, c)
<1>1. CASE Says(lines, Len(lines), c)
  BY <1>1, SaysOne, AlikeItself
<1>2. CASE lines = WriteConfig(c) /\ Written(c)
  BY <1>2, WrittenAlike
<1> QED
  BY <1>1, <1>2 DEF Meant

LEMMA SaysTyped ==
  ASSUME NEW lines, NEW n \in Nat, NEW c, Acceptable(lines, n), Says(lines, n, c)
  PROVE  Typed(c)
<1>1. ASSUME NEW k \in ConfigKeys PROVE ValueReads(k, c[k]) \/ c[k] = Defaults[k]
  <2>1. CASE k \in KeysOf(lines, n)
    <3>1. PICK i \in 1 .. n : lines[i][1] = k
      BY <2>1 DEF KeysOf
    <3>2. ValueReads(lines[i][1], lines[i][2]) /\ c[lines[i][1]] = lines[i][2]
      BY DEF Says, Acceptable, LineReads
    <3> QED
      BY <3>1, <3>2
  <2>2. CASE k \notin KeysOf(lines, n)
    BY <2>2 DEF Says
  <2> QED
    BY <2>1, <2>2
<1>2. c = [k \in ConfigKeys |-> c[k]]
  BY DEF Says
<1> QED
  BY <1>1, <1>2 DEF Typed

LEMMA CompletedReadable ==
  ASSUME NEW lines, NEW c
  PROVE  Acceptable(lines, Len(lines)) /\ Completed(lines, c) <=>
           Readable(lines) /\ ConfigValid(c)
  BY DEF Completed, Readable, HalfEarly

(* A file that can be read is read as a configuration like the one that it  *)
(* is meant to state, or is refused when that is invalid.                   *)
LEMMA MeantRead ==
  ASSUME NEW lines, Len(lines) \in Nat, DOMAIN lines = 1 .. Len(lines)
  PROVE  LET r == ReadConfig(lines)
         IN  /\ r.ok \in BOOLEAN
             /\ r.ok => Readable(lines) /\ Typed(r.config) /\ ConfigValid(r.config)
             /\ Readable(lines) =>
                  \A c : Meant(lines, c) =>
                    /\ r.ok <=> ConfigValid(c)
                    /\ r.ok => Alike(r.config, c)
<1> DEFINE r == ReadConfig(lines)
           N == Len(lines)
<1>1. /\ r.ok => /\ Acceptable(lines, N)
                 /\ Says(lines, N, r.config)
                 /\ Completed(lines, r.config)
      /\ r.ok \in BOOLEAN
      /\ Acceptable(lines, N) =>
           \E c : Says(lines, N, c) /\ (r.ok <=> Completed(lines, c))
  BY ConfigRead
<1> HIDE DEF r
<1>2. r.ok => Readable(lines) /\ Typed(r.config) /\ ConfigValid(r.config)
  BY <1>1, CompletedReadable, SaysTyped
<1>3. ASSUME Readable(lines), NEW c, Meant(lines, c)
      PROVE  (r.ok <=> ConfigValid(c)) /\ (r.ok => Alike(r.config, c))
  <2>1. Acceptable(lines, N)
    BY <1>3 DEF Readable
  <2>2. PICK d : Says(lines, N, d) /\ (r.ok <=> Completed(lines, d))
    BY <1>1, <2>1
  <2>3. Alike(d, c)
    BY <1>3, <2>2, MeantAlike
  <2>4. r.ok <=> ConfigValid(d)
    BY <1>3, <2>1, <2>2, CompletedReadable
  <2>5. ConfigValid(d) <=> ConfigValid(c)
    BY <2>3, AlikeValid
  <2>6. r.ok => r.config = d
    BY <1>1, <2>2, SaysOne
  <2> QED
    BY <2>3, <2>4, <2>5, <2>6
<1> QED
  BY <1>1, <1>2, <1>3 DEF r

-----------------------------------------------------------------------------
(* Edits of project.conf.                                                   *)

(* "Restated" when "c" is what the lines were meant to state.               *)
RestatedAs(c, lines, line) ==
  [k \in ConfigKeys |->
     IF k = line[1] THEN line[2]
     ELSE IF k \in Stated(lines) THEN c[k]
     ELSE Defaults[k]]

LEMMA Restates ==
  ASSUME NEW t, Len(t) \in Nat, DOMAIN t = 1 .. Len(t), NEW line, NEW c,
         Acceptable(t, Len(t)),
         \A i \in 1 .. Len(t) :
           t[i] = line \/ (t[i][1] # line[1] /\ c[t[i][1]] = t[i][2]),
         line[1] \in Stated(t) \/ line[1] \notin ConfigKeys
  PROVE  Says(t, Len(t), RestatedAs(c, t, line))
<1> DEFINE d == RestatedAs(c, t, line)
           N == Len(t)
<1>1. /\ d = [k \in ConfigKeys |-> d[k]]
      /\ \A k \in ConfigKeys :
           d[k] = IF k = line[1] THEN line[2]
                  ELSE IF k \in Stated(t) THEN c[k] ELSE Defaults[k]
  BY DEF RestatedAs
<1> HIDE DEF d
<1>2. ASSUME NEW i \in 1 .. N PROVE d[t[i][1]] = t[i][2]
  <2>1. t[i][1] \in ConfigKeys /\ t[i][1] \in Stated(t)
    BY DEF Acceptable, LineReads, Stated
  <2>2. t[i] = line \/ (t[i][1] # line[1] /\ c[t[i][1]] = t[i][2])
    OBVIOUS
  <2> QED
    BY <1>1, <2>1, <2>2
<1>3. ASSUME NEW k \in ConfigKeys, k \notin KeysOf(t, N) PROVE d[k] = Defaults[k]
  <2>1. k \notin Stated(t)
    BY <1>3 DEF KeysOf, Stated
  <2> QED
    BY <1>1, <2>1
<1>4. Says(t, N, d)
  BY <1>1, <1>2, <1>3 DEF Says
<1> QED
  BY <1>4 DEF d

LEMMA MeantAgrees ==
  ASSUME NEW lines, NEW c, Meant(lines, c), NEW i \in 1 .. Len(lines)
  PROVE  c[lines[i][1]] = lines[i][2]
<1>1. CASE Says(lines, Len(lines), c)
  BY <1>1 DEF Says
<1>2. CASE lines = WriteConfig(c) /\ Written(c)
  <2>1. i \in 1 .. Len(WriteConfig(c))
    BY <1>2
  <2> QED
    BY <1>2, <2>1, WrittenLines
<1> QED
  BY <1>1, <1>2 DEF Meant

(* Line "place" of "t" is "line", which is the only one of its key; the     *)
(* others are those of "s".                                                 *)
Edited(s, t, place, line) ==
  /\ Len(s) \in Nat /\ DOMAIN s = 1 .. Len(s)
  /\ Len(t) \in Nat /\ DOMAIN t = 1 .. Len(t)
  /\ place \in 1 .. Len(t) /\ t[place] = line
  /\ \A j \in 1 .. Len(t) : j # place =>
       j \in 1 .. Len(s) /\ t[j] = s[j] /\ s[j][1] # line[1]
  /\ Stated(s) \subseteq Stated(t)

LEMMA EditedReadable ==
  ASSUME NEW s, NEW t, NEW place, NEW line, Edited(s, t, place, line), Readable(s)
  PROVE  Readable(t) <=> ValueReads(line[1], line[2]) /\ ~HalfEarly(t)
<1>1. ASSUME Readable(t) PROVE ValueReads(line[1], line[2]) /\ ~HalfEarly(t)
  BY <1>1 DEF Edited, Readable, Acceptable, LineReads
<1>2. ASSUME ValueReads(line[1], line[2]), ~HalfEarly(t) PROVE Readable(t)
  <2>1. ASSUME NEW i \in 1 .. Len(t) PROVE LineReads(t[i])
    <3>1. CASE i = place
      BY <1>2, <3>1, KeyReads DEF Edited, LineReads
    <3>2. CASE i # place
      <4>1. i \in 1 .. Len(s) /\ t[i] = s[i]
        BY <3>2 DEF Edited
      <4> QED
        BY <4>1 DEF Readable, Acceptable
    <3> QED
      BY <3>1, <3>2
  <2>2. ASSUME NEW i \in 1 .. Len(t), NEW j \in 1 .. Len(t), t[i][1] = t[j][1]
        PROVE  i = j
    <3>1. CASE i = place \/ j = place
      BY <2>2, <3>1 DEF Edited
    <3>2. CASE i # place /\ j # place
      <4>1. /\ i \in 1 .. Len(s) /\ t[i] = s[i]
            /\ j \in 1 .. Len(s) /\ t[j] = s[j]
        BY <3>2 DEF Edited
      <4> QED
        BY <2>2, <4>1 DEF Readable, Acceptable
    <3> QED
      BY <3>1, <3>2
  <2>3. Acceptable(t, Len(t))
    BY <2>1, <2>2 DEF Acceptable
  <2>4. RequiredKeys \subseteq Stated(t)
    BY DEF Edited, Readable
  <2> QED
    BY <1>2, <2>3, <2>4 DEF Readable
<1> QED
  BY <1>1, <1>2

LEMMA EditedMeant ==
  ASSUME NEW s, NEW t, NEW place, NEW line, Edited(s, t, place, line), Readable(t),
         NEW c, Meant(s, c)
  PROVE  Says(t, Len(t), RestatedAs(c, t, line))
<1>1. ASSUME NEW i \in 1 .. Len(t)
      PROVE  t[i] = line \/ (t[i][1] # line[1] /\ c[t[i][1]] = t[i][2])
  <2>1. CASE i = place
    BY <2>1 DEF Edited
  <2>2. CASE i # place
    <3>1. i \in 1 .. Len(s) /\ t[i] = s[i] /\ s[i][1] # line[1]
      BY <2>2 DEF Edited
    <3>2. c[s[i][1]] = s[i][2]
      BY <3>1, MeantAgrees
    <3> QED
      BY <3>1, <3>2
  <2> QED
    BY <2>1, <2>2
<1>2. Acceptable(t, Len(t)) /\ Len(t) \in Nat /\ DOMAIN t = 1 .. Len(t)
  BY DEF Readable, Edited
<1>3. line[1] \in Stated(t)
  BY DEF Edited, Stated
<1> QED
  BY <1>1, <1>2, <1>3, Restates

(* The lines of "t" are lines of "s", each at most once.                    *)
Rearranged(s, t, places) ==
  /\ Len(s) \in Nat /\ DOMAIN s = 1 .. Len(s)
  /\ Len(t) \in Nat /\ DOMAIN t = 1 .. Len(t)
  /\ \A j \in 1 .. Len(t) : places[j] \in 1 .. Len(s) /\ t[j] = s[places[j]]
  /\ \A i, j \in 1 .. Len(t) : places[i] = places[j] => i = j

LEMMA RearrangedAcceptable ==
  ASSUME NEW s, NEW t, NEW places, Rearranged(s, t, places),
         Acceptable(s, Len(s))
  PROVE  Acceptable(t, Len(t))
<1>1. ASSUME NEW i \in 1 .. Len(t) PROVE LineReads(t[i])
  BY DEF Rearranged, Acceptable
<1>2. ASSUME NEW i \in 1 .. Len(t), NEW j \in 1 .. Len(t), t[i][1] = t[j][1]
      PROVE  i = j
  <2>1. /\ places[i] \in 1 .. Len(s) /\ t[i] = s[places[i]]
        /\ places[j] \in 1 .. Len(s) /\ t[j] = s[places[j]]
    BY DEF Rearranged
  <2>2. places[i] = places[j]
    BY <1>2, <2>1 DEF Acceptable
  <2> QED
    BY <2>2 DEF Rearranged
<1> QED
  BY <1>1, <1>2 DEF Acceptable

LEMMA RearrangedMeant ==
  ASSUME NEW s, NEW t, NEW places, Rearranged(s, t, places),
         Acceptable(s, Len(s)), NEW c, Meant(s, c)
  PROVE  Says(t, Len(t), RestatedAs(c, t, <<"none", 0>>))
<1> DEFINE line == <<"none", 0>>
<1>1. line[1] \notin ConfigKeys
  BY ConfigKeysAre
<1>2. Acceptable(t, Len(t)) /\ Len(t) \in Nat /\ DOMAIN t = 1 .. Len(t)
  BY RearrangedAcceptable DEF Rearranged
<1> HIDE DEF line
<1>3. ASSUME NEW i \in 1 .. Len(t)
      PROVE  t[i][1] # line[1] /\ c[t[i][1]] = t[i][2]
  <2>1. places[i] \in 1 .. Len(s) /\ t[i] = s[places[i]]
    BY DEF Rearranged
  <2>2. c[s[places[i]][1]] = s[places[i]][2]
    BY <2>1, MeantAgrees
  <2>3. t[i][1] \in ConfigKeys
    BY <1>2 DEF Acceptable, LineReads
  <2> QED
    BY <1>1, <2>1, <2>2, <2>3
<1>4. Says(t, Len(t), RestatedAs(c, t, line))
  BY <1>1, <1>2, <1>3, Restates
<1> QED
  BY <1>4 DEF line

(* Line "j" of the lines without line "i".                                  *)
PlaceWithout(i, j) == IF j < i THEN j ELSE j + 1

Without(s, i, t) ==
  /\ Len(t) = Len(s) - 1 /\ Len(t) \in Nat
  /\ \A j \in 1 .. Len(t) :
       /\ PlaceWithout(i, j) \in 1 .. Len(s)
       /\ PlaceWithout(i, j) # i
       /\ t[j] = s[PlaceWithout(i, j)]
  /\ \A j \in 1 .. Len(s) : j # i =>
       \E k \in 1 .. Len(t) : PlaceWithout(i, k) = j

LEMMA LineRemoved ==
  ASSUME NEW S, NEW s \in Seq(S), NEW i \in 1 .. Len(s)
  PROVE  RemoveAt(s, i) \in Seq(S) /\ Without(s, i, RemoveAt(s, i))
<1> DEFINE n == Len(s)
           a == SubSeq(s, 1, i - 1)
           b == SubSeq(s, i + 1, n)
           t == a \o b
<1>1. n \in Nat /\ i \in 1 .. n /\ \A j \in 1 .. n : s[j] \in S
  OBVIOUS
<1>2. a \in Seq(S) /\ Len(a) = i - 1 /\ \A j \in 1 .. i - 1 : a[j] = s[j]
  <2>1. 1 \in Int /\ i - 1 \in Int /\ \A j \in 1 .. i - 1 : s[j] \in S
    BY <1>1
  <2>2. /\ a \in Seq(S) /\ Len(a) = (IF 1 <= i - 1 THEN (i - 1) - 1 + 1 ELSE 0)
        /\ \A j \in 1 .. (i - 1) - 1 + 1 : a[j] = s[1 + j - 1]
    BY <2>1, SubSeqProperties
  <2>3. /\ (IF 1 <= i - 1 THEN (i - 1) - 1 + 1 ELSE 0) = i - 1
        /\ (i - 1) - 1 + 1 = i - 1
        /\ \A j \in 1 .. i - 1 : 1 + j - 1 = j
    BY <1>1
  <2> HIDE DEF a
  <2> QED
    BY <2>2, <2>3
<1>3. b \in Seq(S) /\ Len(b) = n - i /\ \A j \in 1 .. n - i : b[j] = s[i + j]
  <2>1. i + 1 \in Int /\ n \in Int /\ \A j \in i + 1 .. n : s[j] \in S
    BY <1>1
  <2>2. /\ b \in Seq(S) /\ Len(b) = (IF i + 1 <= n THEN n - (i + 1) + 1 ELSE 0)
        /\ \A j \in 1 .. n - (i + 1) + 1 : b[j] = s[(i + 1) + j - 1]
    BY <2>1, SubSeqProperties
  <2>3. /\ (IF i + 1 <= n THEN n - (i + 1) + 1 ELSE 0) = n - i
        /\ n - (i + 1) + 1 = n - i
        /\ \A j \in 1 .. n - i : (i + 1) + j - 1 = i + j
    BY <1>1
  <2> HIDE DEF b
  <2> QED
    BY <2>2, <2>3
<1> HIDE DEF a, b
<1>4. /\ t \in Seq(S) /\ Len(t) = n - 1 /\ n - 1 \in Nat
      /\ \A j \in 1 .. n - 1 :
           t[j] = IF j <= i - 1 THEN a[j] ELSE b[j - (i - 1)]
  <2>1. /\ t \in Seq(S) /\ Len(t) = Len(a) + Len(b)
        /\ \A j \in 1 .. Len(a) + Len(b) :
             t[j] = IF j <= Len(a) THEN a[j] ELSE b[j - Len(a)]
    BY <1>2, <1>3, ConcatProperties
  <2>2. (i - 1) + (n - i) = n - 1 /\ n - 1 \in Nat
    BY <1>1
  <2> HIDE DEF t
  <2> QED
    BY <1>2, <1>3, <2>1, <2>2
<1> HIDE DEF t, n
<1>5. ASSUME NEW j \in 1 .. n - 1
      PROVE  /\ PlaceWithout(i, j) \in 1 .. n /\ PlaceWithout(i, j) # i
             /\ t[j] = s[PlaceWithout(i, j)]
  <2>1. CASE j < i
    <3>1. j \in 1 .. i - 1 /\ j <= i - 1 /\ PlaceWithout(i, j) = j /\ j \in 1 .. n
      BY <1>1, <2>1 DEF PlaceWithout
    <3> QED
      BY <1>1, <1>2, <1>4, <2>1, <3>1
  <2>2. CASE ~(j < i)
    <3>1. /\ j - (i - 1) \in 1 .. n - i /\ ~(j <= i - 1)
          /\ PlaceWithout(i, j) = j + 1 /\ i + (j - (i - 1)) = j + 1
          /\ j + 1 \in 1 .. n /\ j + 1 # i
      BY <1>1, <2>2 DEF PlaceWithout
    <3> QED
      BY <1>3, <1>4, <3>1
  <2> QED
    BY <2>1, <2>2
<1>6. ASSUME NEW j \in 1 .. n, j # i
      PROVE  \E k \in 1 .. n - 1 : PlaceWithout(i, k) = j
  <2>1. CASE j < i
    <3>1. j \in 1 .. n - 1 /\ PlaceWithout(i, j) = j
      BY <1>1, <2>1 DEF PlaceWithout
    <3> QED
      BY <3>1
  <2>2. CASE ~(j < i)
    <3>1. j - 1 \in 1 .. n - 1 /\ PlaceWithout(i, j - 1) = j
      BY <1>1, <1>6, <2>2 DEF PlaceWithout
    <3> QED
      BY <3>1
  <2> QED
    BY <2>1, <2>2
<1>7. RemoveAt(s, i) = t
  BY DEF RemoveAt, t, a, b, n
<1>8. Without(s, i, t)
  BY <1>4, <1>5, <1>6 DEF Without, n
<1> QED
  BY <1>4, <1>7, <1>8

Rearranges(s, t) == \E places : Rearranged(s, t, places)

LEMMA RemovedRearranges ==
  ASSUME NEW S, NEW s \in Seq(S), NEW i \in 1 .. Len(s)
  PROVE  /\ Rearranges(s, RemoveAt(s, i))
         /\ Rearranges(s, Append(RemoveAt(s, i), s[i]))
         /\ Acceptable(s, Len(s)) =>
              Stated(RemoveAt(s, i)) = Stated(s) \ {s[i][1]}
         /\ Stated(Append(RemoveAt(s, i), s[i])) = Stated(s)
<1> DEFINE t == RemoveAt(s, i)
           n == Len(s)
           e == s[i]
           u == Append(t, e)
           p == [j \in 1 .. n |-> IF j = n THEN i ELSE PlaceWithout(i, j)]
<1>1. /\ t \in Seq(S) /\ Len(t) = n - 1 /\ n \in Nat /\ n - 1 \in Nat
      /\ DOMAIN s = 1 .. n
      /\ \A j \in 1 .. n - 1 : /\ PlaceWithout(i, j) \in 1 .. n
                               /\ PlaceWithout(i, j) # i
                               /\ t[j] = s[PlaceWithout(i, j)]
      /\ \A j \in 1 .. n : j # i =>
           \E k \in 1 .. n - 1 : PlaceWithout(i, k) = j
  <2>1. /\ t \in Seq(S) /\ Len(t) = Len(s) - 1 /\ Len(t) \in Nat
        /\ \A j \in 1 .. Len(t) : /\ PlaceWithout(i, j) \in 1 .. Len(s)
                                  /\ PlaceWithout(i, j) # i
                                  /\ t[j] = s[PlaceWithout(i, j)]
        /\ \A j \in 1 .. Len(s) : j # i =>
             \E k \in 1 .. Len(t) : PlaceWithout(i, k) = j
    <3>1. t \in Seq(S) /\ Without(s, i, t)
      BY LineRemoved
    <3> HIDE DEF t
    <3> QED
      BY <3>1 DEF Without
  <2> HIDE DEF t
  <2>2. n \in Nat /\ DOMAIN s = 1 .. n
    OBVIOUS
  <2>3. Len(t) = n - 1 /\ n - 1 \in Nat
    BY <2>1
  <2> HIDE DEF n
  <2> QED
    BY <2>1, <2>2, <2>3 DEF n
<1> HIDE DEF t
<1>2. e \in S
  OBVIOUS
<1> HIDE DEF e
<1>3. /\ u \in Seq(S) /\ Len(u) = n /\ u[n] = e
      /\ \A j \in 1 .. n - 1 : u[j] = t[j]
  <2>1. /\ u \in Seq(S) /\ Len(u) = Len(t) + 1 /\ u[Len(t) + 1] = e
        /\ \A j \in 1 .. Len(t) : u[j] = t[j]
    BY <1>1, <1>2, AppendProperties
  <2>2. (n - 1) + 1 = n
    BY <1>1
  <2> HIDE DEF u
  <2> QED
    BY <1>1, <2>1, <2>2
<1> HIDE DEF u, n
<1>4. DOMAIN t = 1 .. n - 1 /\ DOMAIN u = 1 .. n
  BY <1>1, <1>3
<1>5. \A j \in 1 .. n : j = n \/ (j \in 1 .. n - 1 /\ j # n)
  BY <1>1
<1>6. \A j \in 1 .. n : p[j] = IF j = n THEN i ELSE PlaceWithout(i, j)
  OBVIOUS
<1> HIDE DEF p
<1>7. ASSUME NEW j \in 1 .. n PROVE p[j] \in 1 .. n /\ u[j] = s[p[j]]
  BY <1>1, <1>3, <1>5, <1>6 DEF e, n
<1>8. ASSUME NEW j \in 1 .. n, NEW k \in 1 .. n, p[j] = p[k] PROVE j = k
  <2>1. CASE j = n \/ k = n
    BY <1>1, <1>5, <1>6, <1>8, <2>1
  <2>2. CASE j # n /\ k # n
    <3>1. PlaceWithout(i, j) = PlaceWithout(i, k)
      BY <1>6, <1>8, <2>2
    <3> QED
      BY <1>1, <3>1 DEF PlaceWithout, n
  <2> QED
    BY <2>1, <2>2
<1>9. Rearranged(s, u, p)
  BY <1>1, <1>3, <1>4, <1>7, <1>8 DEF Rearranged, n
<1>10. Rearranged(s, t, p)
  <2>1. \A j \in 1 .. n - 1 : j \in 1 .. n /\ j # n
    BY <1>1
  <2>2. \A j \in 1 .. n - 1 : p[j] \in 1 .. n /\ t[j] = s[p[j]]
    BY <1>3, <1>7, <2>1
  <2>3. \A j, k \in 1 .. n - 1 : p[j] = p[k] => j = k
    BY <1>8, <2>1
  <2> QED
    BY <1>1, <1>4, <2>2, <2>3 DEF Rearranged, n
<1>11. Rearranges(s, t) /\ Rearranges(s, u)
  BY <1>9, <1>10, Zenon DEF Rearranges
<1>12. ASSUME Acceptable(s, n) PROVE Stated(t) = Stated(s) \ {e[1]}
  <2>1. ASSUME NEW j \in 1 .. n - 1
        PROVE  t[j][1] \in Stated(s) /\ t[j][1] # e[1]
    <3>1. /\ PlaceWithout(i, j) \in 1 .. n /\ PlaceWithout(i, j) # i
          /\ t[j] = s[PlaceWithout(i, j)] /\ i \in 1 .. n
      BY <1>1 DEF n
    <3>2. s[PlaceWithout(i, j)][1] # s[i][1]
      BY <1>12, <3>1, Zenon DEF Acceptable
    <3>3. s[PlaceWithout(i, j)][1] \in Stated(s)
      BY <1>1, <3>1 DEF Stated
    <3> QED
      BY <3>1, <3>2, <3>3 DEF e
  <2>2. ASSUME NEW j \in 1 .. n, s[j][1] # e[1] PROVE s[j][1] \in Stated(t)
    <3>1. j # i
      BY <2>2 DEF e
    <3>2. PICK k \in 1 .. n - 1 : PlaceWithout(i, k) = j
      BY <1>1, <3>1
    <3>3. t[k] = s[j]
      BY <1>1, <3>2
    <3> QED
      BY <1>4, <3>2, <3>3 DEF Stated
  <2>3. Stated(t) = {t[j][1] : j \in 1 .. n - 1}
    BY <1>4 DEF Stated
  <2>4. Stated(s) = {s[j][1] : j \in 1 .. n}
    BY <1>1 DEF Stated
  <2>5. Stated(t) \subseteq Stated(s) \ {e[1]}
    BY <2>1, <2>3
  <2>6. Stated(s) \ {e[1]} \subseteq Stated(t)
    BY <2>2, <2>4
  <2> QED
    BY <2>5, <2>6
<1>13. Stated(u) = Stated(s)
  <2>1. ASSUME NEW j \in 1 .. n PROVE s[j][1] \in Stated(u)
    <3>1. CASE j = i
      <4>1. u[n] = s[j] /\ n \in 1 .. n
        BY <1>1, <1>3, <3>1 DEF e, n
      <4> QED
        BY <1>4, <4>1 DEF Stated
    <3>2. CASE j # i
      <4>1. PICK k \in 1 .. n - 1 : PlaceWithout(i, k) = j
        BY <1>1, <3>2
      <4>2. u[k] = s[j] /\ k \in 1 .. n
        BY <1>1, <1>3, <4>1
      <4> QED
        BY <1>4, <4>2 DEF Stated
    <3> QED
      BY <3>1, <3>2
  <2>2. Stated(u) = {u[j][1] : j \in 1 .. n}
    BY <1>4 DEF Stated
  <2>3. Stated(s) = {s[j][1] : j \in 1 .. n}
    BY <1>1 DEF Stated
  <2>4. Stated(u) \subseteq Stated(s)
    BY <1>7, <2>2, <2>3
  <2>5. Stated(s) \subseteq Stated(u)
    BY <2>1, <2>3
  <2> QED
    BY <2>4, <2>5
<1> QED
  BY <1>11, <1>12, <1>13 DEF t, u, e, n

LEMMA RearrangesTwice ==
  ASSUME NEW s, NEW t, NEW u, Rearranges(s, t), Rearranges(t, u)
  PROVE  Rearranges(s, u)
<1>1. PICK p : Rearranged(s, t, p)
  BY DEF Rearranges
<1>2. PICK q : Rearranged(t, u, q)
  BY DEF Rearranges
<1> DEFINE r == [j \in 1 .. Len(u) |-> p[q[j]]]
<1>3. \A j \in 1 .. Len(u) : r[j] = p[q[j]]
  OBVIOUS
<1> HIDE DEF r
<1>4. \A j \in 1 .. Len(u) : /\ q[j] \in 1 .. Len(t) /\ u[j] = t[q[j]]
                             /\ p[q[j]] \in 1 .. Len(s) /\ t[q[j]] = s[p[q[j]]]
  BY <1>1, <1>2 DEF Rearranged
<1>5. ASSUME NEW i \in 1 .. Len(u), NEW j \in 1 .. Len(u), r[i] = r[j]
      PROVE  i = j
  <2>1. p[q[i]] = p[q[j]]
    BY ONLY <1>3, <1>5
  <2>2. \A k, l \in 1 .. Len(t) : p[k] = p[l] => k = l
    BY <1>1 DEF Rearranged
  <2>3. q[i] = q[j]
    BY <1>4, <2>1, <2>2, Zenon
  <2> QED
    BY <1>2, <2>3 DEF Rearranged
<1>6. Rearranged(s, u, r)
  BY <1>1, <1>2, <1>3, <1>4, <1>5 DEF Rearranged
<1> QED
  BY <1>6 DEF Rearranges

-----------------------------------------------------------------------------
(* The edits keep the invariant about project.conf.                         *)

(* ConfInv of given values.                                                 *)
ConfHolds(lines, c, spoilt) ==
  /\ lines \in Seq(Lines)
  /\ c = [k \in ConfigKeys |-> c[k]]
  /\ ~spoilt <=> Readable(lines)
  /\ ~spoilt => Meant(lines, c)

LEMMA ConfHoldsIs ==
  /\ ConfInv <=> ConfHolds(conf, asked.config, "conf" \in spoiled)
  /\ ConfInv' <=> ConfHolds(conf', asked'.config, "conf" \in spoiled')
  BY DEF ConfInv, ConfHolds, Readable, Acceptable, LineReads, Meant, Says,
     Written, HalfEarly, Stated, KeysOf

LEMMA LinesAre ==
  ASSUME NEW lines \in Seq(Lines)
  PROVE  /\ Len(lines) \in Nat /\ DOMAIN lines = 1 .. Len(lines)
         /\ \A i \in 1 .. Len(lines) : lines[i] \in Lines
<1> HIDE DEF Lines
<1> QED
  OBVIOUS

LEMMA RestatedIs ==
  ASSUME NEW lines, NEW line
  PROVE  Restated(lines, line) = RestatedAs(asked.config, lines, line)
  BY DEF Restated, RestatedAs

LEMMA RestatedTyped ==
  ASSUME NEW c, NEW lines, NEW line
  PROVE  RestatedAs(c, lines, line) =
           [k \in ConfigKeys |-> RestatedAs(c, lines, line)[k]]
  BY DEF RestatedAs

(* A line in the place of one, or after the last, of another key.           *)
LEMMA LineWritten ==
  ASSUME NEW s \in Seq(Lines), Readable(s), NEW line \in Offered, NEW t,
         IF line[1] \in Stated(s)
           THEN \E i \in DOMAIN s :
                  s[i][1] = line[1] /\ t = [s EXCEPT ![i] = line]
           ELSE t = Append(s, line)
  PROVE  t \in Seq(Lines) /\ \E place : Edited(s, t, place, line)
<1> DEFINE n == Len(s)
<1>1. n \in Nat /\ DOMAIN s = 1 .. n
  BY LinesAre
<1>2. line \in Lines
  BY DEF Lines
<1>3. \A i, j \in 1 .. n : s[i][1] = s[j][1] => i = j
  BY DEF Readable, Acceptable
<1>4. Stated(s) = {s[i][1] : i \in 1 .. n}
  BY <1>1 DEF Stated
<1> HIDE DEF n
<1>5. CASE line[1] \in Stated(s)
  <2>1. PICK i \in 1 .. n : s[i][1] = line[1] /\ t = [s EXCEPT ![i] = line]
    BY <1>1, <1>5
  <2>2. /\ t \in Seq(Lines) /\ Len(t) = n
        /\ \A j \in 1 .. n : t[j] = IF j = i THEN line ELSE s[j]
    <3> DEFINE e == [s EXCEPT ![i] = line]
    <3>1. /\ e \in Seq(Lines) /\ Len(e) = Len(s)
          /\ \A j \in 1 .. Len(s) : e[j] = IF j = i THEN line ELSE s[j]
      BY <1>2, ExceptSeq DEF n
    <3> HIDE DEF e
    <3> QED
      BY <2>1, <3>1 DEF e, n
  <2>3. DOMAIN t = 1 .. n
    BY <2>2, LinesAre
  <2>4. t[i] = line
    BY <2>2
  <2>5. \A j \in 1 .. n : j # i => t[j] = s[j] /\ s[j][1] # line[1]
    BY <1>3, <2>1, <2>2
  <2>6. \A j \in 1 .. n : t[j][1] = s[j][1]
    BY <2>1, <2>2
  <2>7. Stated(s) \subseteq Stated(t)
    <3>1. Stated(t) = {t[j][1] : j \in 1 .. n}
      BY <2>3 DEF Stated
    <3> QED
      BY ONLY <1>4, <2>6, <3>1
  <2>8. Edited(s, t, i, line)
    <3>1. /\ Len(s) = n /\ Len(t) = n /\ n \in Nat
          /\ DOMAIN s = 1 .. n /\ DOMAIN t = 1 .. n /\ i \in 1 .. n
      BY <1>1, <2>2, <2>3 DEF n
    <3>2. \A j \in 1 .. n : j # i =>
            j \in 1 .. n /\ t[j] = s[j] /\ s[j][1] # line[1]
      BY <2>5
    <3> QED
      BY ONLY <2>4, <2>7, <3>1, <3>2 DEF Edited
  <2> QED
    BY <2>2, <2>8
<1>6. CASE line[1] \notin Stated(s)
  <2>1. /\ t \in Seq(Lines) /\ Len(t) = n + 1 /\ t[n + 1] = line
        /\ \A j \in 1 .. n : t[j] = s[j]
    <3>1. t = Append(s, line)
      BY <1>6
    <3> QED
      BY <1>2, <3>1, AppendProperties DEF n
  <2>2. DOMAIN t = 1 .. n + 1 /\ n + 1 \in Nat /\ n + 1 \in 1 .. n + 1
    BY <1>1, <2>1, LinesAre
  <2>3. \A j \in 1 .. n + 1 : j # n + 1 => j \in 1 .. n
    BY <1>1
  <2>4. \A j \in 1 .. n : t[j] = s[j] /\ s[j][1] # line[1]
    BY <1>4, <1>6, <2>1
  <2>5. \A j \in 1 .. n : j \in 1 .. n + 1
    BY <1>1
  <2>6. Stated(s) \subseteq Stated(t)
    BY <1>4, <2>2, <2>4, <2>5 DEF Stated
  <2>7. Edited(s, t, n + 1, line)
    <3>1. \A j \in 1 .. n + 1 : j # n + 1 =>
            j \in 1 .. n /\ t[j] = s[j] /\ s[j][1] # line[1]
      BY <2>3, <2>4
    <3> DEFINE place == n + 1
    <3>2. /\ Len(t) = place /\ DOMAIN t = 1 .. place /\ place \in Nat
          /\ place \in 1 .. place /\ t[place] = line
      BY <2>1, <2>2
    <3> HIDE DEF place
    <3>3. Edited(s, t, place, line)
      BY <1>1, <2>6, <3>1, <3>2 DEF Edited, n, place
    <3> QED
      BY <3>3 DEF place
  <2> QED
    BY <2>1, <2>7
<1> QED
  BY <1>5, <1>6

LEMMA WriteLineKeeps ==
  ASSUME ConfInv, RestInv, NEW line \in Offered, WriteLine(line)
  PROVE  ConfInv'
<1> DEFINE s == conf
           t == conf'
           c == asked.config
           d == asked'.config
           here == "conf" \in spoiled
           there == "conf" \in spoiled'
<1>1. /\ ~here
      /\ IF line[1] \in Stated(s)
           THEN \E i \in DOMAIN s :
                  s[i][1] = line[1] /\ t = [s EXCEPT ![i] = line]
           ELSE t = Append(s, line)
  BY DEF WriteLine, EditConf
<1>2. s \in Seq(Lines) /\ Readable(s) /\ Meant(s, c)
      /\ c = [k \in ConfigKeys |-> c[k]]
  BY <1>1 DEF ConfInv
<1>3. t \in Seq(Lines)
  <2> HIDE DEF s, t
  <2> QED
    BY <1>1, <1>2, LineWritten
<1>4. PICK place : Edited(s, t, place, line)
  <2> HIDE DEF s, t
  <2> QED
    BY <1>1, <1>2, LineWritten
<1>5. Readable(t) <=> ValueReads(line[1], line[2]) /\ ~HalfEarly(t)
  <2> HIDE DEF s, t
  <2> QED
    BY <1>2, <1>4, EditedReadable
<1>6. CASE ValueReads(line[1], line[2]) /\ ~HalfEarly(t)
  <2>1. asked' = [asked EXCEPT !.config = Restated(t, line)] /\ spoiled' = spoiled
    BY <1>6 DEF WriteLine
  <2>2. Restated(t, line) = RestatedAs(c, t, line)
    <3> HIDE DEF t
    <3> QED
      BY RestatedIs
  <2>3. d = RestatedAs(c, t, line)
    <3>1. asked \in [config : {asked.config}, model : {asked.model}]
      BY DEF RestInv
    <3> DEFINE r == RestatedAs(c, t, line)
    <3>2. asked' = [asked EXCEPT !.config = r]
      BY <2>1, <2>2
    <3> HIDE DEF r, t
    <3>3. asked'.config = r
      BY ONLY <3>1, <3>2
    <3> QED
      BY <3>3 DEF r
  <2>4. Says(t, Len(t), RestatedAs(c, t, line))
    <3> HIDE DEF s, t, c
    <3> QED
      BY <1>2, <1>4, <1>5, <1>6, EditedMeant
  <2>5. there <=> here
    BY <2>1
  <2>6. d = [k \in ConfigKeys |-> d[k]]
    <3> HIDE DEF d, t, c
    <3> QED
      BY <2>3, RestatedTyped
  <2> HIDE DEF s, t, c, d, here, there
  <2>7. ConfHolds(t, d, there)
    BY <1>1, <1>3, <1>5, <1>6, <2>3, <2>4, <2>5, <2>6 DEF ConfHolds, Meant
  <2> QED
    BY <2>7, ConfHoldsIs DEF t, d, there
<1>7. CASE ~(ValueReads(line[1], line[2]) /\ ~HalfEarly(t))
  <2>1. asked' = asked /\ spoiled' = spoiled \cup {"conf"}
    BY <1>7 DEF WriteLine
  <2>2. d = c /\ there
    BY <2>1
  <2> HIDE DEF s, t, c, d, here, there
  <2>3. ConfHolds(t, d, there)
    BY <1>2, <1>3, <1>5, <1>7, <2>2 DEF ConfHolds
  <2> QED
    BY <2>3, ConfHoldsIs DEF t, d, there
<1> QED
  BY <1>6, <1>7

LEMMA RepeatLineKeeps ==
  ASSUME ConfInv, NEW line \in Offered, RepeatLine(line)
  PROVE  ConfInv'
<1> DEFINE s == conf
           t == conf'
           c == asked.config
           d == asked'.config
           n == Len(s)
           there == "conf" \in spoiled'
<1>1. /\ "conf" \notin spoiled /\ line[1] \in Stated(s)
      /\ t = Append(s, line) /\ asked' = asked /\ there
  BY DEF RepeatLine, EditConf
<1>2. s \in Seq(Lines) /\ c = [k \in ConfigKeys |-> c[k]] /\ line \in Lines /\ d = c
  BY <1>1 DEF ConfInv, Lines
<1> HIDE DEF s, t, c, d, there
<1>3. /\ t \in Seq(Lines) /\ Len(t) = n + 1 /\ t[n + 1] = line
      /\ \A j \in 1 .. n : t[j] = s[j]
  BY <1>1, <1>2, AppendProperties
<1>4. n \in Nat /\ DOMAIN s = 1 .. n
  BY <1>2, LinesAre
<1>5. PICK i \in 1 .. n : s[i][1] = line[1]
  BY <1>1, <1>4 DEF Stated
<1> HIDE DEF n
<1>6. /\ t[i][1] = t[n + 1][1] /\ i # n + 1
      /\ i \in 1 .. n + 1 /\ n + 1 \in 1 .. n + 1
  BY <1>3, <1>4, <1>5
<1>7. ~Readable(t)
  BY <1>3, <1>6, Zenon DEF Readable, Acceptable
<1>8. ConfHolds(t, d, there)
  BY <1>1, <1>2, <1>3, <1>7 DEF ConfHolds
<1> QED
  BY <1>8, ConfHoldsIs DEF t, d, there

LEMMA ForgetKeeps ==
  ASSUME ConfInv, RestInv, NEW dropped, Forget(dropped), conf' \in Seq(Lines),
         Rearranges(conf, conf'), Stated(conf') = Stated(conf) \ dropped
  PROVE  ConfInv'
<1> DEFINE s == conf
           t == conf'
           c == asked.config
           d == asked'.config
           none == <<"none", 0>>
           here == "conf" \in spoiled
           there == "conf" \in spoiled'
<1>1. ~here
  BY DEF Forget, EditConf
<1>2. s \in Seq(Lines) /\ Readable(s) /\ Meant(s, c)
      /\ c = [k \in ConfigKeys |-> c[k]]
  BY <1>1 DEF ConfInv
<1>3. t \in Seq(Lines) /\ Stated(t) = Stated(s) \ dropped
  OBVIOUS
<1>4. PICK places : Rearranged(s, t, places)
  BY DEF Rearranges
<1>5. Acceptable(t, Len(t)) /\ Says(t, Len(t), RestatedAs(c, t, none))
  <2>1. Acceptable(s, Len(s))
    BY <1>2 DEF Readable
  <2> HIDE DEF s, t, c
  <2> QED
    BY <1>2, <1>4, <2>1, RearrangedAcceptable, RearrangedMeant
<1>6. Readable(t) <=> dropped \cap RequiredKeys = {} /\ ~HalfEarly(t)
  <2>1. RequiredKeys \subseteq Stated(s)
    BY <1>2 DEF Readable
  <2> HIDE DEF s, t
  <2>2. RequiredKeys \subseteq Stated(t) <=> dropped \cap RequiredKeys = {}
    BY <1>3, <2>1
  <2> QED
    BY <1>5, <2>2 DEF Readable
<1>7. CASE dropped \cap RequiredKeys = {} /\ ~HalfEarly(t)
  <2> DEFINE r == [k \in ConfigKeys |->
                     IF k \in dropped THEN Defaults[k] ELSE Restated(t, none)[k]]
  <2>1. asked' = [asked EXCEPT !.config = r] /\ spoiled' = spoiled
    BY <1>7 DEF Forget
  <2>2. d = r
    <3>1. asked \in [config : {asked.config}, model : {asked.model}]
      BY DEF RestInv
    <3> HIDE DEF r
    <3>2. asked'.config = r
      BY ONLY <2>1, <3>1
    <3> QED
      BY <3>2
  <2>3. r = RestatedAs(c, t, none)
    <3>1. Restated(t, none) = RestatedAs(c, t, none)
      <4> HIDE DEF t, none
      <4> QED
        BY RestatedIs
    <3> HIDE DEF s, t, c, d
    <3>2. ASSUME NEW k \in ConfigKeys PROVE r[k] = RestatedAs(c, t, none)[k]
      <4>1. CASE k \notin dropped
        BY <3>1, <4>1
      <4>2. CASE k \in dropped
        <5>1. k \notin Stated(t) /\ k # none[1]
          BY <1>3, <4>2, ConfigKeysAre
        <5> QED
          BY <4>2, <5>1 DEF RestatedAs
      <4> QED
        BY <4>1, <4>2
    <3>3. r = [k \in ConfigKeys |-> r[k]]
      OBVIOUS
    <3> HIDE DEF r, none
    <3> QED
      BY <3>2, <3>3, RestatedTyped
  <2>4. d = [k \in ConfigKeys |-> d[k]]
    <3> HIDE DEF d, t, c, r, none
    <3> QED
      BY <2>2, <2>3, RestatedTyped
  <2>5. there <=> here
    BY <2>1
  <2> HIDE DEF s, t, c, d, r, here, there, none
  <2>6. ConfHolds(t, d, there)
    BY <1>1, <1>3, <1>5, <1>6, <1>7, <2>2, <2>3, <2>4, <2>5 DEF ConfHolds, Meant
  <2> QED
    BY <2>6, ConfHoldsIs DEF t, d, there
<1>8. CASE ~(dropped \cap RequiredKeys = {} /\ ~HalfEarly(t))
  <2>1. asked' = asked /\ spoiled' = spoiled \cup {"conf"}
    BY <1>8 DEF Forget
  <2>2. d = c /\ there
    BY <2>1
  <2> HIDE DEF s, t, c, d, here, there, none
  <2>3. ConfHolds(t, d, there)
    BY <1>2, <1>3, <1>6, <1>8, <2>2 DEF ConfHolds
  <2> QED
    BY <2>3, ConfHoldsIs DEF t, d, there
<1> QED
  BY <1>7, <1>8

LEMMA DropLineKeeps ==
  ASSUME ConfInv, RestInv, NEW i \in DOMAIN conf, DropLine(i)
  PROVE  ConfInv'
<1>1. conf' = RemoveAt(conf, i) /\ Forget({conf[i][1]})
  BY DEF DropLine
<1>2. conf \in Seq(Lines) /\ Readable(conf)
  BY <1>1 DEF ConfInv, Forget, EditConf
<1>3. i \in 1 .. Len(conf)
  BY <1>2, LinesAre
<1>4. RemoveAt(conf, i) \in Seq(Lines)
  <2> HIDE DEF Lines
  <2> QED
    BY <1>2, <1>3, LineRemoved
<1>5. /\ Rearranges(conf, RemoveAt(conf, i))
      /\ Stated(RemoveAt(conf, i)) = Stated(conf) \ {conf[i][1]}
  <2>1. Acceptable(conf, Len(conf))
    BY <1>2 DEF Readable
  <2> HIDE DEF Lines
  <2> QED
    BY <1>2, <1>3, <2>1, RemovedRearranges
<1> QED
  BY <1>1, <1>4, <1>5, ForgetKeeps

LEMMA DropEarlyLinesKeeps ==
  ASSUME ConfInv, RestInv, NEW i \in DOMAIN conf, NEW j \in DOMAIN conf,
         DropEarlyLines(i, j)
  PROVE  ConfInv'
<1> DEFINE s == conf
           u == RemoveAt(s, j)
           t == RemoveAt(u, i)
<1>1. /\ i < j /\ {s[i][1], s[j][1]} = EarlyKeys
      /\ conf' = t /\ Forget(EarlyKeys)
  BY DEF DropEarlyLines
<1>2. s \in Seq(Lines) /\ Readable(s)
  BY <1>1 DEF ConfInv, Forget, EditConf
<1>3. /\ Len(s) \in Nat /\ i \in 1 .. Len(s) /\ j \in 1 .. Len(s)
      /\ Acceptable(s, Len(s))
  BY <1>2, LinesAre DEF Readable
<1> HIDE DEF s
<1>4. u \in Seq(Lines) /\ Without(s, j, u)
  <2> HIDE DEF Lines
  <2> QED
    BY <1>2, <1>3, LineRemoved
<1>5. Rearranges(s, u) /\ Stated(u) = Stated(s) \ {s[j][1]}
  <2> HIDE DEF Lines
  <2> QED
    BY <1>2, <1>3, RemovedRearranges
<1> HIDE DEF u
<1>6. i \in 1 .. Len(u) /\ u[i] = s[i]
  <2>1. Len(u) = Len(s) - 1 /\ i \in 1 .. Len(s) - 1 /\ PlaceWithout(j, i) = i
    BY <1>1, <1>3, <1>4 DEF Without, PlaceWithout
  <2>2. i \in 1 .. Len(u)
    BY <2>1
  <2> QED
    BY <1>4, <2>1, <2>2 DEF Without
<1>7. Acceptable(u, Len(u))
  BY <1>3, <1>5, RearrangedAcceptable DEF Rearranges
<1>8. t \in Seq(Lines)
  <2> HIDE DEF Lines
  <2> QED
    BY <1>4, <1>6, LineRemoved
<1>9. Rearranges(u, t) /\ Stated(t) = Stated(u) \ {u[i][1]}
  <2> HIDE DEF Lines
  <2> QED
    BY <1>4, <1>6, <1>7, RemovedRearranges
<1> HIDE DEF t
<1>10. Rearranges(s, t)
  BY <1>5, <1>9, RearrangesTwice
<1>11. Stated(t) = Stated(s) \ EarlyKeys
  BY <1>1, <1>5, <1>6, <1>9
<1> QED
  BY <1>1, <1>8, <1>10, <1>11, ForgetKeeps DEF s

LEMMA MoveLineKeeps ==
  ASSUME ConfInv, RestInv, NEW i \in DOMAIN conf, MoveLine(i)
  PROVE  ConfInv'
<1> DEFINE s == conf
           t == conf'
           c == asked.config
           d == asked'.config
           none == <<"none", 0>>
           here == "conf" \in spoiled
           there == "conf" \in spoiled'
<1>1. /\ ~here /\ (there <=> here)
      /\ t = Append(RemoveAt(s, i), s[i])
      /\ asked' = [asked EXCEPT !.config = Restated(s, none)]
  BY DEF MoveLine, EditConf
<1>2. s \in Seq(Lines) /\ Readable(s) /\ Meant(s, c)
      /\ c = [k \in ConfigKeys |-> c[k]]
  BY <1>1 DEF ConfInv
<1>3. d = RestatedAs(c, s, none)
  <2>1. asked \in [config : {asked.config}, model : {asked.model}]
    BY DEF RestInv
  <2>2. Restated(s, none) = RestatedAs(c, s, none)
    BY RestatedIs
  <2> DEFINE r == Restated(s, none)
  <2>3. asked' = [asked EXCEPT !.config = r]
    BY <1>1
  <2> HIDE DEF r
  <2>4. asked'.config = r
    BY ONLY <2>1, <2>3
  <2> QED
    BY <2>2, <2>4 DEF r
<1> HIDE DEF s, t, c, d, here, there, none
<1>4. i \in 1 .. Len(s) /\ Acceptable(s, Len(s))
  BY <1>2, LinesAre DEF s, Readable
<1>5. t \in Seq(Lines)
  <2>1. RemoveAt(s, i) \in Seq(Lines) /\ s[i] \in Lines
    <3>1. RemoveAt(s, i) \in Seq(Lines)
      <4> HIDE DEF Lines
      <4> QED
        BY <1>2, <1>4, LineRemoved
    <3> QED
      BY <1>2, <1>4, <3>1, LinesAre
  <2> QED
    BY <1>1, <2>1, AppendProperties
<1>6. Rearranges(s, t) /\ Stated(t) = Stated(s)
  <2> HIDE DEF Lines
  <2> QED
    BY <1>1, <1>2, <1>4, RemovedRearranges
<1>7. PICK places : Rearranged(s, t, places)
  BY <1>6 DEF Rearranges
<1>8. Acceptable(t, Len(t)) /\ Says(t, Len(t), RestatedAs(c, t, none))
  BY <1>2, <1>4, <1>7, RearrangedAcceptable, RearrangedMeant DEF none
<1>9. RestatedAs(c, s, none) = RestatedAs(c, t, none)
  BY <1>6 DEF RestatedAs
<1>10. Readable(t)
  BY <1>2, <1>6, <1>8 DEF Readable, HalfEarly
<1>11. d = [k \in ConfigKeys |-> d[k]]
  BY <1>3, RestatedTyped
<1>12. ConfHolds(t, d, there)
  BY <1>1, <1>3, <1>5, <1>8, <1>9, <1>10, <1>11 DEF ConfHolds, Meant
<1> QED
  BY <1>12, ConfHoldsIs DEF t, d, there

LEMMA ConfStays ==
  ASSUME ConfInv, conf' = conf, asked'.config = asked.config,
         "conf" \in spoiled' <=> "conf" \in spoiled
  PROVE  ConfInv'
<1> DEFINE s == conf
           c == asked.config
           here == "conf" \in spoiled
<1>1. ConfHolds(s, c, here)
  BY ConfHoldsIs
<1>2. ConfHolds(conf', asked'.config, "conf" \in spoiled')
  <2>1. conf' = s /\ asked'.config = c /\ ("conf" \in spoiled' <=> here)
    OBVIOUS
  <2> HIDE DEF s, c, here
  <2> QED
    BY ONLY <1>1, <2>1 DEF ConfHolds
<1> QED
  BY <1>2, ConfHoldsIs

-----------------------------------------------------------------------------
(* The edits keep the invariant about model.txt.                            *)

(* ModelInv of given values.                                                *)
ModelHolds(lines, m, spoilt) ==
  /\ m \in WritableModels
  /\ ~spoilt => lines = WriteModel(m) /\ ReadableModel(m)
  /\ spoilt => ReadModel(lines) = NoModel

LEMMA ModelHoldsIs ==
  /\ ModelInv <=> ModelHolds(architecture, asked.model, "model" \in spoiled)
  /\ ModelInv' <=> ModelHolds(architecture', asked'.model, "model" \in spoiled')
  BY DEF ModelInv, ModelHolds, ReadableModel

LEMMA ModelStays ==
  ASSUME ModelInv, architecture' = architecture, asked'.model = asked.model,
         "model" \in spoiled' <=> "model" \in spoiled
  PROVE  ModelInv'
<1> DEFINE s == architecture
           m == asked.model
           here == "model" \in spoiled
<1>1. ModelHolds(s, m, here)
  BY ModelHoldsIs
<1>2. ModelHolds(architecture', asked'.model, "model" \in spoiled')
  <2>1. architecture' = s /\ asked'.model = m /\ ("model" \in spoiled' <=> here)
    OBVIOUS
  <2> HIDE DEF s, m, here
  <2> QED
    BY ONLY <1>1, <2>1 DEF ModelHolds
<1> QED
  BY <1>2, ModelHoldsIs

LEMMA WriteLayersKeeps ==
  ASSUME ModelInv, RestInv, NEW m \in Models, WriteLayers(m)
  PROVE  ModelInv'
<1> DEFINE s == architecture'
           there == "model" \in spoiled'
<1>1. /\ "model" \notin spoiled /\ s = WriteModel(m)
      /\ asked' = [asked EXCEPT !.model = m]
      /\ spoiled' = IF \A i \in DOMAIN m.layers : LayerReads(m.layers[i])
                      THEN spoiled ELSE spoiled \cup {"model"}
  BY DEF WriteLayers, EditModel
<1>2. m \in WritableModels
  BY SettingsAssumption
<1>3. ~there <=> ReadableModel(m)
  BY <1>1, <1>2 DEF ReadableModel
<1>4. asked'.model = m
  <2>1. asked \in [config : {asked.config}, model : {asked.model}]
    BY DEF RestInv
  <2> QED
    BY ONLY <1>1, <2>1
<1> HIDE DEF s, there
<1>5. there => ReadModel(s) = NoModel
  BY <1>1, <1>2, <1>3, ModelReadBack
<1>6. ModelHolds(s, m, there)
  BY <1>1, <1>2, <1>3, <1>5 DEF ModelHolds
<1> QED
  BY <1>4, <1>6, ModelHoldsIs DEF s, there

LEMMA SpoilModelKeeps ==
  ASSUME ModelInv, SpoilModel
  PROVE  ModelInv'
<1> DEFINE s == architecture'
           a == architecture
           m == asked.model
           there == "model" \in spoiled'
<1>1. /\ "model" \notin spoiled /\ there /\ asked' = asked
      /\ s \in {Tail(a), Append(a, a[1]), Append(Tail(a), a[1]), <<a[1]>>}
  BY DEF SpoilModel, EditModel
<1>2. m \in WritableModels /\ a = WriteModel(m)
  BY <1>1 DEF ModelInv
<1>3. asked'.model = m
  BY <1>1
<1> HIDE DEF s, a, m, there
<1>4. ReadModel(s) = NoModel
  BY <1>1, <1>2, SpoiledRefused
<1>5. ModelHolds(s, m, there)
  BY <1>1, <1>2, <1>4 DEF ModelHolds
<1> QED
  BY <1>3, <1>5, ModelHoldsIs DEF s, there

-----------------------------------------------------------------------------
(* Files mean what was asked.                                               *)

FilesInv == ConfInv /\ ModelInv /\ RestInv

LEMMA InitFiles == Init => FilesInv
<1> SUFFICES ASSUME Init PROVE FilesInv
  OBVIOUS
<1>1. PICK w \in Wanted :
        /\ conf = WriteConfig(w.config)
        /\ architecture = WriteModel(w.model)
        /\ asked = [config |-> w.config, model |-> w.model]
        /\ train = w.train
        /\ validation = w.validation
        /\ preprocessing = Absent
        /\ spoiled = {}
        /\ edits = 0
  BY DEF Init
<1>2. asked.config = w.config /\ asked.model = w.model
  BY <1>1
<1>3. Written(w.config)
  BY SettingsAssumption DEF Written
<1>4. ConfInv
  <2> DEFINE c == w.config
             lines == WriteConfig(c)
             keys == WrittenKeys(c)
  <2>1. /\ Len(lines) \in Nat
        /\ lines = [i \in 1 .. Len(lines) |-> lines[i]]
        /\ \A i \in 1 .. Len(lines) : /\ lines[i] = <<keys[i], c[keys[i]]>>
                                      /\ keys[i] \in ConfigKeys
        /\ Readable(lines)
    <3> HIDE DEF c
    <3> QED
      BY <1>3, WrittenLines DEF c
  <2> HIDE DEF lines, keys
  <2>2. ASSUME NEW i \in 1 .. Len(lines) PROVE lines[i] \in Lines
    <3> DEFINE k == keys[i]
    <3>1. k \in ConfigKeys /\ lines[i] = <<k, w.config[k]>>
      BY <2>1
    <3> HIDE DEF k
    <3>2. <<k, w.config[k]>> \in {<<j, v.config[j]>> : j \in ConfigKeys, v \in Wanted}
      BY <3>1
    <3> QED
      BY <3>1, <3>2 DEF Lines
  <2>3. lines \in Seq(Lines)
    <3> DEFINE n == Len(lines)
    <3>1. n \in Nat /\ lines \in [1 .. n -> Lines]
      BY <2>1, <2>2
    <3> HIDE DEF n, Lines
    <3> QED
      BY ONLY <3>1
  <2>4. c = [k \in ConfigKeys |-> c[k]] /\ Meant(lines, c)
    BY <1>3 DEF Written, Meant, lines
  <2>5. ConfHolds(lines, c, "conf" \in spoiled)
    BY <1>1, <2>1, <2>3, <2>4 DEF ConfHolds
  <2> QED
    BY <1>1, <1>2, <2>5, ConfHoldsIs DEF lines
<1>5. ModelInv
  <2>1. w.model \in WritableModels /\ ReadableModel(w.model)
    BY SettingsAssumption DEF ReadableModel
  <2> QED
    BY <1>1, <1>2, <2>1 DEF ModelInv
<1>6. RestInv
  <2>1. asked \in [config : {asked.config}, model : {asked.model}]
    BY <1>1
  <2>2. /\ w.train \in Datasets /\ w.validation \in Datasets \cup {Absent}
        /\ MaxEdits \in Nat
    BY SettingsAssumption
  <2> QED
    BY <1>1, <2>1, <2>2 DEF RestInv
<1> QED
  BY <1>4, <1>5, <1>6 DEF FilesInv

LEMMA AskedShape ==
  ASSUME NEW a, a \in [config : {a.config}, model : {a.model}], NEW b,
         \/ b = a
         \/ \E c : b = [a EXCEPT !.config = c]
         \/ \E m : b = [a EXCEPT !.model = m]
  PROVE  b \in [config : {b.config}, model : {b.model}]
<1>1. CASE b = a
  BY <1>1
<1>2. CASE \E c : b = [a EXCEPT !.config = c]
  BY <1>2
<1>3. CASE \E m : b = [a EXCEPT !.model = m]
  BY <1>3
<1> QED
  BY <1>1, <1>2, <1>3

LEMMA EditsRest ==
  ASSUME RestInv,
         \/ asked' = asked
         \/ \E c : asked' = [asked EXCEPT !.config = c]
         \/ \E m : asked' = [asked EXCEPT !.model = m],
         spoiled' \subseteq spoiled \cup {"conf", "model"},
         edits' = edits \/ (edits < MaxEdits /\ edits' = edits + 1),
         train' \in Datasets \cup {Absent},
         validation' \in Datasets \cup {Absent},
         preprocessing' \in Preprocessings \cup {Absent}
  PROVE  RestInv'
<1>1. asked' \in [config : {asked'.config}, model : {asked'.model}]
  <2> DEFINE a == asked
             b == asked'
  <2>1. a \in [config : {a.config}, model : {a.model}]
    BY DEF RestInv
  <2>2. \/ b = a
        \/ \E c : b = [a EXCEPT !.config = c]
        \/ \E m : b = [a EXCEPT !.model = m]
    OBVIOUS
  <2> HIDE DEF a, b
  <2>3. b \in [config : {b.config}, model : {b.model}]
    BY ONLY <2>1, <2>2, AskedShape
  <2> QED
    BY <2>3 DEF b
<1>2. spoiled' \subseteq {"conf", "model"}
  BY DEF RestInv
<1>3. edits' \in 0 .. MaxEdits
  BY SettingsAssumption DEF RestInv
<1> QED
  BY <1>1, <1>2, <1>3 DEF RestInv

LEMMA ConfStepFiles ==
  ASSUME FilesInv, ConfInv', EditConf,
         \/ asked' = asked
         \/ \E c : asked' = [asked EXCEPT !.config = c],
         spoiled' = spoiled \/ spoiled' = spoiled \cup {"conf"}
  PROVE  FilesInv'
<1>1. /\ architecture' = architecture /\ train' = train
      /\ validation' = validation /\ preprocessing' = preprocessing
      /\ edits < MaxEdits /\ edits' = edits + 1
  BY DEF EditConf, Edit
<1>2. RestInv'
  <2>1. /\ train' \in Datasets \cup {Absent}
        /\ validation' \in Datasets \cup {Absent}
        /\ preprocessing' \in Preprocessings \cup {Absent}
    BY <1>1 DEF FilesInv, RestInv
  <2> QED
    BY <1>1, <2>1, EditsRest DEF FilesInv
<1>3. asked'.model = asked.model
  <2> DEFINE a == asked
             b == asked'
  <2>1. a \in [config : {a.config}, model : {a.model}]
    BY DEF FilesInv, RestInv
  <2>2. b = a \/ \E c : b = [a EXCEPT !.config = c]
    OBVIOUS
  <2> HIDE DEF a, b
  <2>3. b.model = a.model
    BY ONLY <2>1, <2>2
  <2> QED
    BY <2>3 DEF a, b
<1>4. "model" \in spoiled' <=> "model" \in spoiled
  OBVIOUS
<1>5. ModelInv'
  BY <1>1, <1>3, <1>4, ModelStays DEF FilesInv
<1> QED
  BY <1>2, <1>5 DEF FilesInv

LEMMA ModelStepFiles ==
  ASSUME FilesInv, ModelInv', EditModel,
         \/ asked' = asked
         \/ \E m : asked' = [asked EXCEPT !.model = m],
         spoiled' = spoiled \/ spoiled' = spoiled \cup {"model"}
  PROVE  FilesInv'
<1>1. /\ conf' = conf /\ train' = train
      /\ validation' = validation /\ preprocessing' = preprocessing
      /\ edits < MaxEdits /\ edits' = edits + 1
  BY DEF EditModel, Edit
<1>2. RestInv'
  <2>1. /\ train' \in Datasets \cup {Absent}
        /\ validation' \in Datasets \cup {Absent}
        /\ preprocessing' \in Preprocessings \cup {Absent}
    BY <1>1 DEF FilesInv, RestInv
  <2> QED
    BY <1>1, <2>1, EditsRest DEF FilesInv
<1>3. asked'.config = asked.config
  <2> DEFINE a == asked
             b == asked'
  <2>1. a \in [config : {a.config}, model : {a.model}]
    BY DEF FilesInv, RestInv
  <2>2. b = a \/ \E m : b = [a EXCEPT !.model = m]
    OBVIOUS
  <2> HIDE DEF a, b
  <2>3. b.config = a.config
    BY ONLY <2>1, <2>2
  <2> QED
    BY <2>3 DEF a, b
<1>4. "conf" \in spoiled' <=> "conf" \in spoiled
  OBVIOUS
<1>5. ConfInv'
  BY <1>1, <1>3, <1>4, ConfStays DEF FilesInv
<1> QED
  BY <1>2, <1>5 DEF FilesInv

LEMMA OtherStepFiles ==
  ASSUME FilesInv, UNCHANGED <<conf, architecture, asked, spoiled>>,
         edits' = edits \/ (edits < MaxEdits /\ edits' = edits + 1),
         train' \in Datasets \cup {Absent},
         validation' \in Datasets \cup {Absent},
         preprocessing' \in Preprocessings \cup {Absent}
  PROVE  FilesInv'
<1>1. ConfInv' /\ ModelInv'
  BY ConfStays, ModelStays DEF FilesInv
<1>2. RestInv'
  BY EditsRest DEF FilesInv
<1> QED
  BY <1>1, <1>2 DEF FilesInv

LEMMA StepFiles == FilesInv /\ [Next]_vars => FilesInv'
<1> SUFFICES ASSUME FilesInv, [Next]_vars PROVE FilesInv'
  OBVIOUS
<1>1. /\ train \in Datasets \cup {Absent}
      /\ validation \in Datasets \cup {Absent}
      /\ preprocessing \in Preprocessings \cup {Absent}
  BY DEF FilesInv, RestInv
<1>2. CASE Train
  BY <1>1, <1>2, OtherStepFiles DEF Train, files
<1>3. CASE Continue
  BY <1>1, <1>3, OtherStepFiles DEF Continue, files
<1>4. CASE \E line \in Offered : WriteLine(line) \/ RepeatLine(line)
  <2>1. PICK line \in Offered : WriteLine(line) \/ RepeatLine(line)
    BY <1>4
  <2>2. CASE WriteLine(line)
    <3>1. ConfInv'
      BY <2>2, WriteLineKeeps DEF FilesInv
    <3>2. /\ EditConf
          /\ asked' = asked \/ \E c : asked' = [asked EXCEPT !.config = c]
          /\ spoiled' = spoiled \/ spoiled' = spoiled \cup {"conf"}
      BY <2>2 DEF WriteLine
    <3> QED
      BY <3>1, <3>2, ConfStepFiles
  <2>3. CASE RepeatLine(line)
    <3>1. ConfInv'
      BY <2>3, RepeatLineKeeps DEF FilesInv
    <3>2. EditConf /\ asked' = asked /\ spoiled' = spoiled \cup {"conf"}
      BY <2>3 DEF RepeatLine
    <3> QED
      BY <3>1, <3>2, ConfStepFiles
  <2> QED
    BY <2>1, <2>2, <2>3
<1>5. CASE \E i \in DOMAIN conf : DropLine(i) \/ MoveLine(i)
  <2>1. PICK i \in DOMAIN conf : DropLine(i) \/ MoveLine(i)
    BY <1>5
  <2>2. CASE DropLine(i)
    <3>1. ConfInv'
      BY <2>2, DropLineKeeps DEF FilesInv
    <3>2. /\ EditConf
          /\ asked' = asked \/ \E c : asked' = [asked EXCEPT !.config = c]
          /\ spoiled' = spoiled \/ spoiled' = spoiled \cup {"conf"}
      BY <2>2 DEF DropLine, Forget
    <3> QED
      BY <3>1, <3>2, ConfStepFiles
  <2>3. CASE MoveLine(i)
    <3>1. ConfInv'
      BY <2>3, MoveLineKeeps DEF FilesInv
    <3>2. /\ EditConf /\ spoiled' = spoiled
          /\ \E c : asked' = [asked EXCEPT !.config = c]
      BY <2>3 DEF MoveLine
    <3> QED
      BY <3>1, <3>2, ConfStepFiles
  <2> QED
    BY <2>1, <2>2, <2>3
<1>6. CASE \E i, j \in DOMAIN conf : DropEarlyLines(i, j)
  <2>1. PICK i \in DOMAIN conf, j \in DOMAIN conf : DropEarlyLines(i, j)
    BY <1>6
  <2>2. ConfInv'
    BY <2>1, DropEarlyLinesKeeps DEF FilesInv
  <2>3. /\ EditConf
        /\ asked' = asked \/ \E c : asked' = [asked EXCEPT !.config = c]
        /\ spoiled' = spoiled \/ spoiled' = spoiled \cup {"conf"}
    BY <2>1 DEF DropEarlyLines, Forget
  <2> QED
    BY <2>2, <2>3, ConfStepFiles
<1>7. CASE \E m \in Models : WriteLayers(m)
  <2>1. PICK m \in Models : WriteLayers(m)
    BY <1>7
  <2>2. ModelInv'
    BY <2>1, WriteLayersKeeps DEF FilesInv
  <2>3. /\ EditModel
        /\ \E x : asked' = [asked EXCEPT !.model = x]
        /\ spoiled' = spoiled \/ spoiled' = spoiled \cup {"model"}
    BY <2>1 DEF WriteLayers
  <2> QED
    BY <2>2, <2>3, ModelStepFiles
<1>8. CASE SpoilModel
  <2>1. ModelInv'
    BY <1>8, SpoilModelKeeps DEF FilesInv
  <2>2. EditModel /\ asked' = asked /\ spoiled' = spoiled \cup {"model"}
    BY <1>8 DEF SpoilModel
  <2> QED
    BY <2>1, <2>2, ModelStepFiles
<1>9. CASE EditData
  BY <1>1, <1>9, OtherStepFiles DEF EditData, Edit
<1>10. CASE UNCHANGED vars
  BY <1>1, <1>10, OtherStepFiles DEF vars, files
<1> QED
  BY <1>2, <1>3, <1>4, <1>5, <1>6, <1>7, <1>8, <1>9, <1>10 DEF Next

LEMMA UsedOfAlike ==
  ASSUME NEW p, NEW q, p.model = q.model, Alike(p.config, q.config),
         p.dataset = q.dataset, p.validation = q.validation,
         p.preprocessing = q.preprocessing
  PROVE  Used(p) = Used(q)
<1> DEFINE c == p.config
           d == q.config
           e == p.dataset
           v == p.validation
<1>1. /\ UsedByEpochs(c, e) = UsedByEpochs(d, e)
      /\ UsedByOptimizer(c) = UsedByOptimizer(d)
      /\ UsedByControls(c, v) = UsedByControls(d, v)
  BY AlikeUsed
<1>2. UsedByEpochs(d, e) = UsedByEpochs(q.config, q.dataset)
      /\ UsedByControls(d, v) = UsedByControls(q.config, q.validation)
  OBVIOUS
<1> QED
  BY <1>1, <1>2 DEF Used

LEMMA FilesMean == FilesInv => FilesMeanWhatWasAsked
<1> SUFFICES ASSUME FilesInv PROVE FilesMeanWhatWasAsked
  OBVIOUS
<1> DEFINE c == ReadConfig(conf)
           m == ReadModel(architecture)
           read == [model |-> m, config |-> c.config, dataset |-> train,
                    validation |-> validation, preprocessing |-> preprocessing]
           meant == [read EXCEPT !.model = asked.model, !.config = asked.config]
<1>1. conf \in Seq(Lines)
  BY DEF FilesInv, ConfInv
<1>2. Len(conf) \in Nat /\ DOMAIN conf = 1 .. Len(conf)
  BY <1>1, LinesAre
<1>3. /\ c.ok \in BOOLEAN
      /\ c.ok => Readable(conf)
      /\ Readable(conf) =>
           \A d : Meant(conf, d) => /\ c.ok <=> ConfigValid(d)
                                    /\ c.ok => Alike(c.config, d)
  BY <1>2, MeantRead
<1> HIDE DEF c
<1>4. /\ c.ok <=> "conf" \notin spoiled /\ ConfigValid(asked.config)
      /\ c.ok => Alike(c.config, asked.config)
  <2>1. CASE "conf" \notin spoiled
    <3>1. Readable(conf) /\ Meant(conf, asked.config)
      BY <2>1 DEF FilesInv, ConfInv
    <3> QED
      BY <1>3, <2>1, <3>1
  <2>2. CASE "conf" \in spoiled
    <3>1. ~Readable(conf)
      BY <2>2 DEF FilesInv, ConfInv
    <3> QED
      BY <1>3, <2>2, <3>1
  <2> QED
    BY <2>1, <2>2
<1>5. /\ m.ok <=> "model" \notin spoiled
      /\ m.ok => m = asked.model
  <2>1. CASE "model" \notin spoiled
    <3>1. architecture = WriteModel(asked.model) /\ ReadableModel(asked.model)
      BY <2>1 DEF FilesInv, ModelInv
    <3>2. asked.model \in WritableModels
      BY <3>1 DEF ReadableModel
    <3>3. m = asked.model
      BY <3>1, <3>2, ModelReadBack
    <3>4. asked.model.ok = TRUE
      BY <3>2 DEF WritableModels
    <3> HIDE DEF m
    <3> QED
      BY <2>1, <3>3, <3>4
  <2>2. CASE "model" \in spoiled
    <3>1. m = NoModel
      BY <2>2 DEF FilesInv, ModelInv
    <3>2. NoModel.ok = FALSE
      BY DEF NoModel
    <3> HIDE DEF m
    <3> QED
      BY <2>2, <3>1, <3>2
  <2> QED
    BY <2>1, <2>2
<1> HIDE DEF m
<1>6. ASSUME c.ok, m.ok PROVE Used(read) = Used(meant)
  <2>1. /\ read.model = m /\ read.config = c.config
        /\ read.dataset = meant.dataset
        /\ read.validation = meant.validation
        /\ read.preprocessing = meant.preprocessing
        /\ meant.model = asked.model /\ meant.config = asked.config
    OBVIOUS
  <2>2. Alike(read.config, meant.config) /\ read.model = meant.model
    BY <1>4, <1>5, <1>6, <2>1
  <2> HIDE DEF read, meant
  <2> QED
    BY <2>1, <2>2, UsedOfAlike
<1> QED
  BY <1>4, <1>5, <1>6 DEF FilesMeanWhatWasAsked, c, m

(* Whatever has been written, changed, added, removed or moved, project.conf*)
(* and model.txt are read as the settings that their user asked for, or are *)
(* refused because they break a rule or ask for an invalid configuration    *)
(* (write_project, neural_training_config_load, neural_model_spec_load).    *)
THEOREM FilesAreReadAsAsked == Spec => []FilesMeanWhatWasAsked
<1>1. Spec => []FilesInv
  BY InitFiles, StepFiles, PTL DEF Spec
<1> QED
  BY <1>1, FilesMean, PTL

-----------------------------------------------------------------------------
(* What a configuration that has been read is.                              *)

TypedFields(c) ==
  /\ c.epochs \in Nat
  /\ c.learning_rate \in Nat
  /\ c.seed \in Nat
  /\ c.loss \in Losses
  /\ c.checkpoint_interval \in Nat
  /\ c.early_stopping_patience \in Nat
  /\ c.early_stopping_min_delta \in Nat
  /\ c.batch_size \in Nat
  /\ c.shuffle \in {0, 1}
  /\ c.gradient_clip_norm \in Nat
  /\ c.l1_regularization \in Nat
  /\ c.l2_regularization \in Nat
  /\ c.regularize_biases \in {0, 1}
  /\ c.optimizer \in Optimizers
  /\ c.momentum \in Int
  /\ c.adam_beta1 \in Int
  /\ c.adam_beta2 \in Int
  /\ c.adam_epsilon \in Int
  /\ c.learning_rate_schedule \in RateSchedules
  /\ c.learning_rate_decay \in Int
  /\ c.learning_rate_step_epochs \in Nat
  /\ c.learning_rate_plateau_patience \in Nat
  /\ c.learning_rate_plateau_min_delta \in Int
  /\ c.divergence_threshold \in Int
  /\ c.target_loss \in Int
  /\ c.max_no_improvement_epochs \in Nat
  /\ c.no_improvement_min_delta \in Int

LEMMA DefaultsAre == TypedFields(Defaults)
  BY DEF TypedFields, Defaults, Losses, Optimizers, RateSchedules, Half, One

LEMMA TypedAre ==
  ASSUME NEW c, Typed(c)
  PROVE  TypedFields(c)
<1>0. TypedFields(Defaults)
  BY DefaultsAre
<1>1. \A k \in ConfigKeys : ValueReads(k, c[k]) \/ c[k] = Defaults[k]
  BY DEF Typed
<1>2. /\ c.epochs \in Nat
      /\ c.learning_rate \in Nat
      /\ c.seed \in Nat
      /\ c.loss \in Losses
      /\ c.checkpoint_interval \in Nat
      /\ c.early_stopping_patience \in Nat
      /\ c.early_stopping_min_delta \in Nat
  BY <1>0, <1>1, ConfigKeysAre DEF TypedFields, ValueReads, RunReads,
     BatchReads, OptimizerReads, ScheduleReads, ConvergenceReads, EarlyKeys
<1>3. /\ c.batch_size \in Nat
      /\ c.shuffle \in {0, 1}
      /\ c.gradient_clip_norm \in Nat
      /\ c.l1_regularization \in Nat
      /\ c.l2_regularization \in Nat
      /\ c.regularize_biases \in {0, 1}
  BY <1>0, <1>1, ConfigKeysAre DEF TypedFields, ValueReads, RunReads,
     BatchReads, OptimizerReads, ScheduleReads, ConvergenceReads, EarlyKeys
<1>4. /\ c.optimizer \in Optimizers
      /\ c.momentum \in Int
      /\ c.adam_beta1 \in Int
      /\ c.adam_beta2 \in Int
      /\ c.adam_epsilon \in Int
  BY <1>0, <1>1, ConfigKeysAre DEF TypedFields, ValueReads, RunReads,
     BatchReads, OptimizerReads, ScheduleReads, ConvergenceReads, EarlyKeys
<1>5. /\ c.learning_rate_schedule \in RateSchedules
      /\ c.learning_rate_decay \in Int
      /\ c.learning_rate_step_epochs \in Nat
      /\ c.learning_rate_plateau_patience \in Nat
      /\ c.learning_rate_plateau_min_delta \in Int
  BY <1>0, <1>1, ConfigKeysAre DEF TypedFields, ValueReads, RunReads,
     BatchReads, OptimizerReads, ScheduleReads, ConvergenceReads, EarlyKeys
<1>6. /\ c.divergence_threshold \in Int
      /\ c.target_loss \in Int
      /\ c.max_no_improvement_epochs \in Nat
      /\ c.no_improvement_min_delta \in Int
  BY <1>0, <1>1, ConfigKeysAre DEF TypedFields, ValueReads, RunReads,
     BatchReads, OptimizerReads, ScheduleReads, ConvergenceReads, EarlyKeys
<1> QED
  BY <1>2, <1>3, <1>4, <1>5, <1>6 DEF TypedFields

-----------------------------------------------------------------------------
(* Streams of items that begin with the same items.                         *)

LEMMA SameLengthCancel ==
  ASSUME NEW S, NEW a \in Seq(S), NEW b \in Seq(S), NEW s \in Seq(S),
         NEW t \in Seq(S), Len(a) = Len(b), a \o s = b \o t
  PROVE  a = b /\ s = t
<1> DEFINE n == Len(a)
<1>1. n \in Nat /\ Len(s) \in Nat /\ Len(b) = n
  BY LenProperties
<1>2. \A i \in 1 .. n + Len(s) : (a \o s)[i] = IF i <= n THEN a[i] ELSE s[i - n]
  BY ConcatProperties
<1>3. \A i \in 1 .. n + Len(t) : (b \o t)[i] = IF i <= n THEN b[i] ELSE t[i - n]
  <2>1. \A i \in 1 .. Len(b) + Len(t) :
          (b \o t)[i] = IF i <= Len(b) THEN b[i] ELSE t[i - Len(b)]
    BY ConcatProperties
  <2> QED
    BY ONLY <1>1, <2>1
<1>4. a = b
  <2>1. \A i \in 1 .. n : i \in 1 .. n + Len(s) /\ i <= n
    BY <1>1
  <2>2. Len(t) \in Nat
    BY LenProperties
  <2>3. \A i \in 1 .. n : i \in 1 .. n + Len(t)
    BY <1>1, <2>2
  <2>4. \A i \in 1 .. n : a[i] = b[i]
    BY <1>2, <1>3, <2>1, <2>3
  <2> QED
    BY <1>1, <2>4, SeqEqual
<1> QED
  BY <1>4, ConcatSimplifications

LEMMA FirstOfConcat ==
  ASSUME NEW S, NEW a \in Seq(S), NEW s \in Seq(S), NEW i \in 1 .. Len(a)
  PROVE  (a \o s)[i] = a[i]
<1>1. Len(a) \in Nat /\ Len(s) \in Nat
  BY LenProperties
<1>2. i \in 1 .. Len(a) + Len(s) /\ i <= Len(a)
  BY <1>1
<1> QED
  BY <1>2, ConcatProperties

(* A section of the stream: nothing, or at least two items of which the     *)
(* first names the section.                                                 *)
Section(S, a, name) ==
  /\ a \in Seq(S)
  /\ a = <<>> \/ (Len(a) >= 2 /\ a[1] = Text(name))

BeginsIn(S, s, names) ==
  /\ s \in Seq(S)
  /\ s = <<>> \/ \E name \in names : s[1] = Text(name)

LEMMA TextIs ==
  ASSUME NEW x, NEW y, Text(x) = Text(y)
  PROVE  x = y
  BY DEF Text

LEMMA WordIs ==
  ASSUME NEW x, NEW y, Word(x) = Word(y)
  PROVE  x = y
  BY DEF Word

LEMMA SectionBegins ==
  ASSUME NEW S, NEW a, NEW name, Section(S, a, name),
         NEW s, NEW names, BeginsIn(S, s, names)
  PROVE  BeginsIn(S, a \o s, names \cup {name})
<1>1. a \in Seq(S) /\ s \in Seq(S)
  BY DEF Section, BeginsIn
<1>2. a \o s \in Seq(S)
  BY <1>1, ConcatProperties
<1>3. CASE a = <<>>
  <2>1. a \o s = s
    BY <1>1, <1>3, ConcatEmptySeq
  <2> QED
    BY <1>2, <2>1 DEF BeginsIn
<1>4. CASE a # <<>>
  <2>1. Len(a) >= 2 /\ a[1] = Text(name)
    BY <1>4 DEF Section
  <2>2. 1 \in 1 .. Len(a)
    BY <1>1, <2>1, LenProperties
  <2>3. (a \o s)[1] = Text(name)
    BY <1>1, <2>1, <2>2, FirstOfConcat
  <2> QED
    BY <1>2, <2>3 DEF BeginsIn
<1> QED
  BY <1>3, <1>4

Joined(a, b) == a \o b

(* When the second items of two sections agree, so do their lengths.        *)
Lengths(a, b) == a # <<>> /\ b # <<>> /\ a[2] = b[2] => Len(a) = Len(b)

(* A section is there in both streams or in neither, and is the same when   *)
(* its second item tells its length.                                        *)
LEMMA SectionCancel ==
  ASSUME NEW S, NEW a, NEW b, NEW name, Section(S, a, name), Section(S, b, name),
         Lengths(a, b), NEW s, NEW t, NEW names, name \notin names,
         BeginsIn(S, s, names), BeginsIn(S, t, names), Joined(a, s) = Joined(b, t)
  PROVE  a = b /\ s = t
<1>0. a \o s = b \o t
  BY Zenon DEF Joined
<1>1. /\ a \in Seq(S) /\ b \in Seq(S) /\ s \in Seq(S) /\ t \in Seq(S)
  BY DEF Section, BeginsIn
<1>2. ASSUME NEW x, NEW y, Section(S, x, name), BeginsIn(S, y, names), x # <<>>
      PROVE  x \o y # <<>> /\ (x \o y)[1] = Text(name)
  <2>1. x \in Seq(S) /\ y \in Seq(S) /\ Len(x) >= 2 /\ x[1] = Text(name)
    BY <1>2 DEF Section, BeginsIn
  <2>2. 1 \in 1 .. Len(x)
    BY <2>1, LenProperties
  <2>3. (x \o y)[1] = Text(name)
    BY <2>1, <2>2, FirstOfConcat
  <2>4. x \o y # <<>>
    BY <2>1, <1>2, ConcatEqualIffEmpty
  <2> QED
    BY <2>3, <2>4
<1>3. ASSUME NEW y, BeginsIn(S, y, names), y # <<>>
      PROVE  y[1] # Text(name)
  BY <1>3, TextIs DEF BeginsIn
<1>4. CASE a = <<>> /\ b = <<>>
  BY <1>0, <1>1, <1>4, ConcatEmptySeq
<1>5. CASE a = <<>> /\ b # <<>>
  <2>1. a \o s = s
    BY <1>1, <1>5, ConcatEmptySeq
  <2>2. s # <<>> /\ s[1] = Text(name)
    BY <1>0, <1>2, <1>5, <2>1
  <2> QED
    BY <1>3, <2>2
<1>6. CASE a # <<>> /\ b = <<>>
  <2>1. b \o t = t
    BY <1>1, <1>6, ConcatEmptySeq
  <2>2. t # <<>> /\ t[1] = Text(name)
    BY <1>0, <1>2, <1>6, <2>1
  <2> QED
    BY <1>3, <2>2
<1>7. CASE a # <<>> /\ b # <<>>
  <2>1. Len(a) >= 2 /\ Len(b) >= 2
    BY <1>7 DEF Section
  <2>2. 2 \in 1 .. Len(a) /\ 2 \in 1 .. Len(b)
    BY <1>1, <2>1, LenProperties
  <2>3. (a \o s)[2] = a[2] /\ (b \o t)[2] = b[2]
    BY <1>1, <2>2, FirstOfConcat
  <2>4. Len(a) = Len(b)
    BY <1>0, <1>7, <2>3 DEF Lengths
  <2> QED
    BY <1>0, <1>1, <2>4, SameLengthCancel
<1> QED
  BY <1>4, <1>5, <1>6, <1>7

-----------------------------------------------------------------------------
(* The stream of a training.                                                *)

ItemNames ==
  {"training", "mini_batch", "epoch_shuffle", "splitmix64_fisher_yates_v1",
   "gradient_clip_norm", "regularization", "l1_l2_v1", "optimizer",
   "momentum_v1", "adam_v1", "learning_rate_schedule", "convergence_control",
   "loss_v1", "early_stopping"} \cup Losses \cup RateSchedules

Items ==
  {Text(n) : n \in ItemNames} \cup {Word(x) : x \in Int}
  \cup {DigestDataset(d) : d \in Datasets}

LEMMA ItemsAre ==
  /\ \A n \in ItemNames : Text(n) \in Items
  /\ \A x \in Int : Word(x) \in Items
  /\ \A d \in Datasets : DigestDataset(d) \in Items
  BY DEF Items

LEMMA NamesAre ==
  /\ {"training", "mini_batch", "epoch_shuffle", "splitmix64_fisher_yates_v1",
      "gradient_clip_norm", "regularization", "l1_l2_v1", "optimizer",
      "momentum_v1", "adam_v1", "learning_rate_schedule",
      "convergence_control", "loss_v1", "early_stopping"} \subseteq ItemNames
  /\ Losses \subseteq ItemNames /\ RateSchedules \subseteq ItemNames
  BY DEF ItemNames

MiniBatch(c) ==
  Given(c.batch_size # 0, <<Text("mini_batch"), Word(c.batch_size)>>)

Shuffle(c) ==
  Given(c.shuffle # 0,
        <<Text("epoch_shuffle"), Text("splitmix64_fisher_yates_v1")>>)

ClipNorm(c) ==
  Given(c.gradient_clip_norm > 0,
        <<Text("gradient_clip_norm"), Word(c.gradient_clip_norm)>>)

MomentumSection(c) ==
  <<Text("optimizer"), Text("momentum_v1"), Word(c.momentum)>>

AdamSection(c) ==
  <<Text("optimizer"), Text("adam_v1"), Word(c.adam_beta1),
    Word(c.adam_beta2), Word(c.adam_epsilon)>>

LEMMA OptimizerItemsAre ==
  ASSUME NEW c, TypedFields(c)
  PROVE  /\ MomentumSection(c) \in Seq(Items) /\ AdamSection(c) \in Seq(Items)
         /\ OptimizerItems(c) = IF c.optimizer = "momentum" THEN MomentumSection(c)
                                ELSE IF c.optimizer = "adam" THEN AdamSection(c)
                                ELSE <<>>
<1> DEFINE a == MomentumSection(c)
           b == AdamSection(c)
<1>1. a \in Seq(Items)
  BY ItemsAre, NamesAre DEF TypedFields, MomentumSection
<1>2. b \in Seq(Items)
  BY ItemsAre, NamesAre DEF TypedFields, AdamSection
<1>3. OptimizerItems(c) = Given(c.optimizer = "momentum", a)
                          \o Given(c.optimizer = "adam", b)
  BY DEF OptimizerItems, MomentumSection, AdamSection
<1> HIDE DEF a, b
<1>4. a \o <<>> = a /\ <<>> \o b = b /\ <<>> \o <<>> = <<>>
  BY <1>1, <1>2, ConcatEmptySeq
<1>5. OptimizerItems(c) = IF c.optimizer = "momentum" THEN a
                          ELSE IF c.optimizer = "adam" THEN b ELSE <<>>
  BY <1>3, <1>4 DEF Given
<1> QED
  BY <1>1, <1>2, <1>5 DEF a, b

StepSection(c) ==
  <<Text("learning_rate_schedule"), Text("step"), Word(c.learning_rate_decay),
    Word(c.learning_rate_step_epochs)>>

PlateauSection(c) ==
  <<Text("learning_rate_schedule"), Text("plateau"),
    Word(c.learning_rate_decay), Word(c.learning_rate_plateau_patience),
    Word(c.learning_rate_plateau_min_delta)>>

ExponentialSection(c) ==
  <<Text("learning_rate_schedule"), Text("exponential"),
    Word(c.learning_rate_decay)>>

LEMMA ScheduleItemsAre ==
  ASSUME NEW c, TypedFields(c)
  PROVE  /\ StepSection(c) \in Seq(Items) /\ PlateauSection(c) \in Seq(Items)
         /\ ExponentialSection(c) \in Seq(Items)
         /\ ScheduleItems(c) =
              IF c.learning_rate_schedule = "step" THEN StepSection(c)
              ELSE IF c.learning_rate_schedule = "plateau" THEN PlateauSection(c)
              ELSE IF c.learning_rate_schedule = "exponential"
                THEN ExponentialSection(c)
              ELSE <<>>
<1> DEFINE kind == c.learning_rate_schedule
           a == <<Text("learning_rate_schedule"), Text(kind),
                  Word(c.learning_rate_decay)>>
           b == <<Word(c.learning_rate_step_epochs)>>
           d == <<Word(c.learning_rate_plateau_patience),
                  Word(c.learning_rate_plateau_min_delta)>>
<1>1. StepSection(c) \in Seq(Items)
  BY ItemsAre, NamesAre DEF TypedFields, StepSection, RateSchedules
<1>2. PlateauSection(c) \in Seq(Items)
  BY ItemsAre, NamesAre DEF TypedFields, PlateauSection, RateSchedules
<1>3. ExponentialSection(c) \in Seq(Items)
  BY ItemsAre, NamesAre DEF TypedFields, ExponentialSection, RateSchedules
<1>4. a \in Seq(Items) /\ Len(a) = 3
  BY ItemsAre, NamesAre DEF TypedFields
<1>5. b \in Seq(Items) /\ Len(b) = 1 /\ d \in Seq(Items) /\ Len(d) = 2
  BY ItemsAre DEF TypedFields
<1>6. ScheduleItems(c) = (Given(kind # "constant", a) \o Given(kind = "step", b))
                         \o Given(kind = "plateau", d)
  BY DEF ScheduleItems
<1>7. kind \in {"constant", "step", "exponential", "plateau"}
  BY DEF TypedFields, RateSchedules
<1>8. CASE kind = "step"
  <2>1. a \o b = StepSection(c)
    <3>1. a \o b \in Seq(Items) /\ Len(a \o b) = 4
          /\ \A i \in 1 .. 4 : (a \o b)[i] = IF i <= 3 THEN a[i] ELSE b[i - 3]
      <4> HIDE DEF a, b
      <4>1. a \o b \in Seq(Items) /\ Len(a \o b) = Len(a) + Len(b)
            /\ \A i \in 1 .. Len(a) + Len(b) :
                 (a \o b)[i] = IF i <= Len(a) THEN a[i] ELSE b[i - Len(a)]
        BY <1>4, <1>5, ConcatProperties
      <4>2. Len(a) + Len(b) = 4
        BY <1>4, <1>5
      <4>3. Len(a) = 3
        BY <1>4
      <4> QED
        BY ONLY <4>1, <4>2, <4>3
    <3>2. Len(StepSection(c)) = 4
      BY DEF StepSection
    <3>3. \A i \in 1 .. 4 : (IF i <= 3 THEN a[i] ELSE b[i - 3]) = StepSection(c)[i]
      BY <1>8 DEF StepSection
    <3> HIDE DEF a, b
    <3> QED
      BY <1>1, <3>1, <3>2, <3>3, SeqEqual
  <2> HIDE DEF a, b, d, kind
  <2>2. ScheduleItems(c) = (a \o b) \o <<>>
    BY <1>6, <1>8 DEF Given
  <2>3. ScheduleItems(c) = StepSection(c)
    BY <1>1, <2>1, <2>2, ConcatEmptySeq
  <2> QED
    BY <1>1, <1>2, <1>3, <1>8, <2>3 DEF kind
<1>9. CASE kind = "plateau"
  <2>1. a \o d = PlateauSection(c)
    <3>1. a \o d \in Seq(Items) /\ Len(a \o d) = 5
          /\ \A i \in 1 .. 5 : (a \o d)[i] = IF i <= 3 THEN a[i] ELSE d[i - 3]
      <4> HIDE DEF a, d
      <4>1. a \o d \in Seq(Items) /\ Len(a \o d) = Len(a) + Len(d)
            /\ \A i \in 1 .. Len(a) + Len(d) :
                 (a \o d)[i] = IF i <= Len(a) THEN a[i] ELSE d[i - Len(a)]
        BY <1>4, <1>5, ConcatProperties
      <4>2. Len(a) + Len(d) = 5
        BY <1>4, <1>5
      <4>3. Len(a) = 3
        BY <1>4
      <4> QED
        BY ONLY <4>1, <4>2, <4>3
    <3>2. Len(PlateauSection(c)) = 5
      BY DEF PlateauSection
    <3>3. \A i \in 1 .. 5 :
            (IF i <= 3 THEN a[i] ELSE d[i - 3]) = PlateauSection(c)[i]
      BY <1>9 DEF PlateauSection
    <3> HIDE DEF a, d
    <3> QED
      BY <1>2, <3>1, <3>2, <3>3, SeqEqual
  <2> HIDE DEF a, b, d, kind
  <2>2. ScheduleItems(c) = (a \o <<>>) \o d
    BY <1>6, <1>9 DEF Given
  <2>3. ScheduleItems(c) = PlateauSection(c)
    BY <1>4, <2>1, <2>2, ConcatEmptySeq
  <2> QED
    BY <1>1, <1>2, <1>3, <1>9, <2>3 DEF kind
<1>10. CASE kind = "exponential"
  <2>1. a = ExponentialSection(c)
    BY <1>10 DEF ExponentialSection
  <2> HIDE DEF a, b, d, kind
  <2>2. ScheduleItems(c) = (a \o <<>>) \o <<>>
    BY <1>6, <1>10 DEF Given
  <2>3. ScheduleItems(c) = ExponentialSection(c)
    BY <1>4, <2>1, <2>2, ConcatEmptySeq
  <2> QED
    BY <1>1, <1>2, <1>3, <1>10, <2>3 DEF kind
<1>11. CASE kind = "constant"
  <2> HIDE DEF a, b, d, kind
  <2>1. ScheduleItems(c) = (<<>> \o <<>>) \o <<>>
    BY <1>6, <1>11 DEF Given
  <2>2. ScheduleItems(c) = <<>>
    BY <2>1, ConcatEmptySeq, EmptySeq
  <2> QED
    BY <1>1, <1>2, <1>3, <1>11, <2>2 DEF kind
<1> QED
  BY <1>7, <1>8, <1>9, <1>10, <1>11

(* The sections of the stream, from the last.                               *)

FromConvergence(c, v) == ConvergenceItems(c) \o EarlyItems(c, v)
FromSchedule(c, v) == ScheduleItems(c) \o FromConvergence(c, v)
FromOptimizer(c, v) == OptimizerItems(c) \o FromSchedule(c, v)
FromRegularization(c, v) == RegularizationItems(c) \o FromOptimizer(c, v)
FromClipNorm(c, v) == ClipNorm(c) \o FromRegularization(c, v)
FromShuffle(c, v) == Shuffle(c) \o FromClipNorm(c, v)
FromMiniBatch(c, v) == MiniBatch(c) \o FromShuffle(c, v)

LEMMA BaseItemsAre ==
  ASSUME NEW c, TypedFields(c)
  PROVE  BaseItems(c) \in Seq(Items) /\ Len(BaseItems(c)) = 6
  BY ItemsAre, NamesAre DEF TypedFields, BaseItems

LEMMA BatchSections ==
  ASSUME NEW c, TypedFields(c)
  PROVE  /\ Section(Items, MiniBatch(c), "mini_batch")
         /\ Section(Items, Shuffle(c), "epoch_shuffle")
         /\ Section(Items, ClipNorm(c), "gradient_clip_norm")
         /\ Section(Items, RegularizationItems(c), "regularization")
<1>1. Section(Items, MiniBatch(c), "mini_batch")
  BY ItemsAre, NamesAre DEF TypedFields, MiniBatch, Given, Section
<1>2. Section(Items, Shuffle(c), "epoch_shuffle")
  BY ItemsAre, NamesAre DEF TypedFields, Shuffle, Given, Section
<1>3. Section(Items, ClipNorm(c), "gradient_clip_norm")
  BY ItemsAre, NamesAre DEF TypedFields, ClipNorm, Given, Section
<1>4. Section(Items, RegularizationItems(c), "regularization")
  BY ItemsAre, NamesAre DEF TypedFields, RegularizationItems, Given, Section
<1> QED
  BY <1>1, <1>2, <1>3, <1>4

LEMMA OptimizerSections ==
  ASSUME NEW c, TypedFields(c)
  PROVE  /\ Section(Items, OptimizerItems(c), "optimizer")
         /\ Section(Items, ScheduleItems(c), "learning_rate_schedule")
<1>1. Section(Items, <<>>, "optimizer")
      /\ Section(Items, <<>>, "learning_rate_schedule")
  BY DEF Section
<1>2. Section(Items, MomentumSection(c), "optimizer")
  BY OptimizerItemsAre DEF Section, MomentumSection
<1>3. Section(Items, AdamSection(c), "optimizer")
  BY OptimizerItemsAre DEF Section, AdamSection
<1>4. Section(Items, StepSection(c), "learning_rate_schedule")
  BY ScheduleItemsAre DEF Section, StepSection
<1>5. Section(Items, PlateauSection(c), "learning_rate_schedule")
  BY ScheduleItemsAre DEF Section, PlateauSection
<1>6. Section(Items, ExponentialSection(c), "learning_rate_schedule")
  BY ScheduleItemsAre DEF Section, ExponentialSection
<1> QED
  BY <1>1, <1>2, <1>3, <1>4, <1>5, <1>6, OptimizerItemsAre, ScheduleItemsAre

LEMMA ControlSections ==
  ASSUME NEW c, TypedFields(c), NEW v, StopsEarly(c) => v \in Datasets
  PROVE  /\ Section(Items, ConvergenceItems(c), "convergence_control")
         /\ Section(Items, EarlyItems(c, v), "early_stopping")
<1>1. Section(Items, ConvergenceItems(c), "convergence_control")
  BY ItemsAre, NamesAre DEF TypedFields, ConvergenceItems, Given, Section
<1>2. Section(Items, EarlyItems(c, v), "early_stopping")
  BY ItemsAre, NamesAre DEF TypedFields, EarlyItems, Section
<1> QED
  BY <1>1, <1>2

LEMMA JoinedTwice ==
  ASSUME NEW S, NEW a \in Seq(S), NEW b \in Seq(S), NEW c \in Seq(S)
  PROVE  Joined(Joined(a, b), c) = Joined(a, Joined(b, c))
<1>1. (a \o b) \o c = a \o (b \o c)
  BY ONLY a \in Seq(S), b \in Seq(S), c \in Seq(S), ConcatAssociative
<1> QED
  BY ONLY <1>1, Zenon DEF Joined

Regroups(b0, b1, b2, b3, b4, b5, b6, b7, b8) ==
  b0 \o (b1 \o b2 \o b3) \o b4 \o b5 \o b6 \o b7 \o b8
  = b0 \o (b1 \o (b2 \o (b3 \o (b4 \o (b5 \o (b6 \o (b7 \o b8)))))))

LEMMA Reassociated ==
  ASSUME NEW S, NEW b0 \in Seq(S), NEW b1 \in Seq(S), NEW b2 \in Seq(S),
         NEW b3 \in Seq(S), NEW b4 \in Seq(S), NEW b5 \in Seq(S),
         NEW b6 \in Seq(S), NEW b7 \in Seq(S), NEW b8 \in Seq(S)
  PROVE  Regroups(b0, b1, b2, b3, b4, b5, b6, b7, b8)
<1>1. \A a, b \in Seq(S) : Joined(a, b) \in Seq(S)
  BY ConcatProperties DEF Joined
<1>2. \A a, b, c \in Seq(S) :
        Joined(Joined(a, b), c) = Joined(a, Joined(b, c))
  BY JoinedTwice
<1> DEFINE c7 == Joined(b7, b8)
           c6 == Joined(b6, c7)
           c5 == Joined(b5, c6)
           c4 == Joined(b4, c5)
           c3 == Joined(b3, c4)
           d1 == Joined(b1, b2)
           d == Joined(d1, b3)
           e0 == Joined(b0, d)
           e4 == Joined(e0, b4)
           e5 == Joined(e4, b5)
           e6 == Joined(e5, b6)
<1>3. c7 \in Seq(S) /\ d1 \in Seq(S)
  BY <1>1
<1>4. c6 \in Seq(S) /\ d \in Seq(S)
  BY <1>1, <1>3
<1>5. c5 \in Seq(S) /\ e0 \in Seq(S)
  BY <1>1, <1>4
<1>6. c4 \in Seq(S) /\ e4 \in Seq(S)
  BY <1>1, <1>5
<1>7. c3 \in Seq(S) /\ e5 \in Seq(S)
  BY <1>1, <1>6
<1>8. e6 \in Seq(S)
  BY <1>1, <1>7
<1> HIDE DEF c7, c6, c5, c4, c3, d1, d, e0, e4, e5, e6
<1>9. Joined(Joined(e6, b7), b8) = Joined(e6, c7)
  BY <1>2, <1>8 DEF c7
<1>10. Joined(e6, c7) = Joined(e5, c6)
  BY <1>2, <1>3, <1>7 DEF c6, e6
<1>11. Joined(e5, c6) = Joined(e4, c5)
  BY <1>2, <1>4, <1>6 DEF c5, e5
<1>12. Joined(e4, c5) = Joined(e0, c4)
  BY <1>2, <1>5 DEF c4, e4
<1>13. Joined(e0, c4) = Joined(b0, Joined(d, c4))
  BY <1>2, <1>4, <1>6 DEF e0
<1>14. Joined(d, c4) = Joined(d1, c3)
  BY <1>2, <1>3, <1>6 DEF d, c3
<1>15. Joined(d1, c3) = Joined(b1, Joined(b2, c3))
  BY <1>2, <1>7 DEF d1
<1>16. Joined(Joined(e6, b7), b8) = Joined(b0, Joined(b1, Joined(b2, c3)))
  BY <1>9, <1>10, <1>11, <1>12, <1>13, <1>14, <1>15
<1> QED
  BY ONLY <1>16, Zenon DEF c7, c6, c5, c4, c3, d1, d, e0, e4, e5, e6, Joined,
     Regroups

LEMMA TrainingStream ==
  ASSUME NEW c, TypedFields(c), NEW v, StopsEarly(c) => v \in Datasets
  PROVE  DigestTraining(c, v) = BaseItems(c) \o FromMiniBatch(c, v)
<1> DEFINE b0 == BaseItems(c)
           b1 == MiniBatch(c)
           b2 == Shuffle(c)
           b3 == ClipNorm(c)
           b4 == RegularizationItems(c)
           b5 == OptimizerItems(c)
           b6 == ScheduleItems(c)
           b7 == ConvergenceItems(c)
           b8 == EarlyItems(c, v)
<1>1. /\ b0 \in Seq(Items) /\ b1 \in Seq(Items) /\ b2 \in Seq(Items)
      /\ b3 \in Seq(Items) /\ b4 \in Seq(Items) /\ b5 \in Seq(Items)
      /\ b6 \in Seq(Items) /\ b7 \in Seq(Items) /\ b8 \in Seq(Items)
  BY BaseItemsAre, BatchSections, OptimizerSections, ControlSections
     DEF Section
<1>2. BatchItems(c) = b1 \o b2 \o b3
  BY Zenon DEF BatchItems, MiniBatch, Shuffle, ClipNorm
<1>3. DigestTraining(c, v)
      = b0 \o (b1 \o b2 \o b3) \o b4 \o b5 \o b6 \o b7 \o b8
  BY <1>2, Zenon DEF DigestTraining
<1>4. FromMiniBatch(c, v)
      = b1 \o (b2 \o (b3 \o (b4 \o (b5 \o (b6 \o (b7 \o b8))))))
  BY Zenon DEF FromMiniBatch, FromShuffle, FromClipNorm, FromRegularization,
     FromOptimizer, FromSchedule, FromConvergence
<1> HIDE DEF b0, b1, b2, b3, b4, b5, b6, b7, b8
<1>5. Regroups(b0, b1, b2, b3, b4, b5, b6, b7, b8)
  BY ONLY <1>1, Reassociated
<1> QED
  BY ONLY <1>3, <1>4, <1>5, Zenon DEF b0, Regroups

Named(n) ==
  CASE n = 8 -> {"early_stopping"}
    [] n = 7 -> {"early_stopping", "convergence_control"}
    [] n = 6 -> {"early_stopping", "convergence_control",
                 "learning_rate_schedule"}
    [] n = 5 -> {"early_stopping", "convergence_control",
                 "learning_rate_schedule", "optimizer"}
    [] n = 4 -> {"early_stopping", "convergence_control",
                 "learning_rate_schedule", "optimizer", "regularization"}
    [] n = 3 -> {"early_stopping", "convergence_control",
                 "learning_rate_schedule", "optimizer", "regularization",
                 "gradient_clip_norm"}
    [] n = 2 -> {"early_stopping", "convergence_control",
                 "learning_rate_schedule", "optimizer", "regularization",
                 "gradient_clip_norm", "epoch_shuffle"}

LEMMA TrainingBegins ==
  ASSUME NEW c, TypedFields(c), NEW v, StopsEarly(c) => v \in Datasets
  PROVE  /\ BeginsIn(Items, EarlyItems(c, v), Named(8))
         /\ BeginsIn(Items, FromConvergence(c, v), Named(7))
         /\ BeginsIn(Items, FromSchedule(c, v), Named(6))
         /\ BeginsIn(Items, FromOptimizer(c, v), Named(5))
         /\ BeginsIn(Items, FromRegularization(c, v), Named(4))
         /\ BeginsIn(Items, FromClipNorm(c, v), Named(3))
         /\ BeginsIn(Items, FromShuffle(c, v), Named(2))
         /\ FromMiniBatch(c, v) \in Seq(Items)
<1>1. /\ Named(7) = Named(8) \cup {"convergence_control"}
      /\ Named(6) = Named(7) \cup {"learning_rate_schedule"}
      /\ Named(5) = Named(6) \cup {"optimizer"}
      /\ Named(4) = Named(5) \cup {"regularization"}
      /\ Named(3) = Named(4) \cup {"gradient_clip_norm"}
      /\ Named(2) = Named(3) \cup {"epoch_shuffle"}
  BY DEF Named
<1>2. BeginsIn(Items, EarlyItems(c, v), Named(8))
  BY ControlSections DEF Section, BeginsIn, Named
<1>3. BeginsIn(Items, FromConvergence(c, v), Named(7))
  BY <1>1, <1>2, ControlSections, SectionBegins DEF FromConvergence
<1>4. BeginsIn(Items, FromSchedule(c, v), Named(6))
  BY <1>1, <1>3, OptimizerSections, SectionBegins DEF FromSchedule
<1>5. BeginsIn(Items, FromOptimizer(c, v), Named(5))
  BY <1>1, <1>4, OptimizerSections, SectionBegins DEF FromOptimizer
<1>6. BeginsIn(Items, FromRegularization(c, v), Named(4))
  BY <1>1, <1>5, BatchSections, SectionBegins DEF FromRegularization
<1>7. BeginsIn(Items, FromClipNorm(c, v), Named(3))
  BY <1>1, <1>6, BatchSections, SectionBegins DEF FromClipNorm
<1>8. BeginsIn(Items, FromShuffle(c, v), Named(2))
  BY <1>1, <1>7, BatchSections, SectionBegins DEF FromShuffle
<1>9. FromMiniBatch(c, v) \in Seq(Items)
  BY <1>8, BatchSections, ConcatProperties
     DEF FromMiniBatch, BeginsIn, Section
<1> QED
  BY <1>2, <1>3, <1>4, <1>5, <1>6, <1>7, <1>8, <1>9

LEMMA SectionLengths ==
  ASSUME NEW c, NEW d, TypedFields(c), TypedFields(d), NEW v, NEW w
  PROVE  /\ Lengths(MiniBatch(c), MiniBatch(d))
         /\ Lengths(Shuffle(c), Shuffle(d))
         /\ Lengths(ClipNorm(c), ClipNorm(d))
         /\ Lengths(RegularizationItems(c), RegularizationItems(d))
         /\ Lengths(OptimizerItems(c), OptimizerItems(d))
         /\ Lengths(ScheduleItems(c), ScheduleItems(d))
         /\ Lengths(ConvergenceItems(c), ConvergenceItems(d))
         /\ Lengths(EarlyItems(c, v), EarlyItems(d, w))
<1>1. Lengths(MiniBatch(c), MiniBatch(d))
  BY DEF Lengths, MiniBatch, Given
<1>2. Lengths(Shuffle(c), Shuffle(d))
  BY DEF Lengths, Shuffle, Given
<1>3. Lengths(ClipNorm(c), ClipNorm(d))
  BY DEF Lengths, ClipNorm, Given
<1>4. Lengths(RegularizationItems(c), RegularizationItems(d))
  BY DEF Lengths, RegularizationItems, Given
<1>5. Lengths(OptimizerItems(c), OptimizerItems(d))
  <2>1. Text("momentum_v1") # Text("adam_v1")
    BY TextIs
  <2>2. ASSUME NEW x PROVE
          /\ Len(MomentumSection(x)) = 3 /\ Len(AdamSection(x)) = 5
          /\ MomentumSection(x)[2] = Text("momentum_v1")
          /\ AdamSection(x)[2] = Text("adam_v1")
    BY DEF MomentumSection, AdamSection
  <2> QED
    BY <2>1, <2>2, OptimizerItemsAre DEF Lengths
<1>6. Lengths(ScheduleItems(c), ScheduleItems(d))
  <2>1. /\ Text("step") # Text("plateau") /\ Text("step") # Text("exponential")
        /\ Text("plateau") # Text("exponential")
    BY TextIs
  <2>2. ASSUME NEW x PROVE
          /\ Len(StepSection(x)) = 4 /\ Len(PlateauSection(x)) = 5
          /\ Len(ExponentialSection(x)) = 3
          /\ StepSection(x)[2] = Text("step")
          /\ PlateauSection(x)[2] = Text("plateau")
          /\ ExponentialSection(x)[2] = Text("exponential")
    BY DEF StepSection, PlateauSection, ExponentialSection
  <2> QED
    BY <2>1, <2>2, ScheduleItemsAre DEF Lengths
<1>7. Lengths(ConvergenceItems(c), ConvergenceItems(d))
  BY DEF Lengths, ConvergenceItems, Given
<1>8. Lengths(EarlyItems(c, v), EarlyItems(d, w))
  BY DEF Lengths, EarlyItems
<1> QED
  BY <1>1, <1>2, <1>3, <1>4, <1>5, <1>6, <1>7, <1>8

(* The streams of two trainings are equal only section by section.          *)
LEMMA SameSections ==
  ASSUME NEW c, TypedFields(c), NEW v, StopsEarly(c) => v \in Datasets,
         NEW d, TypedFields(d), NEW w, StopsEarly(d) => w \in Datasets,
         DigestTraining(c, v) = DigestTraining(d, w)
  PROVE  /\ BaseItems(c) = BaseItems(d)
         /\ MiniBatch(c) = MiniBatch(d)
         /\ Shuffle(c) = Shuffle(d)
         /\ ClipNorm(c) = ClipNorm(d)
         /\ RegularizationItems(c) = RegularizationItems(d)
         /\ OptimizerItems(c) = OptimizerItems(d)
         /\ ScheduleItems(c) = ScheduleItems(d)
         /\ ConvergenceItems(c) = ConvergenceItems(d)
         /\ EarlyItems(c, v) = EarlyItems(d, w)
<1>1. BaseItems(c) = BaseItems(d) /\ FromMiniBatch(c, v) = FromMiniBatch(d, w)
  <2>1. BaseItems(c) \o FromMiniBatch(c, v) = BaseItems(d) \o FromMiniBatch(d, w)
    BY TrainingStream, Zenon
  <2>2. /\ BaseItems(c) \in Seq(Items) /\ BaseItems(d) \in Seq(Items)
        /\ Len(BaseItems(c)) = Len(BaseItems(d))
        /\ FromMiniBatch(c, v) \in Seq(Items)
        /\ FromMiniBatch(d, w) \in Seq(Items)
    BY BaseItemsAre, TrainingBegins
  <2> QED
    BY ONLY <2>1, <2>2, SameLengthCancel
<1>2. /\ MiniBatch(c) = MiniBatch(d)
      /\ FromShuffle(c, v) = FromShuffle(d, w)
  <2>1. Joined(MiniBatch(c), FromShuffle(c, v))
        = Joined(MiniBatch(d), FromShuffle(d, w))
    BY <1>1, Zenon DEF Joined, FromMiniBatch
  <2>2. /\ Section(Items, MiniBatch(c), "mini_batch")
        /\ Section(Items, MiniBatch(d), "mini_batch")
        /\ Lengths(MiniBatch(c), MiniBatch(d))
    BY BatchSections, SectionLengths
  <2>3. /\ BeginsIn(Items, FromShuffle(c, v), Named(2))
        /\ BeginsIn(Items, FromShuffle(d, w), Named(2))
    BY TrainingBegins
  <2>4. "mini_batch" \notin Named(2)
    BY DEF Named
  <2> QED
    BY ONLY <2>1, <2>2, <2>3, <2>4, SectionCancel
<1>3. /\ Shuffle(c) = Shuffle(d)
      /\ FromClipNorm(c, v) = FromClipNorm(d, w)
  <2>1. Joined(Shuffle(c), FromClipNorm(c, v))
        = Joined(Shuffle(d), FromClipNorm(d, w))
    BY <1>2, Zenon DEF Joined, FromShuffle
  <2>2. /\ Section(Items, Shuffle(c), "epoch_shuffle")
        /\ Section(Items, Shuffle(d), "epoch_shuffle")
        /\ Lengths(Shuffle(c), Shuffle(d))
    BY BatchSections, SectionLengths
  <2>3. /\ BeginsIn(Items, FromClipNorm(c, v), Named(3))
        /\ BeginsIn(Items, FromClipNorm(d, w), Named(3))
    BY TrainingBegins
  <2>4. "epoch_shuffle" \notin Named(3)
    BY DEF Named
  <2> QED
    BY ONLY <2>1, <2>2, <2>3, <2>4, SectionCancel
<1>4. /\ ClipNorm(c) = ClipNorm(d)
      /\ FromRegularization(c, v) = FromRegularization(d, w)
  <2>1. Joined(ClipNorm(c), FromRegularization(c, v))
        = Joined(ClipNorm(d), FromRegularization(d, w))
    BY <1>3, Zenon DEF Joined, FromClipNorm
  <2>2. /\ Section(Items, ClipNorm(c), "gradient_clip_norm")
        /\ Section(Items, ClipNorm(d), "gradient_clip_norm")
        /\ Lengths(ClipNorm(c), ClipNorm(d))
    BY BatchSections, SectionLengths
  <2>3. /\ BeginsIn(Items, FromRegularization(c, v), Named(4))
        /\ BeginsIn(Items, FromRegularization(d, w), Named(4))
    BY TrainingBegins
  <2>4. "gradient_clip_norm" \notin Named(4)
    BY DEF Named
  <2> QED
    BY ONLY <2>1, <2>2, <2>3, <2>4, SectionCancel
<1>5. /\ RegularizationItems(c) = RegularizationItems(d)
      /\ FromOptimizer(c, v) = FromOptimizer(d, w)
  <2>1. Joined(RegularizationItems(c), FromOptimizer(c, v))
        = Joined(RegularizationItems(d), FromOptimizer(d, w))
    BY <1>4, Zenon DEF Joined, FromRegularization
  <2>2. /\ Section(Items, RegularizationItems(c), "regularization")
        /\ Section(Items, RegularizationItems(d), "regularization")
        /\ Lengths(RegularizationItems(c), RegularizationItems(d))
    BY BatchSections, SectionLengths
  <2>3. /\ BeginsIn(Items, FromOptimizer(c, v), Named(5))
        /\ BeginsIn(Items, FromOptimizer(d, w), Named(5))
    BY TrainingBegins
  <2>4. "regularization" \notin Named(5)
    BY DEF Named
  <2> QED
    BY ONLY <2>1, <2>2, <2>3, <2>4, SectionCancel
<1>6. /\ OptimizerItems(c) = OptimizerItems(d)
      /\ FromSchedule(c, v) = FromSchedule(d, w)
  <2>1. Joined(OptimizerItems(c), FromSchedule(c, v))
        = Joined(OptimizerItems(d), FromSchedule(d, w))
    BY <1>5, Zenon DEF Joined, FromOptimizer
  <2>2. /\ Section(Items, OptimizerItems(c), "optimizer")
        /\ Section(Items, OptimizerItems(d), "optimizer")
        /\ Lengths(OptimizerItems(c), OptimizerItems(d))
    BY OptimizerSections, SectionLengths
  <2>3. /\ BeginsIn(Items, FromSchedule(c, v), Named(6))
        /\ BeginsIn(Items, FromSchedule(d, w), Named(6))
    BY TrainingBegins
  <2>4. "optimizer" \notin Named(6)
    BY DEF Named
  <2> QED
    BY ONLY <2>1, <2>2, <2>3, <2>4, SectionCancel
<1>7. /\ ScheduleItems(c) = ScheduleItems(d)
      /\ FromConvergence(c, v) = FromConvergence(d, w)
  <2>1. Joined(ScheduleItems(c), FromConvergence(c, v))
        = Joined(ScheduleItems(d), FromConvergence(d, w))
    BY <1>6, Zenon DEF Joined, FromSchedule
  <2>2. /\ Section(Items, ScheduleItems(c), "learning_rate_schedule")
        /\ Section(Items, ScheduleItems(d), "learning_rate_schedule")
        /\ Lengths(ScheduleItems(c), ScheduleItems(d))
    BY OptimizerSections, SectionLengths
  <2>3. /\ BeginsIn(Items, FromConvergence(c, v), Named(7))
        /\ BeginsIn(Items, FromConvergence(d, w), Named(7))
    BY TrainingBegins
  <2>4. "learning_rate_schedule" \notin Named(7)
    BY DEF Named
  <2> QED
    BY ONLY <2>1, <2>2, <2>3, <2>4, SectionCancel
<1>8. /\ ConvergenceItems(c) = ConvergenceItems(d)
      /\ EarlyItems(c, v) = EarlyItems(d, w)
  <2>1. Joined(ConvergenceItems(c), EarlyItems(c, v))
        = Joined(ConvergenceItems(d), EarlyItems(d, w))
    BY <1>7, Zenon DEF Joined, FromConvergence
  <2>2. /\ Section(Items, ConvergenceItems(c), "convergence_control")
        /\ Section(Items, ConvergenceItems(d), "convergence_control")
        /\ Lengths(ConvergenceItems(c), ConvergenceItems(d))
    BY ControlSections, SectionLengths
  <2>3. /\ BeginsIn(Items, EarlyItems(c, v), Named(8))
        /\ BeginsIn(Items, EarlyItems(d, w), Named(8))
    BY TrainingBegins
  <2>4. "convergence_control" \notin Named(8)
    BY DEF Named
  <2> QED
    BY ONLY <2>1, <2>2, <2>3, <2>4, SectionCancel
<1> QED
  BY <1>1, <1>2, <1>3, <1>4, <1>5, <1>6, <1>7, <1>8

(* Equal sections come from settings of which the code makes the same use.  *)

LEMMA BaseTold ==
  ASSUME NEW c, NEW d, BaseItems(c) = BaseItems(d)
  PROVE  /\ c.epochs = d.epochs /\ c.learning_rate = d.learning_rate
         /\ c.seed = d.seed /\ c.loss = d.loss
         /\ c.checkpoint_interval = d.checkpoint_interval
<1> DEFINE s == BaseItems(c)
           t == BaseItems(d)
<1>1. /\ s[2] = Word(c.epochs) /\ s[3] = Word(c.learning_rate)
      /\ s[4] = Word(c.seed) /\ s[5] = Text(c.loss)
      /\ s[6] = Word(c.checkpoint_interval)
  BY DEF BaseItems
<1>2. /\ t[2] = Word(d.epochs) /\ t[3] = Word(d.learning_rate)
      /\ t[4] = Word(d.seed) /\ t[5] = Text(d.loss)
      /\ t[6] = Word(d.checkpoint_interval)
  BY DEF BaseItems
<1>3. s = t
  OBVIOUS
<1> HIDE DEF s, t
<1> QED
  BY ONLY <1>1, <1>2, <1>3, TextIs, WordIs

LEMMA BatchTold ==
  ASSUME NEW c, NEW d, TypedFields(c), TypedFields(d),
         MiniBatch(c) = MiniBatch(d), Shuffle(c) = Shuffle(d),
         ClipNorm(c) = ClipNorm(d),
         RegularizationItems(c) = RegularizationItems(d)
  PROVE  /\ c.batch_size = d.batch_size
         /\ c.shuffle = d.shuffle
         /\ c.gradient_clip_norm > 0 <=> d.gradient_clip_norm > 0
         /\ c.gradient_clip_norm > 0 =>
              c.gradient_clip_norm = d.gradient_clip_norm
         /\ Regularized(c) <=> Regularized(d)
         /\ Regularized(c) =>
              /\ c.l1_regularization = d.l1_regularization
              /\ c.l2_regularization = d.l2_regularization
              /\ c.regularize_biases = d.regularize_biases
<1>1. ASSUME NEW x, NEW y PROVE
        /\ <<x, y>> # <<>>
        /\ <<x, y>>[2] = y
  OBVIOUS
<1>2. c.batch_size = d.batch_size
  <2>1. ASSUME NEW x PROVE
          /\ x.batch_size # 0 => MiniBatch(x) # <<>>
                                 /\ MiniBatch(x)[2] = Word(x.batch_size)
          /\ x.batch_size = 0 => MiniBatch(x) = <<>>
    BY DEF MiniBatch, Given
  <2> QED
    BY <2>1, WordIs
<1>3. c.shuffle = d.shuffle
  <2>1. ASSUME NEW x PROVE x.shuffle # 0 <=> Shuffle(x) # <<>>
    BY DEF Shuffle, Given
  <2> QED
    BY <2>1 DEF TypedFields
<1>4. /\ c.gradient_clip_norm > 0 <=> d.gradient_clip_norm > 0
      /\ c.gradient_clip_norm > 0 => c.gradient_clip_norm = d.gradient_clip_norm
  <2>1. ASSUME NEW x PROVE
          /\ x.gradient_clip_norm > 0 =>
               ClipNorm(x) # <<>> /\ ClipNorm(x)[2] = Word(x.gradient_clip_norm)
          /\ ~(x.gradient_clip_norm > 0) => ClipNorm(x) = <<>>
    BY DEF ClipNorm, Given
  <2> QED
    BY <2>1, WordIs
<1>5. /\ Regularized(c) <=> Regularized(d)
      /\ Regularized(c) =>
           /\ c.l1_regularization = d.l1_regularization
           /\ c.l2_regularization = d.l2_regularization
           /\ c.regularize_biases = d.regularize_biases
  <2>1. ASSUME NEW x PROVE
          /\ Regularized(x) =>
               /\ RegularizationItems(x) # <<>>
               /\ RegularizationItems(x)[3] = Word(x.l1_regularization)
               /\ RegularizationItems(x)[4] = Word(x.l2_regularization)
               /\ RegularizationItems(x)[5] = Word(x.regularize_biases)
          /\ ~Regularized(x) => RegularizationItems(x) = <<>>
    BY DEF RegularizationItems, Given
  <2> QED
    BY <2>1, WordIs
<1> QED
  BY <1>2, <1>3, <1>4, <1>5

LEMMA OptimizerTold ==
  ASSUME NEW c, NEW d, TypedFields(c), TypedFields(d),
         OptimizerItems(c) = OptimizerItems(d)
  PROVE  /\ c.optimizer = d.optimizer
         /\ c.optimizer = "momentum" => c.momentum = d.momentum
         /\ c.optimizer = "adam" =>
              /\ c.adam_beta1 = d.adam_beta1 /\ c.adam_beta2 = d.adam_beta2
              /\ c.adam_epsilon = d.adam_epsilon
<1>1. Text("momentum_v1") # Text("adam_v1")
  BY TextIs
<1>2. ASSUME NEW x PROVE
        /\ MomentumSection(x) # <<>> /\ AdamSection(x) # <<>>
        /\ MomentumSection(x)[2] = Text("momentum_v1")
        /\ AdamSection(x)[2] = Text("adam_v1")
        /\ MomentumSection(x)[3] = Word(x.momentum)
        /\ AdamSection(x)[3] = Word(x.adam_beta1)
        /\ AdamSection(x)[4] = Word(x.adam_beta2)
        /\ AdamSection(x)[5] = Word(x.adam_epsilon)
  BY DEF MomentumSection, AdamSection
<1>3. /\ c.optimizer \in {"gradient_descent", "momentum", "adam"}
      /\ d.optimizer \in {"gradient_descent", "momentum", "adam"}
  BY DEF TypedFields, Optimizers
<1>4. ASSUME NEW x, TypedFields(x) PROVE
        /\ x.optimizer = "momentum" => OptimizerItems(x) = MomentumSection(x)
        /\ x.optimizer = "adam" => OptimizerItems(x) = AdamSection(x)
        /\ x.optimizer = "gradient_descent" => OptimizerItems(x) = <<>>
  BY <1>4, OptimizerItemsAre
<1>5. ASSUME NEW x, NEW y, TypedFields(x), TypedFields(y),
             OptimizerItems(x) = OptimizerItems(y),
             y.optimizer \in {"gradient_descent", "momentum", "adam"}
      PROVE  /\ x.optimizer = "momentum" =>
                  y.optimizer = "momentum" /\ x.momentum = y.momentum
             /\ x.optimizer = "adam" =>
                  /\ y.optimizer = "adam"
                  /\ x.adam_beta1 = y.adam_beta1
                  /\ x.adam_beta2 = y.adam_beta2
                  /\ x.adam_epsilon = y.adam_epsilon
  <2> DEFINE s == OptimizerItems(x)
  <2>1. /\ y.optimizer = "momentum" => s = MomentumSection(y)
        /\ y.optimizer = "adam" => s = AdamSection(y)
        /\ y.optimizer = "gradient_descent" => s = <<>>
    BY <1>4, <1>5
  <2>2. /\ x.optimizer = "momentum" => s = MomentumSection(x)
        /\ x.optimizer = "adam" => s = AdamSection(x)
    BY <1>4, <1>5
  <2> HIDE DEF s
  <2>3. CASE x.optimizer = "momentum"
    <3>1. s # <<>> /\ s[2] = Text("momentum_v1") /\ s[3] = Word(x.momentum)
      BY <1>2, <2>2, <2>3
    <3>2. y.optimizer = "momentum"
      BY <1>1, <1>2, <1>5, <2>1, <3>1
    <3>3. s[3] = Word(y.momentum)
      BY <1>2, <2>1, <3>2
    <3> QED
      BY <2>3, <3>1, <3>2, <3>3, WordIs
  <2>4. CASE x.optimizer = "adam"
    <3>1. /\ s # <<>> /\ s[2] = Text("adam_v1") /\ s[3] = Word(x.adam_beta1)
          /\ s[4] = Word(x.adam_beta2) /\ s[5] = Word(x.adam_epsilon)
      BY <1>2, <2>2, <2>4
    <3>2. y.optimizer = "adam"
      BY <1>1, <1>2, <1>5, <2>1, <3>1
    <3>3. /\ s[3] = Word(y.adam_beta1) /\ s[4] = Word(y.adam_beta2)
          /\ s[5] = Word(y.adam_epsilon)
      BY <1>2, <2>1, <3>2
    <3> QED
      BY <2>4, <3>1, <3>2, <3>3, WordIs
  <2> QED
    BY <2>3, <2>4
<1> QED
  BY <1>3, <1>5

LEMMA ScheduleTold ==
  ASSUME NEW c, NEW d, TypedFields(c), TypedFields(d),
         ScheduleItems(c) = ScheduleItems(d)
  PROVE  /\ c.learning_rate_schedule = d.learning_rate_schedule
         /\ c.learning_rate_schedule # "constant" =>
              c.learning_rate_decay = d.learning_rate_decay
         /\ c.learning_rate_schedule = "step" =>
              c.learning_rate_step_epochs = d.learning_rate_step_epochs
         /\ c.learning_rate_schedule = "plateau" =>
              /\ c.learning_rate_plateau_patience =
                   d.learning_rate_plateau_patience
              /\ c.learning_rate_plateau_min_delta =
                   d.learning_rate_plateau_min_delta
<1>1. /\ Text("step") # Text("plateau") /\ Text("step") # Text("exponential")
      /\ Text("plateau") # Text("exponential")
  BY TextIs
<1>2. ASSUME NEW x PROVE
        /\ StepSection(x) # <<>> /\ PlateauSection(x) # <<>>
        /\ ExponentialSection(x) # <<>>
        /\ StepSection(x)[2] = Text("step")
        /\ PlateauSection(x)[2] = Text("plateau")
        /\ ExponentialSection(x)[2] = Text("exponential")
        /\ StepSection(x)[3] = Word(x.learning_rate_decay)
        /\ PlateauSection(x)[3] = Word(x.learning_rate_decay)
        /\ ExponentialSection(x)[3] = Word(x.learning_rate_decay)
        /\ StepSection(x)[4] = Word(x.learning_rate_step_epochs)
        /\ PlateauSection(x)[4] = Word(x.learning_rate_plateau_patience)
        /\ PlateauSection(x)[5] = Word(x.learning_rate_plateau_min_delta)
  BY DEF StepSection, PlateauSection, ExponentialSection
<1>3. /\ c.learning_rate_schedule \in
           {"constant", "step", "exponential", "plateau"}
      /\ d.learning_rate_schedule \in
           {"constant", "step", "exponential", "plateau"}
  BY DEF TypedFields, RateSchedules
<1>4. ASSUME NEW x, TypedFields(x) PROVE
        LET kind == x.learning_rate_schedule
        IN  /\ kind = "step" => ScheduleItems(x) = StepSection(x)
            /\ kind = "plateau" => ScheduleItems(x) = PlateauSection(x)
            /\ kind = "exponential" => ScheduleItems(x) = ExponentialSection(x)
            /\ kind = "constant" => ScheduleItems(x) = <<>>
  BY <1>4, ScheduleItemsAre
<1>5. ASSUME NEW x, NEW y, TypedFields(x), TypedFields(y),
             ScheduleItems(x) = ScheduleItems(y),
             y.learning_rate_schedule \in
               {"constant", "step", "exponential", "plateau"},
             x.learning_rate_schedule \in {"step", "exponential", "plateau"}
      PROVE  /\ x.learning_rate_schedule = y.learning_rate_schedule
             /\ x.learning_rate_decay = y.learning_rate_decay
             /\ x.learning_rate_schedule = "step" =>
                  x.learning_rate_step_epochs = y.learning_rate_step_epochs
             /\ x.learning_rate_schedule = "plateau" =>
                  /\ x.learning_rate_plateau_patience =
                       y.learning_rate_plateau_patience
                  /\ x.learning_rate_plateau_min_delta =
                       y.learning_rate_plateau_min_delta
  <2> DEFINE s == ScheduleItems(x)
             k == x.learning_rate_schedule
             l == y.learning_rate_schedule
  <2>1. /\ l = "step" => s = StepSection(y)
        /\ l = "plateau" => s = PlateauSection(y)
        /\ l = "exponential" => s = ExponentialSection(y)
        /\ l = "constant" => s = <<>>
        /\ l \in {"constant", "step", "exponential", "plateau"}
    BY <1>4, <1>5
  <2>2. /\ k = "step" => s = StepSection(x)
        /\ k = "plateau" => s = PlateauSection(x)
        /\ k = "exponential" => s = ExponentialSection(x)
        /\ k \in {"step", "exponential", "plateau"}
    BY <1>4, <1>5
  <2> HIDE DEF s, k, l
  <2>3. s # <<>> /\ s[3] = Word(x.learning_rate_decay)
    BY <1>2, <2>2
  <2>4. s[2] = IF k = "step" THEN Text("step")
               ELSE IF k = "plateau" THEN Text("plateau")
               ELSE Text("exponential")
    BY <1>2, <2>2
  <2>5. s[2] = IF l = "step" THEN Text("step")
               ELSE IF l = "plateau" THEN Text("plateau")
               ELSE Text("exponential")
    BY <1>2, <2>1, <2>3
  <2>6. k = l
    BY <1>1, <2>1, <2>2, <2>3, <2>4, <2>5
  <2>7. s[3] = Word(y.learning_rate_decay)
    BY <1>2, <2>1, <2>3
  <2>8. k = "step" => s[4] = Word(x.learning_rate_step_epochs)
                      /\ s[4] = Word(y.learning_rate_step_epochs)
    BY <1>2, <2>1, <2>2, <2>6
  <2>9. k = "plateau" => /\ s[4] = Word(x.learning_rate_plateau_patience)
                         /\ s[4] = Word(y.learning_rate_plateau_patience)
                         /\ s[5] = Word(x.learning_rate_plateau_min_delta)
                         /\ s[5] = Word(y.learning_rate_plateau_min_delta)
    BY <1>2, <2>1, <2>2, <2>6
  <2>10. x.learning_rate_decay = y.learning_rate_decay
    BY ONLY <2>3, <2>7, WordIs
  <2>11. k = "step" =>
           x.learning_rate_step_epochs = y.learning_rate_step_epochs
    BY ONLY <2>8, WordIs
  <2>12. k = "plateau" =>
           /\ x.learning_rate_plateau_patience =
                y.learning_rate_plateau_patience
           /\ x.learning_rate_plateau_min_delta =
                y.learning_rate_plateau_min_delta
    BY ONLY <2>9, WordIs
  <2> QED
    BY <2>6, <2>10, <2>11, <2>12 DEF k, l
<1> QED
  BY <1>3, <1>5

LEMMA ControlsTold ==
  ASSUME NEW c, NEW d, TypedFields(c), TypedFields(d),
         ConvergenceItems(c) = ConvergenceItems(d)
  PROVE  /\ Controlled(c) <=> Controlled(d)
         /\ Controlled(c) =>
              /\ c.divergence_threshold = d.divergence_threshold
              /\ c.target_loss = d.target_loss
              /\ c.max_no_improvement_epochs = d.max_no_improvement_epochs
              /\ c.no_improvement_min_delta = d.no_improvement_min_delta
<1>1. ASSUME NEW x PROVE
        /\ Controlled(x) =>
             /\ ConvergenceItems(x) # <<>>
             /\ ConvergenceItems(x)[3] = Word(x.divergence_threshold)
             /\ ConvergenceItems(x)[4] = Word(x.target_loss)
             /\ ConvergenceItems(x)[5] = Word(x.max_no_improvement_epochs)
             /\ ConvergenceItems(x)[6] = Word(x.no_improvement_min_delta)
        /\ ~Controlled(x) => ConvergenceItems(x) = <<>>
  BY DEF ConvergenceItems, Given
<1> QED
  BY <1>1, WordIs

LEMMA EarlyTold ==
  ASSUME NEW c, NEW v, StopsEarly(c) => v \in Datasets,
         NEW d, NEW w, StopsEarly(d) => w \in Datasets,
         EarlyItems(c, v) = EarlyItems(d, w)
  PROVE  /\ StopsEarly(c) <=> StopsEarly(d)
         /\ StopsEarly(c) =>
              /\ c.early_stopping_patience = d.early_stopping_patience
              /\ c.early_stopping_min_delta = d.early_stopping_min_delta
              /\ v = w
<1>1. ASSUME NEW x, NEW y PROVE
        /\ StopsEarly(x) =>
             /\ EarlyItems(x, y) # <<>>
             /\ EarlyItems(x, y)[2] = Word(x.early_stopping_patience)
             /\ EarlyItems(x, y)[3] = Word(x.early_stopping_min_delta)
             /\ EarlyItems(x, y)[4] = DigestDataset(y)
        /\ ~StopsEarly(x) => EarlyItems(x, y) = <<>>
  BY DEF EarlyItems
<1> QED
  BY <1>1, WordIs, SettingsAssumption

(* Trainings with one digest make the same use of their settings.           *)
LEMMA TrainingTold ==
  ASSUME NEW c, TypedFields(c), NEW v, StopsEarly(c) => v \in Datasets,
         NEW d, TypedFields(d), NEW w, StopsEarly(d) => w \in Datasets,
         DigestTraining(c, v) = DigestTraining(d, w), NEW e
  PROVE  /\ UsedByEpochs(c, e) = UsedByEpochs(d, e)
         /\ UsedByOptimizer(c) = UsedByOptimizer(d)
         /\ UsedByControls(c, v) = UsedByControls(d, w)
<1>1. UsedByEpochs(c, e) = UsedByEpochs(d, e)
  <2>1. /\ c.epochs = d.epochs /\ c.learning_rate = d.learning_rate
        /\ c.seed = d.seed /\ c.loss = d.loss
        /\ c.checkpoint_interval = d.checkpoint_interval
    <3>1. BaseItems(c) = BaseItems(d)
      BY SameSections
    <3> QED
      BY ONLY <3>1, BaseTold
  <2>2. c.batch_size = d.batch_size /\ c.shuffle = d.shuffle
    BY SameSections, BatchTold
  <2>3. Given(c.gradient_clip_norm > 0, <<c.gradient_clip_norm>>)
        = Given(d.gradient_clip_norm > 0, <<d.gradient_clip_norm>>)
    BY SameSections, BatchTold DEF Given
  <2>4. Given(Regularized(c), <<c.l1_regularization, c.l2_regularization,
                                c.regularize_biases>>)
        = Given(Regularized(d), <<d.l1_regularization, d.l2_regularization,
                                  d.regularize_biases>>)
    BY SameSections, BatchTold DEF Given
  <2>5. BatchSize(c, e) = BatchSize(d, e)
    BY <2>2 DEF BatchSize
  <2> QED
    BY ONLY <2>1, <2>2, <2>3, <2>4, <2>5 DEF UsedByEpochs
<1>2. UsedByOptimizer(c) = UsedByOptimizer(d)
  BY SameSections, OptimizerTold, ScheduleTold DEF UsedByOptimizer, Given
<1>3. UsedByControls(c, v) = UsedByControls(d, w)
  <2>1. /\ c.divergence_threshold \in Int /\ d.divergence_threshold \in Int
        /\ c.target_loss \in Int /\ d.target_loss \in Int
    BY DEF TypedFields
  <2>2. /\ Given(c.divergence_threshold > 0, <<c.divergence_threshold>>)
           = Given(d.divergence_threshold > 0, <<d.divergence_threshold>>)
        /\ Given(c.target_loss >= 0, <<c.target_loss>>)
           = Given(d.target_loss >= 0, <<d.target_loss>>)
        /\ Given(c.max_no_improvement_epochs # 0,
                 <<c.max_no_improvement_epochs, c.no_improvement_min_delta>>)
           = Given(d.max_no_improvement_epochs # 0,
                   <<d.max_no_improvement_epochs, d.no_improvement_min_delta>>)
    BY <2>1, SameSections, ControlsTold DEF Given, Controlled
  <2>3. Given(StopsEarly(c), <<c.early_stopping_patience,
                               c.early_stopping_min_delta, v>>)
        = Given(StopsEarly(d), <<d.early_stopping_patience,
                                 d.early_stopping_min_delta, w>>)
    BY SameSections, EarlyTold DEF Given
  <2> QED
    BY ONLY <2>2, <2>3 DEF UsedByControls
<1> QED
  BY <1>1, <1>2, <1>3

(* The digest of the data tells the dataset and its preprocessing.          *)
LEMMA DataTold ==
  ASSUME NEW d \in Datasets, NEW p \in Preprocessings \cup {Absent},
         NEW e \in Datasets, NEW q \in Preprocessings \cup {Absent},
         DigestData(d, p) = DigestData(e, q)
  PROVE  d = e /\ p = q
<1>1. ASSUME NEW x, NEW y PROVE
        /\ y = Absent => /\ Len(DigestData(x, y)) = 1
                         /\ DigestData(x, y)[1] = DigestDataset(x)
        /\ y # Absent => /\ Len(DigestData(x, y)) = 3
                         /\ DigestData(x, y)[2] = DigestDataset(x)
                         /\ DigestData(x, y)[3] = y
  BY DEF DigestData
<1>2. DigestDataset(d) = DigestDataset(e) /\ p = q
  BY <1>1
<1> QED
  BY <1>2, SettingsAssumption

-----------------------------------------------------------------------------
(* The stream of a model.                                                   *)

(* "f" is what the first sequences of "s" make up together.                 *)
FlattensUpTo(f, s, n) ==
  /\ f = [i \in 1 .. n |-> f[i]]
  /\ \A i \in 1 .. n : f[i] = IF i = 1 THEN s[i] ELSE Joined(f[i - 1], s[i])

LEMMA FlattenSeqIs ==
  ASSUME NEW s, Len(s) \in Nat \ {0}
  PROVE  \E f : FlattensUpTo(f, s, Len(s)) /\ FlattenSeq(s) = f[Len(s)]
<1> DEFINE N == Len(s)
           Step(g) == [i \in 1 .. N |->
                         IF i = 1 THEN s[i] ELSE Joined(g[i - 1], s[i])]
           S == {n \in Nat : \E g : FlattensUpTo(g, s, n)}
<1>1. 0 \in S
  <2> DEFINE g == [i \in 1 .. 0 |-> s]
  <2>1. g = [i \in 1 .. 0 |-> g[i]] /\ \A i \in 1 .. 0 : FALSE
    OBVIOUS
  <2> HIDE DEF g
  <2>2. FlattensUpTo(g, s, 0)
    BY <2>1 DEF FlattensUpTo
  <2> QED
    BY <2>2
<1>2. ASSUME NEW n \in Nat, n \in S
      PROVE  n + 1 \in S
  <2>1. PICK g : FlattensUpTo(g, s, n)
    BY <1>2
  <2> DEFINE v == IF n = 0 THEN s[1] ELSE Joined(g[n], s[n + 1])
             h == [i \in 1 .. n + 1 |-> IF i = n + 1 THEN v ELSE g[i]]
  <2>2. h[n + 1] = v /\ \A i \in 1 .. n : h[i] = g[i]
    OBVIOUS
  <2>3. h = [i \in 1 .. n + 1 |-> h[i]]
    OBVIOUS
  <2> HIDE DEF h
  <2>4. ASSUME NEW i \in 1 .. n + 1
        PROVE  h[i] = IF i = 1 THEN s[i] ELSE Joined(h[i - 1], s[i])
    <3>1. CASE i = n + 1
      <4>1. i = 1 <=> n = 0
        BY <3>1
      <4>2. i # 1 => n \in 1 .. n /\ i - 1 = n
        BY <3>1
      <4> QED
        BY <2>2, <3>1, <4>1, <4>2
    <3>2. CASE i # n + 1
      <4>1. i \in 1 .. n /\ (i # 1 => i - 1 \in 1 .. n)
        BY <3>2
      <4>2. h[i] = g[i] /\ (i # 1 => h[i - 1] = g[i - 1])
        BY <2>2, <4>1
      <4>3. g[i] = IF i = 1 THEN s[i] ELSE Joined(g[i - 1], s[i])
        BY <2>1, <4>1 DEF FlattensUpTo
      <4> QED
        BY <4>2, <4>3
    <3> QED
      BY <3>1, <3>2
  <2>5. FlattensUpTo(h, s, n + 1)
    BY ONLY <2>3, <2>4 DEF FlattensUpTo
  <2> QED
    BY <2>5
<1>3. Nat \subseteq S
  <2> HIDE DEF S
  <2> QED
    BY <1>1, <1>2, SetInduction
<1>4. PICK g : FlattensUpTo(g, s, N)
  BY <1>3
<1>5. g = Step(g)
  BY <1>4 DEF FlattensUpTo
<1> DEFINE r == CHOOSE f : f = Step(f)
<1>6. FlattenSeq(s) = r[N]
  BY DEF FlattenSeq, Joined
<1>7. r = Step(r)
  <2> HIDE DEF Step
  <2> QED
    BY <1>5
<1> HIDE DEF r
<1>8. /\ r = [i \in 1 .. N |-> r[i]]
      /\ \A i \in 1 .. N :
           r[i] = IF i = 1 THEN s[i] ELSE Joined(r[i - 1], s[i])
  BY <1>7
<1>9. FlattensUpTo(r, s, N)
  BY <1>8 DEF FlattensUpTo
<1> QED
  BY <1>6, <1>9

LEMMA JoinedIs ==
  ASSUME NEW S, NEW a \in Seq(S), NEW b \in Seq(S)
  PROVE  Joined(a, b) \in Seq(S)
  BY ConcatProperties DEF Joined

LEMMA JoinedCancel ==
  ASSUME NEW S, NEW a \in Seq(S), NEW b \in Seq(S), NEW c \in Seq(S),
         Joined(a, b) = Joined(a, c)
  PROVE  b = c
<1>1. a \o b = a \o c
  BY Zenon DEF Joined
<1> QED
  BY <1>1, SameLengthCancel

LEMMA JoinedEmpty ==
  ASSUME NEW S, NEW a \in Seq(S)
  PROVE  Joined(a, <<>>) = a
  BY ConcatEmptySeq DEF Joined

LEMMA FlattenSteps ==
  ASSUME NEW N \in Nat \ {0}, NEW s, NEW f, FlattensUpTo(f, s, N)
  PROVE  f[1] = s[1] /\ \A i \in 2 .. N : f[i] = Joined(f[i - 1], s[i])
<1>1. \A i \in 1 .. N : f[i] = IF i = 1 THEN s[i] ELSE Joined(f[i - 1], s[i])
  BY DEF FlattensUpTo
<1>2. 1 \in 1 .. N /\ \A i \in 2 .. N : i \in 1 .. N /\ i # 1
  OBVIOUS
<1> QED
  BY ONLY <1>1, <1>2

(* What follows the first sequences.                                        *)
Remains(S, f, N) ==
  /\ \A i \in 1 .. N : f[i] \in Seq(S)
  /\ \A i \in 1 .. N : \E r \in Seq(S) : f[N] = Joined(f[i], r)

LEMMA Remaining ==
  ASSUME NEW S, NEW N \in Nat \ {0}, NEW s, \A i \in 1 .. N : s[i] \in Seq(S),
         NEW f, FlattensUpTo(f, s, N)
  PROVE  Remains(S, f, N)
<1>0. \A a, b, c \in Seq(S) :
        Joined(Joined(a, b), c) = Joined(a, Joined(b, c))
  BY JoinedTwice
<1>1. f[1] = s[1] /\ \A i \in 2 .. N : f[i] = Joined(f[i - 1], s[i])
  BY FlattenSteps
<1>2. \A i \in 1 .. N : f[i] \in Seq(S)
  <2> DEFINE T == {n \in Nat : n + 1 \in 1 .. N => f[n + 1] \in Seq(S)}
  <2>1. 0 \in T
    BY <1>1
  <2>2. ASSUME NEW n \in Nat, n \in T PROVE n + 1 \in T
    <3> SUFFICES ASSUME n + 2 \in 1 .. N PROVE f[n + 2] \in Seq(S)
      OBVIOUS
    <3>1. n + 1 \in 1 .. N /\ n + 2 \in 2 .. N /\ (n + 2) - 1 = n + 1
      OBVIOUS
    <3>2. f[n + 1] \in Seq(S) /\ f[n + 2] = Joined(f[n + 1], s[n + 2])
      BY <1>1, <2>2, <3>1
    <3>3. s[n + 2] \in Seq(S)
      OBVIOUS
    <3> QED
      BY <3>2, <3>3, JoinedIs
  <2> HIDE DEF T
  <2>3. Nat \subseteq T
    BY <2>1, <2>2, SetInduction
  <2>4. ASSUME NEW i \in 1 .. N PROVE f[i] \in Seq(S)
    <3>1. i - 1 \in T /\ (i - 1) + 1 = i
      BY <2>3
    <3> QED
      BY <3>1 DEF T
  <2> QED
    BY <2>4
<1>3. \A i \in 1 .. N : \E r \in Seq(S) : f[N] = Joined(f[i], r)
  <2> DEFINE T == {n \in Nat : N - n \in 1 .. N =>
                     \E r \in Seq(S) : f[N] = Joined(f[N - n], r)}
  <2>1. 0 \in T
    <3>1. N - 0 = N /\ N \in 1 .. N /\ <<>> \in Seq(S)
      OBVIOUS
    <3>2. f[N] = Joined(f[N], <<>>)
      BY <1>2, <3>1, JoinedEmpty
    <3> QED
      BY <3>1, <3>2
  <2>2. ASSUME NEW n \in Nat, n \in T PROVE n + 1 \in T
    <3> SUFFICES ASSUME N - (n + 1) \in 1 .. N
                 PROVE  \E r \in Seq(S) : f[N] = Joined(f[N - (n + 1)], r)
      OBVIOUS
    <3> DEFINE k == N - n
               l == N - (n + 1)
    <3>1. k \in 1 .. N /\ k \in 2 .. N /\ k - 1 = l /\ l \in 1 .. N
      OBVIOUS
    <3>2. PICK r \in Seq(S) : f[N] = Joined(f[k], r)
      BY <2>2, <3>1
    <3> HIDE DEF k, l
    <3>3. f[k] = Joined(f[l], s[k]) /\ f[l] \in Seq(S) /\ s[k] \in Seq(S)
      BY <1>1, <1>2, <3>1
    <3>4. f[N] = Joined(f[l], Joined(s[k], r)) /\ Joined(s[k], r) \in Seq(S)
      <4>1. Joined(Joined(f[l], s[k]), r) = Joined(f[l], Joined(s[k], r))
        BY ONLY <1>0, <3>3, r \in Seq(S)
      <4>2. Joined(s[k], r) \in Seq(S)
        BY ONLY <3>3, r \in Seq(S), JoinedIs
      <4> QED
        BY ONLY <3>2, <3>3, <4>1, <4>2
    <3> QED
      BY <3>4 DEF l
  <2> HIDE DEF T
  <2>3. Nat \subseteq T
    BY <2>1, <2>2, SetInduction
  <2>4. ASSUME NEW i \in 1 .. N
        PROVE  \E r \in Seq(S) : f[N] = Joined(f[i], r)
    <3>1. N - i \in T /\ N - (N - i) = i
      BY <2>3
    <3> QED
      BY <3>1 DEF T
  <2> QED
    BY <2>4
<1> QED
  BY <1>2, <1>3 DEF Remains

(* Sequences of which none begins another are told by what they make up.    *)
NoneBeginsAnother(S, s, t, N) ==
  /\ \A i \in 1 .. N : s[i] \in Seq(S) /\ t[i] \in Seq(S)
  /\ \A i \in 1 .. N : \A r, q \in Seq(S) :
       Joined(s[i], r) = Joined(t[i], q) => s[i] = t[i]

LEMMA FlattenTold ==
  ASSUME NEW S, NEW N \in Nat \ {0}, NEW s, NEW t,
         NoneBeginsAnother(S, s, t, N), NEW f, FlattensUpTo(f, s, N), NEW g, FlattensUpTo(g, t, N),
         f[N] = g[N]
  PROVE  \A i \in 1 .. N : s[i] = t[i]
<1>a. /\ \A i \in 1 .. N : s[i] \in Seq(S)
      /\ \A i \in 1 .. N : t[i] \in Seq(S)
      /\ \A i \in 1 .. N : \A r, q \in Seq(S) :
           Joined(s[i], r) = Joined(t[i], q) => s[i] = t[i]
  BY DEF NoneBeginsAnother
<1>1. /\ f[1] = s[1] /\ \A i \in 2 .. N : f[i] = Joined(f[i - 1], s[i])
      /\ g[1] = t[1] /\ \A i \in 2 .. N : g[i] = Joined(g[i - 1], t[i])
  BY FlattenSteps
<1>2. /\ \A i \in 1 .. N : f[i] \in Seq(S)
      /\ \A i \in 1 .. N : \E r \in Seq(S) : f[N] = Joined(f[i], r)
  <2>1. Remains(S, f, N)
    BY <1>a, Remaining
  <2> QED
    BY <2>1 DEF Remains
<1>3. /\ \A i \in 1 .. N : g[i] \in Seq(S)
      /\ \A i \in 1 .. N : \E r \in Seq(S) : g[N] = Joined(g[i], r)
  <2>1. Remains(S, g, N)
    BY <1>a, Remaining
  <2> QED
    BY <2>1 DEF Remains
<1>0. \A a, b, c \in Seq(S) :
        Joined(Joined(a, b), c) = Joined(a, Joined(b, c))
  BY JoinedTwice
<1> DEFINE T == {n \in Nat : n + 1 \in 1 .. N =>
                   f[n + 1] = g[n + 1] /\ s[n + 1] = t[n + 1]}
<1>4. 0 \in T
  <2>1. 1 \in 1 .. N
    OBVIOUS
  <2>2. PICK r \in Seq(S) : f[N] = Joined(f[1], r)
    BY <1>2, <2>1
  <2>3. PICK q \in Seq(S) : g[N] = Joined(g[1], q)
    BY <1>3, <2>1
  <2>4. s[1] = t[1]
    BY <1>a, <1>1, <2>1, <2>2, <2>3
  <2> QED
    BY <1>1, <2>4
<1>5. ASSUME NEW n \in Nat, n \in T PROVE n + 1 \in T
  <2> SUFFICES ASSUME n + 2 \in 1 .. N
               PROVE  f[n + 2] = g[n + 2] /\ s[n + 2] = t[n + 2]
    OBVIOUS
  <2> DEFINE k == n + 1
             l == n + 2
  <2>1. k \in 1 .. N /\ l \in 2 .. N /\ l \in 1 .. N /\ l - 1 = k
    OBVIOUS
  <2>2. f[k] = g[k]
    BY <1>5, <2>1
  <2> HIDE DEF k, l
  <2>3. PICK r \in Seq(S) : f[N] = Joined(f[l], r)
    BY <1>2, <2>1
  <2>4. PICK q \in Seq(S) : g[N] = Joined(g[l], q)
    BY <1>3, <2>1
  <2>5. /\ f[l] = Joined(f[k], s[l]) /\ g[l] = Joined(f[k], t[l])
        /\ f[k] \in Seq(S) /\ s[l] \in Seq(S) /\ t[l] \in Seq(S)
    BY <1>a, <1>1, <1>2, <2>1, <2>2
  <2>6. /\ f[N] = Joined(f[k], Joined(s[l], r))
        /\ g[N] = Joined(f[k], Joined(t[l], q))
    <3>1. Joined(Joined(f[k], s[l]), r) = Joined(f[k], Joined(s[l], r))
      BY ONLY <1>0, <2>5, r \in Seq(S)
    <3>2. Joined(Joined(f[k], t[l]), q) = Joined(f[k], Joined(t[l], q))
      BY ONLY <1>0, <2>5, q \in Seq(S)
    <3> QED
      BY ONLY <2>3, <2>4, <2>5, <3>1, <3>2
  <2>7. Joined(s[l], r) \in Seq(S) /\ Joined(t[l], q) \in Seq(S)
    BY <2>5, JoinedIs
  <2>8. Joined(s[l], r) = Joined(t[l], q)
    BY <2>5, <2>6, <2>7, JoinedCancel
  <2>9. s[l] = t[l]
    BY <1>a, <2>1, <2>8
  <2> QED
    BY <2>5, <2>9 DEF l
<1> HIDE DEF T
<1>6. Nat \subseteq T
  BY <1>4, <1>5, SetInduction
<1>7. ASSUME NEW i \in 1 .. N PROVE s[i] = t[i]
  <2>1. i - 1 \in T /\ (i - 1) + 1 = i
    BY <1>6
  <2> QED
    BY <2>1 DEF T
<1> QED
  BY <1>7

ModelNames ==
  {"model"} \cup Activations \cup ParameterNames

ModelItems ==
  {Text(n) : n \in ModelNames} \cup {Word(x) : x \in Int}

LEMMA ModelItemsAre ==
  /\ \A n \in ModelNames : Text(n) \in ModelItems
  /\ \A x \in Int : Word(x) \in ModelItems
  BY DEF ModelItems

LayerHead(l) ==
  <<Word(l.neurons), Text(l.kind), Word(Len(l.parameters))>>

ParameterItems(p) == <<Text(p[1]), Word(p[2])>>

LayerEnd(l) ==
  [i \in DOMAIN l.parameters |-> ParameterItems(l.parameters[i])]

LEMMA ReadLayer ==
  ASSUME NEW l \in WritableLayers, LayerReads(l)
  PROVE  /\ l.neurons \in Int /\ l.kind \in ModelNames
         /\ Len(l.parameters) = ParameterCount(l.kind)
         /\ Len(l.parameters) \in {0, 1}
         /\ DOMAIN l.parameters = 1 .. Len(l.parameters)
         /\ \A i \in 1 .. Len(l.parameters) :
              /\ l.parameters[i][1] \in ModelNames
              /\ l.parameters[i][2] \in Int
<1> DEFINE p == l.parameters
<1>1. /\ l.neurons \in Int /\ l.kind \in ModelNames
      /\ Len(p) = ParameterCount(l.kind)
  BY DEF LayerReads, ActivationValid, ModelNames
<1>2. Len(p) \in {0, 1}
  BY <1>1 DEF ParameterCount
<1>3. DOMAIN p = 1 .. Len(p)
  <2>1. p \in Seq((ParameterNames \cup {Junk}) \X (Int \cup {Junk}))
    BY DEF WritableLayers
  <2> HIDE DEF p
  <2> QED
    BY <2>1
<1>4. \A i \in DOMAIN p : p[i][1] \in ParameterNames /\ p[i][2] \in Int
  BY DEF LayerReads, ParametersRead
<1>5. ParameterNames \subseteq ModelNames
  BY DEF ModelNames
<1> QED
  BY <1>1, <1>2, <1>3, <1>4, <1>5

LEMMA LayerHeadIs ==
  ASSUME NEW l \in WritableLayers, LayerReads(l)
  PROVE  /\ LayerHead(l) \in Seq(ModelItems) /\ Len(LayerHead(l)) = 3
         /\ LayerHead(l)[1] = Word(l.neurons) /\ LayerHead(l)[2] = Text(l.kind)
         /\ LayerHead(l)[3] = Word(Len(l.parameters))
<1>1. /\ Word(l.neurons) \in ModelItems /\ Text(l.kind) \in ModelItems
      /\ Word(Len(l.parameters)) \in ModelItems
  BY ReadLayer, ModelItemsAre
<1> QED
  BY <1>1 DEF LayerHead

LEMMA LayerItemsAre ==
  ASSUME NEW l \in WritableLayers, LayerReads(l)
  PROVE  /\ LayerItems(l) \in Seq(ModelItems)
         /\ \A i \in 1 .. 3 : LayerItems(l)[i] = LayerHead(l)[i]
         /\ Len(LayerItems(l)) = 3 + 2 * Len(l.parameters)
         /\ Len(l.parameters) = 1 =>
              /\ LayerItems(l)[4] = Text(l.parameters[1][1])
              /\ LayerItems(l)[5] = Word(l.parameters[1][2])
<1> DEFINE h == LayerHead(l)
           p == l.parameters
           e == FlattenSeq(LayerEnd(l))
<1>1. h \in Seq(ModelItems) /\ Len(h) = 3
  BY LayerHeadIs
<1>2. LayerItems(l) = h \o e
  BY Zenon DEF LayerItems, LayerHead, LayerEnd, ParameterItems
<1>3. /\ DOMAIN p = 1 .. Len(p) /\ Len(p) \in {0, 1}
      /\ \A i \in 1 .. Len(p) : p[i][1] \in ModelNames /\ p[i][2] \in Int
  BY ReadLayer
<1>4. CASE Len(p) = 0
  <2>1. LayerEnd(l) = <<>>
    BY <1>3, <1>4 DEF LayerEnd
  <2>2. e = <<>>
    BY <2>1 DEF FlattenSeq
  <2> HIDE DEF h, e
  <2>3. LayerItems(l) = h
    BY <1>1, <1>2, <2>2, ConcatEmptySeq
  <2> QED
    BY <1>1, <1>4, <2>3 DEF h
<1>5. CASE Len(p) = 1
  <2> DEFINE q == ParameterItems(p[1])
  <2>1. Text(p[1][1]) \in ModelItems /\ Word(p[1][2]) \in ModelItems
    BY <1>3, <1>5, ModelItemsAre
  <2>2. /\ q \in Seq(ModelItems) /\ Len(q) = 2 /\ q[1] = Text(p[1][1])
        /\ q[2] = Word(p[1][2])
    BY <2>1 DEF ParameterItems
  <2>3. LayerEnd(l) = [i \in 1 .. 1 |-> ParameterItems(p[i])]
    BY <1>3, <1>5 DEF LayerEnd
  <2>4. Len(LayerEnd(l)) = 1 /\ LayerEnd(l)[1] = q
    BY <2>3
  <2>5. PICK f : FlattensUpTo(f, LayerEnd(l), 1) /\ e = f[1]
    <3> DEFINE s == LayerEnd(l)
    <3> HIDE DEF s
    <3>1. Len(s) = 1
      BY <2>4 DEF s
    <3>2. \E f : FlattensUpTo(f, s, Len(s)) /\ FlattenSeq(s) = f[Len(s)]
      <4>1. Len(s) \in Nat \ {0}
        BY <3>1
      <4> QED
        BY ONLY <4>1, FlattenSeqIs
    <3>3. \E f : FlattensUpTo(f, s, 1) /\ FlattenSeq(s) = f[1]
      BY ONLY <3>1, <3>2
    <3> QED
      BY <3>3 DEF s
  <2>6. e = q
    BY <2>4, <2>5 DEF FlattensUpTo
  <2> HIDE DEF h, e, q
  <2>7. /\ h \o q \in Seq(ModelItems) /\ Len(h \o q) = Len(h) + Len(q)
        /\ \A i \in 1 .. Len(h) + Len(q) :
             (h \o q)[i] = IF i <= Len(h) THEN h[i] ELSE q[i - Len(h)]
    BY <1>1, <2>2, ConcatProperties
  <2>8. Len(h) + Len(q) = 5 /\ 4 - Len(h) = 1 /\ 5 - Len(h) = 2
    BY <1>1, <2>2
  <2>9. /\ h \o q \in Seq(ModelItems) /\ Len(h \o q) = 5
        /\ \A i \in 1 .. 3 : (h \o q)[i] = h[i]
        /\ (h \o q)[4] = q[1] /\ (h \o q)[5] = q[2]
    BY <1>1, <2>7, <2>8
  <2>10. LayerItems(l) = h \o q
    BY <1>2, <2>6
  <2> HIDE DEF p
  <2>11. /\ LayerItems(l) \in Seq(ModelItems) /\ Len(LayerItems(l)) = 5
         /\ \A i \in 1 .. 3 : LayerItems(l)[i] = h[i]
         /\ LayerItems(l)[4] = Text(p[1][1])
         /\ LayerItems(l)[5] = Word(p[1][2])
    BY ONLY <2>2, <2>9, <2>10
  <2> QED
    BY <1>5, <2>11 DEF h, p
<1> QED
  BY <1>3, <1>4, <1>5

LEMMA SameLayer ==
  ASSUME NEW l \in WritableLayers, NEW k \in WritableLayers,
         l.neurons = k.neurons, l.kind = k.kind, l.parameters = k.parameters
  PROVE  l = k
<1>1. /\ l = [neurons |-> l.neurons, kind |-> l.kind, parameters |-> l.parameters]
      /\ k = [neurons |-> k.neurons, kind |-> k.kind, parameters |-> k.parameters]
  BY DEF WritableLayers
<1> QED
  BY <1>1, Zenon

(* The items of a layer tell it, whatever follows them.                     *)
LEMMA LayerTold ==
  ASSUME NEW l \in WritableLayers, LayerReads(l),
         NEW k \in WritableLayers, LayerReads(k),
         NEW r \in Seq(ModelItems), NEW q \in Seq(ModelItems),
         Joined(LayerItems(l), r) = Joined(LayerItems(k), q)
  PROVE  l = k
<1> DEFINE a == LayerItems(l)
           b == LayerItems(k)
           p == l.parameters
           s == k.parameters
<1>1. /\ a \in Seq(ModelItems) /\ b \in Seq(ModelItems)
      /\ Len(a) = 3 + 2 * Len(p) /\ Len(b) = 3 + 2 * Len(s)
      /\ \A i \in 1 .. 3 : a[i] = LayerHead(l)[i] /\ b[i] = LayerHead(k)[i]
      /\ Len(p) = 1 => a[4] = Text(p[1][1]) /\ a[5] = Word(p[1][2])
      /\ Len(s) = 1 => b[4] = Text(s[1][1]) /\ b[5] = Word(s[1][2])
  BY LayerItemsAre
<1>2. Len(p) \in {0, 1} /\ Len(s) \in {0, 1}
  BY ReadLayer
<1>3. /\ a[1] = Word(l.neurons) /\ a[2] = Text(l.kind) /\ a[3] = Word(Len(p))
      /\ b[1] = Word(k.neurons) /\ b[2] = Text(k.kind) /\ b[3] = Word(Len(s))
  BY <1>1, LayerHeadIs
<1>4. a \o r = b \o q
  BY Zenon DEF Joined
<1> HIDE DEF a, b
<1>5. a[3] = b[3]
  <2>1. 3 \in 1 .. Len(a) /\ 3 \in 1 .. Len(b)
    BY <1>1, <1>2
  <2>2. (a \o r)[3] = a[3]
    BY ONLY <1>1, <2>1, r \in Seq(ModelItems), FirstOfConcat
  <2>3. (b \o q)[3] = b[3]
    BY ONLY <1>1, <2>1, q \in Seq(ModelItems), FirstOfConcat
  <2> QED
    BY ONLY <1>4, <2>2, <2>3
<1>6. Len(p) = Len(s)
  BY <1>3, <1>5, WordIs
<1>7. a = b
  <2>1. Len(a) = Len(b)
    BY ONLY <1>1, <1>6
  <2> QED
    BY ONLY <1>1, <1>4, <2>1, r \in Seq(ModelItems), q \in Seq(ModelItems),
            SameLengthCancel
<1>8. l.neurons = k.neurons /\ l.kind = k.kind
  BY <1>3, <1>7, WordIs, TextIs
<1>9. p = s
  <2> DEFINE T == (ParameterNames \cup {Junk}) \X (Int \cup {Junk})
  <2>1. p \in Seq(T) /\ s \in Seq(T)
    BY DEF WritableLayers
  <2> HIDE DEF p, s
  <2>2. ASSUME Len(p) = 1 PROVE p[1] = s[1]
    <3>1. p[1][1] = s[1][1] /\ p[1][2] = s[1][2]
      BY <1>1, <1>6, <1>7, <2>2, WordIs, TextIs
    <3>2. p[1] \in T /\ s[1] \in T
      <4>1. 1 \in 1 .. Len(p) /\ 1 \in 1 .. Len(s)
        BY ONLY <1>6, <2>2
      <4> HIDE DEF T
      <4> QED
        BY ONLY <2>1, <4>1, ElementOfSeq
    <3> QED
      BY <3>1, <3>2
  <2> HIDE DEF T
  <2>3. \A i \in 1 .. Len(p) : p[i] = s[i]
    <3>1. \A i \in 1 .. Len(p) : i = 1 /\ Len(p) = 1
      BY ONLY <1>2
    <3> QED
      BY <2>2, <3>1
  <2> QED
    BY <1>6, <2>1, <2>3, SeqEqual
<1> QED
  BY <1>8, <1>9, SameLayer

ModelHead(m) == <<Text("model"), Word(m.inputs), Word(Len(m.layers))>>

ModelEndItems(m) == [i \in DOMAIN m.layers |-> LayerItems(m.layers[i])]

LEMMA ModelStream ==
  ASSUME NEW m, ReadableModel(m)
  PROVE  LET n == Len(m.layers)
             s == ModelEndItems(m)
         IN  /\ n \in Nat \ {0} /\ DOMAIN m.layers = 1 .. n
             /\ Len(s) = n
             /\ \A i \in 1 .. n : /\ m.layers[i] \in WritableLayers
                                  /\ LayerReads(m.layers[i])
                                  /\ s[i] = LayerItems(m.layers[i])
                                  /\ s[i] \in Seq(ModelItems)
             /\ ModelHead(m) \in Seq(ModelItems) /\ Len(ModelHead(m)) = 3
             /\ ModelHead(m)[2] = Word(m.inputs) /\ ModelHead(m)[3] = Word(n)
             /\ DigestModel(m) = ModelHead(m) \o FlattenSeq(s)
<1> DEFINE n == Len(m.layers)
           s == ModelEndItems(m)
           L == m.layers
<1>1. m \in WritableModels /\ \A i \in DOMAIN L : LayerReads(L[i])
  BY DEF ReadableModel
<1>2. L \in Seq(WritableLayers) /\ L # <<>> /\ m.inputs \in Int
  BY <1>1 DEF WritableModels
<1>3. /\ n \in Nat \ {0} /\ DOMAIN L = 1 .. n
      /\ \A i \in 1 .. n : L[i] \in WritableLayers
  <2> HIDE DEF L
  <2>1. Len(L) \in Nat \ {0} /\ DOMAIN L = 1 .. Len(L)
        /\ \A i \in 1 .. Len(L) : L[i] \in WritableLayers
    BY <1>2
  <2> QED
    BY <2>1 DEF L
<1>4. \A i \in 1 .. n : LayerItems(L[i]) \in Seq(ModelItems)
  BY <1>1, <1>3, LayerItemsAre
<1>5. Len(s) = n /\ \A i \in 1 .. n : s[i] = LayerItems(L[i])
  <2>1. s = [i \in 1 .. n |-> LayerItems(L[i])]
    BY <1>3 DEF ModelEndItems
  <2> HIDE DEF L, n, s
  <2> QED
    BY <1>3, <2>1
<1>6. /\ ModelHead(m) \in Seq(ModelItems) /\ Len(ModelHead(m)) = 3
      /\ ModelHead(m)[2] = Word(m.inputs) /\ ModelHead(m)[3] = Word(n)
  <2>1. /\ Text("model") \in ModelItems /\ Word(m.inputs) \in ModelItems
        /\ Word(n) \in ModelItems
    BY <1>2, <1>3, ModelItemsAre DEF ModelNames
  <2> QED
    BY <2>1 DEF ModelHead
<1>7. DigestModel(m) = ModelHead(m) \o FlattenSeq(s)
  BY Zenon DEF DigestModel, ModelHead, ModelEndItems
<1> QED
  BY <1>1, <1>3, <1>4, <1>5, <1>6, <1>7

LEMMA FlattenedModel ==
  ASSUME NEW m, ReadableModel(m)
  PROVE  /\ FlattenSeq(ModelEndItems(m)) \in Seq(ModelItems)
         /\ \E f : /\ FlattensUpTo(f, ModelEndItems(m), Len(m.layers))
                   /\ FlattenSeq(ModelEndItems(m)) = f[Len(m.layers)]
<1> DEFINE s == ModelEndItems(m)
           n == Len(m.layers)
<1>1. /\ n \in Nat \ {0} /\ Len(s) = n
      /\ \A i \in 1 .. n : s[i] \in Seq(ModelItems)
  BY ModelStream
<1> HIDE DEF s, n
<1>2. \E f : FlattensUpTo(f, s, Len(s)) /\ FlattenSeq(s) = f[Len(s)]
  <2>1. Len(s) \in Nat \ {0}
    BY <1>1
  <2> QED
    BY ONLY <2>1, FlattenSeqIs
<1>3. PICK f : FlattensUpTo(f, s, n) /\ FlattenSeq(s) = f[n]
  BY ONLY <1>1, <1>2
<1>4. Remains(ModelItems, f, n)
  BY <1>1, <1>3, Remaining
<1>5. FlattenSeq(s) \in Seq(ModelItems)
  BY <1>1, <1>3, <1>4 DEF Remains
<1> QED
  BY <1>3, <1>5 DEF s, n

(* Models with one digest are the same model.                               *)
LEMMA ModelTold ==
  ASSUME NEW m, ReadableModel(m), NEW n, ReadableModel(n),
         DigestModel(m) = DigestModel(n)
  PROVE  m = n
<1> DEFINE N == Len(m.layers)
           s == ModelEndItems(m)
           t == ModelEndItems(n)
           x == FlattenSeq(s)
           y == FlattenSeq(t)
<1>1. /\ N \in Nat \ {0}
      /\ ModelHead(m) \in Seq(ModelItems) /\ Len(ModelHead(m)) = 3
      /\ ModelHead(m)[2] = Word(m.inputs) /\ ModelHead(m)[3] = Word(N)
      /\ DigestModel(m) = ModelHead(m) \o x
  BY ModelStream
<1>2. /\ ModelHead(n) \in Seq(ModelItems) /\ Len(ModelHead(n)) = 3
      /\ ModelHead(n)[2] = Word(n.inputs)
      /\ ModelHead(n)[3] = Word(Len(n.layers))
      /\ DigestModel(n) = ModelHead(n) \o y
  BY ModelStream
<1>3. x \in Seq(ModelItems) /\ y \in Seq(ModelItems)
  BY FlattenedModel
<1> HIDE DEF x, y
<1>4. ModelHead(m) = ModelHead(n) /\ x = y
  <2>1. ModelHead(m) \o x = ModelHead(n) \o y
    BY <1>1, <1>2, Zenon
  <2>2. /\ ModelHead(m) \in Seq(ModelItems) /\ ModelHead(n) \in Seq(ModelItems)
        /\ Len(ModelHead(m)) = Len(ModelHead(n))
    BY <1>1, <1>2
  <2> QED
    BY ONLY <1>3, <2>1, <2>2, SameLengthCancel
<1>5. m.inputs = n.inputs /\ Len(n.layers) = N
  BY <1>1, <1>2, <1>4, WordIs
<1>6. PICK f : FlattensUpTo(f, s, N) /\ x = f[N]
  BY FlattenedModel DEF x
<1>7. PICK g : FlattensUpTo(g, t, N) /\ y = g[N]
  BY <1>5, FlattenedModel DEF y
<1>8. /\ DOMAIN m.layers = 1 .. N
      /\ \A i \in 1 .. N : /\ m.layers[i] \in WritableLayers
                           /\ LayerReads(m.layers[i])
                           /\ s[i] = LayerItems(m.layers[i])
                           /\ s[i] \in Seq(ModelItems)
  BY ModelStream
<1>9. /\ DOMAIN n.layers = 1 .. N
      /\ \A i \in 1 .. N : /\ n.layers[i] \in WritableLayers
                           /\ LayerReads(n.layers[i])
                           /\ t[i] = LayerItems(n.layers[i])
                           /\ t[i] \in Seq(ModelItems)
  BY <1>5, ModelStream
<1> HIDE DEF N, s, t
<1>10. ASSUME NEW i \in 1 .. N, NEW r \in Seq(ModelItems),
              NEW q \in Seq(ModelItems), Joined(s[i], r) = Joined(t[i], q)
       PROVE  m.layers[i] = n.layers[i] /\ s[i] = t[i]
  <2>1. m.layers[i] = n.layers[i]
    BY <1>8, <1>9, <1>10, LayerTold
  <2> QED
    BY <1>8, <1>9, <2>1
<1>11. \A i \in 1 .. N : s[i] = t[i]
  <2>1. f[N] = g[N]
    BY <1>4, <1>6, <1>7
  <2>2. NoneBeginsAnother(ModelItems, s, t, N)
    BY <1>8, <1>9, <1>10 DEF NoneBeginsAnother
  <2> QED
    BY ONLY <1>1, <1>6, <1>7, <2>1, <2>2, FlattenTold
<1>12. \A i \in 1 .. N : m.layers[i] = n.layers[i]
  <2> TAKE i \in 1 .. N
  <2>1. Joined(s[i], <<>>) = Joined(t[i], <<>>) /\ <<>> \in Seq(ModelItems)
    BY <1>11
  <2> QED
    BY <1>10, <2>1
<1>13. m \in WritableModels /\ n \in WritableModels
  BY DEF ReadableModel
<1>14. m.layers = n.layers
  <2>1. m.layers \in Seq(WritableLayers) /\ n.layers \in Seq(WritableLayers)
    BY <1>13 DEF WritableModels
  <2> QED
    BY <1>5, <1>12, <2>1, SeqEqual DEF N
<1>15. /\ m \in [ok : {TRUE}, inputs : {m.inputs}, layers : {m.layers}]
       /\ n \in [ok : {TRUE}, inputs : {m.inputs}, layers : {m.layers}]
  BY <1>5, <1>13, <1>14 DEF WritableModels
<1> QED
  BY ONLY <1>15, SameRecord

-----------------------------------------------------------------------------
(* What is saved and what continues from it.                                *)

(* Projects whose digests agree are used alike.                             *)
LEMMA DigestsTellUse ==
  ASSUME NEW p, Loadable(p), NEW q, Loadable(q),
         VerifyDigests(Digests(p), Digests(q))
  PROVE  Used(p) = Used(q)
<1>1. /\ DigestModel(p.model) = DigestModel(q.model)
      /\ DigestData(p.dataset, p.preprocessing)
         = DigestData(q.dataset, q.preprocessing)
      /\ DigestTraining(p.config, p.validation)
         = DigestTraining(q.config, q.validation)
  BY DEF VerifyDigests, Digests
<1>2. p.model = q.model
  BY <1>1, ModelTold DEF Loadable
<1>3. p.dataset = q.dataset /\ p.preprocessing = q.preprocessing
  BY <1>1, DataTold DEF Loadable
<1>4. TypedFields(p.config) /\ TypedFields(q.config)
  BY TypedAre DEF Loadable
<1>5. /\ StopsEarly(p.config) => p.validation \in Datasets
      /\ StopsEarly(q.config) => q.validation \in Datasets
  BY DEF Loadable
<1>6. /\ UsedByEpochs(p.config, p.dataset) = UsedByEpochs(q.config, q.dataset)
      /\ UsedByOptimizer(p.config) = UsedByOptimizer(q.config)
      /\ UsedByControls(p.config, p.validation)
         = UsedByControls(q.config, q.validation)
  BY <1>1, <1>3, <1>4, <1>5, TrainingTold
<1> QED
  BY ONLY <1>2, <1>3, <1>6 DEF Used

LEMMA LoadedLoadable ==
  ASSUME FilesInv, Loaded # Absent
  PROVE  Loadable(Loaded)
<1> DEFINE m == ReadModel(architecture)
           c == ReadConfig(conf)
           p == [model |-> m, config |-> c.config, dataset |-> train,
                 validation |-> validation, preprocessing |-> preprocessing]
<1>1. ProjectLoads(m, c) /\ Loaded = p
  BY DEF Loaded
<1>2. m.ok /\ c.ok
  BY <1>1 DEF ProjectLoads
<1>3. ReadableModel(m)
  <2>1. "model" \notin spoiled
    <3>1. "model" \in spoiled => m = NoModel
      BY DEF FilesInv, ModelInv
    <3>2. NoModel.ok = FALSE
      BY DEF NoModel
    <3> HIDE DEF m
    <3> QED
      BY <1>2, <3>1, <3>2
  <2>2. architecture = WriteModel(asked.model) /\ ReadableModel(asked.model)
    BY <2>1 DEF FilesInv, ModelInv
  <2>3. asked.model \in WritableModels
    BY <2>2 DEF ReadableModel
  <2>4. m = asked.model
    BY <2>2, <2>3, ModelReadBack
  <2> HIDE DEF m
  <2> QED
    BY <2>2, <2>4
<1>4. Typed(c.config)
  <2>1. conf \in Seq(Lines)
    BY DEF FilesInv, ConfInv
  <2>2. Len(conf) \in Nat /\ DOMAIN conf = 1 .. Len(conf)
    BY <2>1, LinesAre
  <2> QED
    BY <1>2, <2>2, MeantRead
<1>5. train \in Datasets
  BY <1>1 DEF FilesInv, RestInv, ProjectLoads, Fits
<1>6. StopsEarly(c.config) => validation \in Datasets
  BY <1>1 DEF FilesInv, RestInv, ProjectLoads, Fits
<1>7. preprocessing \in Preprocessings \cup {Absent}
  BY DEF FilesInv, RestInv
<1> HIDE DEF m, c
<1>8. Loadable(p)
  BY <1>3, <1>4, <1>5, <1>6, <1>7 DEF Loadable
<1> QED
  BY <1>1, <1>8

LEMMA InitSaved == Init => SavedInv
  BY DEF Init, SavedInv

LEMMA StepSaved == FilesInv /\ SavedInv /\ [Next]_vars => SavedInv'
<1> SUFFICES ASSUME FilesInv, SavedInv, [Next]_vars PROVE SavedInv'
  OBVIOUS
<1>1. CASE Train
  <2>1. /\ saved = Absent /\ Loaded # Absent /\ continued' = continued
        /\ saved' = [digests |-> Digests(Loaded), used |-> Used(Loaded)]
    BY <1>1 DEF Train
  <2>2. SavedOf(saved', Loaded)
    BY <2>1 DEF SavedOf
  <2>3. Loadable(Loaded)
    BY <2>1, LoadedLoadable
  <2>4. \E p : Loadable(p) /\ SavedOf(saved', p)
    BY <2>2, <2>3
  <2>5. continued' = Absent
    BY <2>1 DEF SavedInv
  <2> QED
    BY <2>4, <2>5 DEF SavedInv
<1>2. CASE Continue
  <2>1. /\ saved # Absent /\ Loaded # Absent /\ saved' = saved
        /\ VerifyDigests(saved.digests, Digests(Loaded))
        /\ continued' = Used(Loaded)
    BY <1>2 DEF Continue
  <2>2. PICK p : Loadable(p) /\ SavedOf(saved, p)
    BY <2>1 DEF SavedInv
  <2>3. Used(p) = Used(Loaded)
    BY <2>1, <2>2, LoadedLoadable, DigestsTellUse DEF SavedOf
  <2> QED
    BY <2>1, <2>2, <2>3 DEF SavedInv, SavedOf
<1>3. CASE UNCHANGED <<saved, continued>>
  BY <1>3 DEF SavedInv
<1>4. CASE \E line \in Offered : WriteLine(line) \/ RepeatLine(line)
  BY <1>3, <1>4 DEF WriteLine, RepeatLine, EditConf, Edit
<1>5. CASE \E i \in DOMAIN conf : DropLine(i) \/ MoveLine(i)
  BY <1>3, <1>5 DEF DropLine, MoveLine, Forget, EditConf, Edit
<1>6. CASE \E i, j \in DOMAIN conf : DropEarlyLines(i, j)
  BY <1>3, <1>6 DEF DropEarlyLines, Forget, EditConf, Edit
<1>7. CASE \E m \in Models : WriteLayers(m)
  BY <1>3, <1>7 DEF WriteLayers, EditModel, Edit
<1>8. CASE SpoilModel
  BY <1>3, <1>8 DEF SpoilModel, EditModel, Edit
<1>9. CASE EditData
  BY <1>3, <1>9 DEF EditData, Edit
<1>10. CASE UNCHANGED vars
  BY <1>3, <1>10 DEF vars
<1> QED
  BY <1>1, <1>2, <1>4, <1>5, <1>6, <1>7, <1>8, <1>9, <1>10 DEF Next

Inv == FilesInv /\ SavedInv

LEMMA Invariance == Spec => []Inv
<1>1. Init => Inv
  BY InitFiles, InitSaved DEF Inv
<1>2. Inv /\ [Next]_vars => Inv'
  BY StepFiles, StepSaved DEF Inv
<1> QED
  BY <1>1, <1>2, PTL DEF Spec

LEMMA SavedTypes ==
  ASSUME NEW p, Loadable(p)
  PROVE  /\ Used(p).epochs.batch \in 1 .. Used(p).dataset.samples
         /\ \/ Used(p).controls.early = <<>>
            \/ Used(p).controls.early[3] \in Datasets
<1>1. p.config.batch_size \in Nat /\ p.dataset.samples \in Nat \ {0}
  BY TypedAre, SettingsAssumption DEF Loadable, TypedFields
<1>2. BatchSize(p.config, p.dataset) \in 1 .. p.dataset.samples
  BY <1>1 DEF BatchSize
<1>3. /\ Used(p).epochs.batch = BatchSize(p.config, p.dataset)
      /\ Used(p).dataset = p.dataset
  BY DEF Used, UsedByEpochs
<1>4. Used(p).controls.early =
        Given(StopsEarly(p.config),
              <<p.config.early_stopping_patience,
                p.config.early_stopping_min_delta, p.validation>>)
  BY DEF Used, UsedByControls
<1>5. \/ Used(p).controls.early = <<>>
      \/ Used(p).controls.early[3] \in Datasets
  BY <1>4 DEF Given, Loadable
<1> QED
  BY <1>2, <1>3, <1>5

LEMMA TypesHold == Inv => TypeOK
<1> SUFFICES ASSUME FilesInv, SavedInv PROVE TypeOK
  BY DEF Inv
<1>1. Stated(conf) \subseteq ConfigKeys \cup {line[1] : line \in Offered}
  <2>1. conf \in Seq(Lines)
    BY DEF FilesInv, ConfInv
  <2>2. \A i \in DOMAIN conf : conf[i] \in Lines
    <3> HIDE DEF Lines
    <3> QED
      BY <2>1
  <2>3. \A line \in Lines : line[1] \in ConfigKeys \cup {l[1] : l \in Offered}
    BY DEF Lines
  <2> QED
    BY <2>2, <2>3 DEF Stated
<1>2. DOMAIN asked.config = ConfigKeys
  <2>1. asked.config = [k \in ConfigKeys |-> asked.config[k]]
    BY DEF FilesInv, ConfInv
  <2> QED
    BY ONLY <2>1
<1>3. saved # Absent =>
        /\ saved.used.epochs.batch \in 1 .. saved.used.dataset.samples
        /\ \/ saved.used.controls.early = <<>>
           \/ saved.used.controls.early[3] \in Datasets
  BY SavedTypes DEF SavedInv, SavedOf
<1> QED
  BY <1>1, <1>2, <1>3 DEF TypeOK, FilesInv, RestInv

(* Types, among them that parameters are only saved by a training whose     *)
(* batches fit the dataset and which has validation data when it may stop   *)
(* early (neural_project_load, neural_batch_plan_create).                   *)
THEOREM SettingsTypeCorrect == Spec => []TypeOK
  BY Invariance, TypesHold, PTL

(* A command that continues from saved parameters is accepted only when     *)
(* every setting, layer and datum that the code makes use of is what they   *)
(* were made with, whatever has been edited since: the three digests        *)
(* (src/digest.c) leave out nothing in use and run no two fields together.  *)
THEOREM OnlyContinuedAlike == Spec => []ContinuedAlike
<1>1. Inv => ContinuedAlike
  BY DEF Inv, SavedInv, ContinuedAlike
<1> QED
  BY <1>1, Invariance, PTL

=============================================================================
