------------------------------ MODULE ImportProofs ------------------------------
(***************************************************************************)
(* The import of a CSV file, for every table, schema, split and edit.      *)
(*                                                                         *)
(* First the split alone (ImportSplit): its bitwise division is exact for  *)
(* every width of size_t, capacities never wrap, the places beyond the     *)
(* quotas are fair, and every split that is not refused has the counts     *)
(* asked for.  "Divided" is the loop invariant: after the bits above       *)
(* "bit", result and residual divide the product with the prefix of the    *)
(* target that was read.  No intermediate number reaches Modulus, so that  *)
(* nothing wraps.                                                          *)
(*                                                                         *)
(* Then the whole import (DataImport): "ImportInv" says what is known of   *)
(* digests, schema and table at every place, so that whatever is read, the *)
(* split starts as the first part assumes it does and its promises hold of *)
(* the import too.                                                         *)
(*                                                                         *)
(* Last what is installed, while the CSV file is edited at most once and   *)
(* the schema however often: "RecordedInv" says which content each pass    *)
(* has read.  A pass over a file that is edited in its middle reads lines  *)
(* of two contents; with one edit, the digests of two passes around the    *)
(* one that loads the rows tell.                                           *)
(*                                                                         *)
(* What was fitted is proved in any precision: rounding is monotone, since *)
(* of the spacings of two numbers the smaller one divides the other.       *)
(* At the end are the lines: "ScanSound" says where the scanner of a line  *)
(* may read and write.                                                     *)
(***************************************************************************)
EXTENDS ImportProperties, SequenceTheorems, FiniteSetTheorems, WellFoundedInduction, TLAPS

(* The bits of the target that were read.                                   *)
Prefix == IF bit = 0 THEN Wanted ELSE Wanted \div (2 * bit)

Shape ==
  /\ rows \in 1 .. Modulus - 1
  /\ sizes \in Seq(0 .. rows)
  /\ sizes # <<>>
  /\ target \in [Subsets -> 0 .. rows - 1]
  /\ subset \in Subsets
  /\ class \in DOMAIN sizes
  /\ phase = "check" => subset = "test"

Divided ==
  phase = "divide" =>
    /\ bit \in Bits \cup {0}
    /\ bit # 0 => sizes[class] < rows
    /\ residual \in 0 .. rows - 1
    /\ result \in 0 .. Prefix
    /\ result * rows + residual = sizes[class] * Prefix

DivisionInv == Shape /\ Divided

-----------------------------------------------------------------------------
(* Facts about integers.                                                    *)

(* Quotient and remainder are determined by their equation.                 *)
LEMMA DivUnique ==
  ASSUME NEW n \in Nat, NEW d \in Nat \ {0}, NEW q \in Nat, NEW r \in 0 .. d - 1,
         n = q * d + r
  PROVE  n \div d = q /\ n % d = r
  BY SMT

(* What fits into a size_t does not wrap.                                   *)
LEMMA WrapSmall ==
  ASSUME NEW n \in Nat, n < Modulus, Modulus \in Nat \ {0}
  PROVE  Wrap(n) = n
  BY SMT DEF Wrap

(* A number is twice its half and its last bit.                             *)
LEMMA Halving ==
  ASSUME NEW n \in Nat
  PROVE  /\ n \div 2 \in Nat
         /\ n % 2 \in {0, 1}
         /\ n = 2 * (n \div 2) + (n % 2)
  BY SMT

(* Halving a quotient is dividing by twice the divisor.                     *)
LEMMA DivTwice ==
  ASSUME NEW n \in Nat, NEW d \in Nat \ {0}
  PROVE  n \div d \in Nat /\ (n \div d) \div 2 = n \div (2 * d)
  BY SMT

(* The sum of the loop's three equations, their products abbreviated.       *)
LEMMA SumOfEquations ==
  ASSUME NEW a \in Int, NEW b \in Int, NEW c \in Int, NEW d \in Int,
         NEW e \in Int, NEW r \in Int, NEW t \in Int, NEW u \in Int,
         a + r = d, b + t = 2 * r, c + u = t + e
  PROVE  2 * a + b + (c + u) = 2 * d + e
  BY SMT

(* A size_t has at least one bit.                                           *)
LEMMA ModulusPositive == Modulus \in Nat \ {0} /\ TopBit \in Nat \ {0}
  BY BitAssumption, SMT DEF Modulus

(* One addition of the loop: the sum, as carry and rest.                    *)
LEMMA Addition ==
  ASSUME rows \in 1 .. Modulus - 1,
         NEW r \in 0 .. rows - 1, NEW n \in 0 .. rows - 1
  PROVE  /\ AddModulo(r, n).rest \in 0 .. rows - 1
         /\ AddModulo(r, n).carry \in {0, 1}
         /\ AddModulo(r, n).carry * rows + AddModulo(r, n).rest = r + n
<1>1. Wrap(rows - n) = rows - n
  BY ModulusPositive, WrapSmall, SMT
<1>2. CASE r >= rows - n
  <2>1. Wrap(r - (rows - n)) = r - (rows - n)
    BY <1>2, ModulusPositive, WrapSmall, SMT
  <2> QED BY <1>1, <1>2, <2>1, ModulusPositive, SMT DEF AddModulo
<1>3. CASE ~(r >= rows - n)
  <2>1. Wrap(r + n) = r + n
    BY <1>3, ModulusPositive, WrapSmall, SMT
  <2> QED BY <1>1, <1>3, <2>1, ModulusPositive, SMT DEF AddModulo
<1> QED BY <1>2, <1>3

(* The step from one prefix to the next.                                    *)
LEMMA PrefixStep ==
  ASSUME NEW w \in Nat, NEW b \in Bits
  PROVE  LET next == IF b \div 2 = 0 THEN w ELSE w \div (2 * (b \div 2))
         IN  /\ w \div (2 * b) \in Nat
             /\ (w \div b) % 2 \in {0, 1}
             /\ next = 2 * (w \div (2 * b)) + ((w \div b) % 2)
             /\ next <= w
             /\ b \div 2 \in Bits \cup {0}
<1>1. b \in Nat \ {0} /\ (b = 1 \/ (2 * (b \div 2) = b /\ b \div 2 \in Bits))
  BY BitAssumption
<1>2. /\ w \div b \in Nat
      /\ (w \div b) \div 2 = w \div (2 * b)
  BY <1>1, DivTwice
<1>3. /\ w \div (2 * b) \in Nat
      /\ (w \div b) % 2 \in {0, 1}
      /\ w \div b = 2 * (w \div (2 * b)) + ((w \div b) % 2)
  BY <1>2, Halving
<1>4. w \div b <= w
  BY <1>1, SMT
<1>5. CASE b = 1
  <2>1. w \div b = w /\ b \div 2 = 0
    BY <1>5, SMT
  <2> QED BY <1>3, <2>1, SMT
<1>6. CASE 2 * (b \div 2) = b /\ b \div 2 \in Bits
  <2>1. b \div 2 # 0
    BY <1>6, BitAssumption, SMT
  <2> QED BY <1>3, <1>4, <1>6, <2>1, SMT
<1> QED BY <1>1, <1>5, <1>6

-----------------------------------------------------------------------------
(* The invariant.                                                           *)

(* The start of a division establishes its part of the invariant.           *)
LEMMA DivideStarts ==
  ASSUME Shape, NEW c \in DOMAIN sizes, NEW s \in Subsets, phase' = "divide",
         Divide(c, target[s]), UNCHANGED input, subset' = s
  PROVE  DivisionInv'
<1>1. Shape'
  BY DEF Shape, Divide, Dividing, input
<1>2. target[s] \in 0 .. rows - 1 /\ sizes[c] \in 0 .. rows
  BY DEF Shape
<1>3. Wanted' = target[s] /\ rows' = rows /\ sizes' = sizes /\ class' = c
  BY DEF Wanted, input, Divide, Dividing
<1>4. residual' = 0 /\ 0 \in 0 .. rows - 1
  BY SMT DEF Divide, Shape
<1>5. CASE sizes[c] = rows
  <2>1. bit' = 0 /\ result' = target[s]
    BY <1>5 DEF Divide, Dividing
  <2>2. Prefix' = target[s]
    BY <1>3, <2>1 DEF Prefix
  <2>3. Divided'
    BY <1>2, <1>3, <1>4, <1>5, <2>1, <2>2, SMT DEF Divided, Shape
  <2> QED BY <1>1, <2>3 DEF DivisionInv
<1>6. CASE sizes[c] # rows
  <2>1. bit' = TopBit /\ result' = 0 /\ TopBit \in Bits /\ TopBit # 0
    BY <1>6, BitAssumption DEF Divide, Dividing
  <2>2. target[s] \div (2 * TopBit) = 0
    <3>1. target[s] = 0 * (2 * TopBit) + target[s]
      BY <1>2, ModulusPositive, SMT
    <3>2. target[s] \in 0 .. (2 * TopBit) - 1
      BY <1>2, ModulusPositive, SMT DEF Shape, Modulus
    <3>3. target[s] \in Nat /\ 2 * TopBit \in Nat \ {0} /\ 0 \in Nat
      BY <1>2, ModulusPositive, SMT
    <3> HIDE DEF Modulus
    <3> QED BY <3>1, <3>2, <3>3, DivUnique
  <2>3. Prefix' = 0
    BY <1>3, <2>1, <2>2 DEF Prefix
  <2>4. Divided'
    BY <1>2, <1>3, <1>4, <1>6, <2>1, <2>3, SMT DEF Divided, Shape
  <2> QED BY <1>1, <2>4 DEF DivisionInv
<1> QED BY <1>5, <1>6

(* The start of a split, however many rows and classes it has.              *)
Starting ==
  /\ rows \in 1 .. Modulus - 1
  /\ sizes \in Seq(0 .. rows) /\ sizes # <<>>
  /\ Total(sizes) = rows
  /\ target \in [Subsets -> 0 .. rows - 1]
  /\ target["test"] + target["validation"] < rows
  /\ phase = "check" /\ subset = "test"
  /\ reserved = None /\ counts = None /\ remainders = None
  /\ used = {} /\ allocated = 0
  /\ class = 1 /\ bit = 0 /\ result = 0 /\ residual = 0

LEMMA InitStarts == Init => Starting
<1> SUFFICES ASSUME Init PROVE Starting
  OBVIOUS
<1>1. rows \in 1 .. Modulus - 1
  BY ModulusPositive, BoundAssumption, SMT DEF Init
<1>2. PICK n \in 1 .. MaxClasses : sizes \in [1 .. n -> 0 .. rows]
  BY DEF Init
<1>3. n \in Nat \ {0}
  BY BoundAssumption, SMT
<1>4. sizes \in Seq(0 .. rows) /\ sizes # <<>>
  <2>1. sizes \in Seq(0 .. rows)
    BY <1>2, <1>3, SeqDef, Zenon
  <2>2. 1 \in DOMAIN sizes
    BY <1>2, <1>3, SMT
  <2> QED BY <2>1, <2>2, SMT
<1> QED BY <1>1, <1>4 DEF Init, Starting

(* The invariant holds initially ...                                        *)
LEMMA InitDivision == Starting => DivisionInv
<1> SUFFICES ASSUME Starting PROVE DivisionInv
  OBVIOUS
<1>1. 1 \in DOMAIN sizes
  BY DEF Starting
<1> QED
  BY <1>1 DEF DivisionInv, Shape, Divided, Starting, Subsets

(* One bit.                                                                 *)
LEMMA DivideBitPreserves ==
  ASSUME DivisionInv, DivideBit
  PROVE  DivisionInv'
<1> DEFINE w == Wanted
           s == sizes[class]
           twice == AddModulo(residual, residual)
           odd == (w \div bit) % 2
           sum == IF odd = 1 THEN AddModulo(twice.rest, s)
                  ELSE [rest |-> twice.rest, carry |-> 0]
           p == w \div (2 * bit)
<1>1. /\ phase = "divide" /\ bit # 0 /\ bit \in Bits
      /\ rows \in 1 .. Modulus - 1 /\ Modulus \in Nat
      /\ w \in 0 .. rows - 1 /\ s \in 0 .. rows - 1
      /\ residual \in 0 .. rows - 1
  <2>1. phase = "divide" /\ bit # 0
    BY DEF DivideBit
  <2>2. Shape /\ Divided
    BY <2>1 DEF DivisionInv
  <2>3. bit \in Bits
    BY <2>1, <2>2 DEF Divided
  <2>4. rows \in 1 .. Modulus - 1 /\ Modulus \in Nat
    BY <2>2, ModulusPositive, SMT DEF Shape
  <2>5. w \in 0 .. rows - 1
    BY <2>2 DEF Shape, Wanted
  <2>6. s \in 0 .. rows - 1 /\ residual \in 0 .. rows - 1
    <3>1. s \in 0 .. rows /\ s < rows /\ residual \in 0 .. rows - 1
      BY <2>1, <2>2 DEF Shape, Divided
    <3> HIDE DEF s
    <3> QED
      BY ONLY <2>4, <3>1
  <2> QED
    BY <2>1, <2>3, <2>4, <2>5, <2>6
<1>2. Prefix = p
  BY <1>1 DEF Prefix
<1>3. result \in 0 .. p /\ result * rows + residual = s * p
  BY <1>1, <1>2 DEF DivisionInv, Divided
<1>4. /\ p \in Nat /\ odd \in {0, 1} /\ bit \div 2 \in Bits \cup {0}
      /\ (IF bit \div 2 = 0 THEN w ELSE w \div (2 * (bit \div 2)))
           = 2 * p + odd
      /\ 2 * p + odd <= w
  <2>1. w \in Nat
    BY <1>1
  <2> QED BY <1>1, <2>1, PrefixStep
<1>5. /\ twice.rest \in 0 .. rows - 1 /\ twice.carry \in {0, 1}
      /\ twice.carry * rows + twice.rest = 2 * residual
  BY <1>1, Addition, SMT
<1>6. /\ sum.rest \in 0 .. rows - 1 /\ sum.carry \in {0, 1}
      /\ sum.carry * rows + sum.rest = twice.rest + s * odd
  <2>1. CASE odd = 1
    <3>1. sum = AddModulo(twice.rest, s)
      BY <2>1
    <3>2. /\ sum.rest \in 0 .. rows - 1 /\ sum.carry \in {0, 1}
          /\ sum.carry * rows + sum.rest = twice.rest + s
      BY <1>1, <1>5, <3>1, Addition
    <3> HIDE DEF sum, twice, odd, s
    <3> QED BY <1>1, <2>1, <3>2, SMT
  <2>2. CASE odd = 0
    <3>1. sum.rest = twice.rest /\ sum.carry = 0
      BY <2>2
    <3> HIDE DEF sum, twice, odd, s
    <3> QED BY <1>1, <1>5, <2>2, <3>1, SMT
  <2> QED BY <1>4, <2>1, <2>2
<1> DEFINE q == 2 * result + twice.carry + sum.carry
<1>7. q * rows + sum.rest = s * (2 * p + odd) /\ q \in Nat
  <2> HIDE DEF sum, twice, odd, s, p
  <2>1. q * rows + sum.rest
          = 2 * (result * rows) + twice.carry * rows
            + (sum.carry * rows + sum.rest)
    BY <1>1, <1>3, <1>4, <1>5, <1>6, SMT
  <2>2. /\ result * rows \in Int /\ twice.carry * rows \in Int
        /\ sum.carry * rows \in Int /\ s * p \in Int /\ s * odd \in Int
        /\ residual \in Int /\ twice.rest \in Int /\ sum.rest \in Int
    <3>1. /\ rows \in Int /\ result \in Int /\ s \in Int /\ p \in Int
          /\ residual \in Int /\ odd \in Int
      BY <1>1, <1>3, <1>4, SMT
    <3>2. /\ twice.carry \in Int /\ sum.carry \in Int
          /\ twice.rest \in Int /\ sum.rest \in Int
      BY <1>1, <1>5, <1>6, SMT
    <3> QED BY <3>1, <3>2, SMT
  <2>3. 2 * (result * rows) + twice.carry * rows
          + (sum.carry * rows + sum.rest) = 2 * (s * p) + s * odd
    BY <1>3, <1>5, <1>6, <2>2, SumOfEquations
  <2>4. 2 * (s * p) + s * odd = s * (2 * p + odd)
    BY <1>1, <1>4, SMT
  <2> QED BY <1>1, <1>3, <1>4, <1>5, <1>6, <2>1, <2>3, <2>4, SMT
<1>8. q <= 2 * p + odd
  <2> HIDE DEF sum, twice, odd, s, p, q
  <2>1. q * rows <= rows * (2 * p + odd)
    <3>1. s * (2 * p + odd) <= rows * (2 * p + odd)
      BY <1>1, <1>4, SMT
    <3> QED BY <1>1, <1>4, <1>6, <1>7, <3>1, SMT
  <2> QED BY <1>1, <1>4, <1>7, <2>1, SMT
<1>9. /\ result' = q /\ residual' = sum.rest /\ bit' = bit \div 2
      /\ UNCHANGED <<input, phase, quotas, class>>
  <2>1. Wrap(q) = q
    <3> HIDE DEF q, p, odd, w
    <3> QED BY <1>1, <1>4, <1>7, <1>8, ModulusPositive, WrapSmall, SMT
  <2> QED BY <2>1 DEF DivideBit
<1>10. Prefix' = 2 * p + odd
  <2>1. Wanted' = w
    BY <1>9 DEF Wanted, input, quotas
  <2> QED BY <1>4, <1>9, <2>1 DEF Prefix
<1>11. Shape'
  BY <1>9 DEF DivisionInv, Shape, input, quotas
<1>12. Divided'
  <2>1. sizes' = sizes /\ class' = class /\ rows' = rows
    BY <1>9 DEF input
  <2> HIDE DEF q, p, odd, sum, twice
  <2> QED BY <1>1, <1>4, <1>6, <1>7, <1>8, <1>9, <1>10, <2>1, SMT DEF Divided
<1> QED BY <1>11, <1>12 DEF DivisionInv

(* ... and every step preserves it.                                         *)
LEMMA NextDivision == DivisionInv /\ [Next]_vars => DivisionInv'
<1> SUFFICES ASSUME DivisionInv, [Next]_vars PROVE DivisionInv'
  OBVIOUS
<1>1. CASE Check
  <2>1. subset = "test" /\ subset' = subset /\ UNCHANGED input
    BY <1>1 DEF Check, DivisionInv, Shape, quotas
  <2>2. CASE Acceptable
    <3>1. 1 \in DOMAIN sizes
      BY DEF DivisionInv, Shape
    <3>2. phase' = "divide" /\ Divide(1, target["test"])
      BY <1>1, <2>2 DEF Check
    <3> QED BY <2>1, <3>1, <3>2, DivideStarts DEF DivisionInv, Subsets
  <2>3. CASE ~Acceptable
    <3>1. phase' = "refused" /\ class' = class
      BY <1>1, <2>3 DEF Check, division
    <3> QED BY <2>1, <3>1 DEF DivisionInv, Shape, Divided, input
  <2> QED BY <2>2, <2>3
<1>2. CASE DivideBit
  BY <1>2, DivideBitPreserves
<1>3. CASE Quota
  <2>1. phase = "divide" /\ UNCHANGED <<input, subset>>
    BY <1>3 DEF Quota
  <2>2. CASE phase' = "divide"
    <3>1. class # Len(sizes) /\ Divide(class + 1, target[subset])
      BY <1>3, <2>2 DEF Quota, Wanted
    <3>2. class + 1 \in DOMAIN sizes
      BY <3>1, SMT DEF DivisionInv, Shape
    <3> QED BY <2>1, <2>2, <3>1, <3>2, DivideStarts DEF DivisionInv, Shape
  <2>3. CASE phase' # "divide"
    <3>1. class' = class /\ phase' # "check"
      BY <1>3, <2>1, <2>3 DEF Quota, division
    <3> QED BY <2>1, <2>3, <3>1 DEF DivisionInv, Shape, Divided, input
  <2> QED BY <2>2, <2>3
<1>4. CASE Place \/ NextRound \/ Assign
  <2>1. /\ UNCHANGED <<input, subset, class>>
        /\ phase = "share" /\ phase' \notin {"check", "divide"}
    BY <1>4 DEF Place, NextRound, Assign, quotas, division
  <2> QED BY <2>1 DEF DivisionInv, Shape, Divided, input
<1>5. CASE NextSubset
  <2>1. 1 \in DOMAIN sizes
    BY DEF DivisionInv, Shape
  <2> QED BY <1>5, <2>1, DivideStarts DEF NextSubset, DivisionInv, Subsets
<1>6. CASE UNCHANGED vars
  BY <1>6 DEF vars, input, quotas, division, DivisionInv, Shape, Divided,
              Prefix, Wanted
<1> QED BY <1>1, <1>2, <1>3, <1>4, <1>5, <1>6 DEF Next

(* The invariant at the end of a division is the division of the product.   *)
LEMMA DivisionIsExact == DivisionInv => QuotaIsExact
<1> SUFFICES ASSUME DivisionInv, phase = "divide", bit = 0
             PROVE  /\ result = (sizes[class] * Wanted) \div rows
                    /\ residual = (sizes[class] * Wanted) % rows
  BY DEF QuotaIsExact
<1>1. /\ rows \in Nat \ {0} /\ sizes[class] \in Nat /\ Wanted \in Nat
      /\ residual \in 0 .. rows - 1
  BY ModulusPositive, SMT DEF DivisionInv, Shape, Divided, Wanted
<1>2. /\ result \in Nat
      /\ sizes[class] * Wanted = result * rows + residual
  BY <1>1, SMT DEF DivisionInv, Divided, Prefix
<1>3. sizes[class] * Wanted \in Nat
  BY <1>1, SMT
<1> QED BY <1>1, <1>2, <1>3, DivUnique

(* For every width of size_t, any classes and any target, the division of   *)
(* the import's quotas is exact.                                            *)
THEOREM QuotasAreExact == Spec => []QuotaIsExact
<1>1. Spec => []DivisionInv
  BY InitStarts, InitDivision, NextDivision, PTL DEF Spec
<1> QED BY <1>1, DivisionIsExact, PTL

-----------------------------------------------------------------------------
(* The allocation of places, on top of the exact division.                  *)

(* What is held out of a class leaves one of its rows.                      *)
Spared ==
  /\ phase = "check" => reserved = None /\ counts = None
  /\ phase \notin {"check", "refused"} =>
       \A c \in Classes : reserved[c] + counts[c] < sizes[c]

(* Classes that were divided have their quota and nobody has a place yet.   *)
QuotasSet ==
  /\ phase \in {"check", "divide"} => used = {}
  /\ phase = "divide" => \A c \in 1 .. class - 1 : counts[c] = Floor(c)

(* In the round after k rounds the classes that got a place have k + 1      *)
(* places beyond their quota, the others k or, without capacity, fewer.     *)
InRound(k) ==
  \A c \in Classes :
    IF c \in used THEN Extra(c) = k + 1
    ELSE Extra(c) <= k /\ (counts[c] < Capacity(c) => Extra(c) = k)

(* A class that got its place before another one had precedence.            *)
Ahead(c, d) ==
  \/ remainders[c] > remainders[d]
  \/ /\ remainders[c] = remainders[d]
     /\ reserved[c] + counts[c] - 1 <= reserved[d] + counts[d]

RoundSound ==
  phase = "share" =>
    /\ \E k \in Nat : InRound(k)
    /\ \A c \in used, d \in Classes \ used :
         counts[d] < Capacity(d) => Ahead(c, d)

SplitIInv == DivisionInv /\ TypeOK /\ Spared

PlacesIInv == SplitIInv /\ QuotasSet /\ RoundSound

LEMMA WrapInSize ==
  ASSUME NEW n \in Int
  PROVE  Wrap(n) \in Size
  BY ModulusPositive, SMT DEF Wrap, Size

(* What was divided so far is less than the rows.                           *)
LEMMA QuotientFits ==
  ASSUME NEW n \in 1 .. Modulus - 1, NEW w \in 0 .. n - 1,
         NEW b \in Bits \cup {0},
         NEW r \in 0 .. (IF b = 0 THEN w ELSE w \div (2 * b))
  PROVE  r \in Size
<1>1. Modulus \in Nat
  BY ModulusPositive
<1>2. CASE b = 0
  BY ONLY <1>1, <1>2, n \in 1 .. Modulus - 1, w \in 0 .. n - 1,
          r \in 0 .. (IF b = 0 THEN w ELSE w \div (2 * b)) DEF Size
<1>3. CASE b # 0
  <2>1. b \in Nat \ {0}
    BY <1>3, BitAssumption
  <2>2. w \div (2 * b) \in Nat /\ w \div (2 * b) <= w
    BY <2>1, SMT
  <2>3. r \in 0 .. w \div (2 * b)
    BY <1>3
  <2> QED
    BY ONLY <1>1, <2>2, <2>3, n \in 1 .. Modulus - 1, w \in 0 .. n - 1 DEF Size
<1> QED
  BY <1>2, <1>3

(* A class has a capacity: nothing wraps in it, and it is not exceeded.     *)
LEMMA CapacityKnown ==
  ASSUME SplitIInv, phase \notin {"check", "refused"}, NEW c \in Classes
  PROVE  /\ Capacity(c) = sizes[c] - 1 - reserved[c]
         /\ Capacity(c) \in Nat /\ Capacity(c) < Modulus
         /\ counts[c] \in 0 .. Capacity(c)
         /\ reserved[c] \in Nat /\ sizes[c] \in Nat
<1>1. /\ sizes[c] \in 0 .. rows /\ rows \in 1 .. Modulus - 1
      /\ reserved[c] \in Size /\ counts[c] \in Size
      /\ reserved[c] + counts[c] < sizes[c]
  BY DEF SplitIInv, DivisionInv, Shape, TypeOK, Spared, Classes
<1>2. Modulus \in Nat \ {0}
  BY ModulusPositive
<1>3. /\ sizes[c] - 1 - reserved[c] \in Nat
      /\ sizes[c] - 1 - reserved[c] < Modulus
      /\ counts[c] \in 0 .. sizes[c] - 1 - reserved[c]
  BY ONLY <1>1, <1>2 DEF Size
<1>4. Capacity(c) = sizes[c] - 1 - reserved[c]
  BY <1>2, <1>3, WrapSmall DEF Capacity
<1>5. reserved[c] \in Nat /\ sizes[c] \in Nat
  BY ONLY <1>1, <1>2 DEF Size
<1> QED
  BY <1>3, <1>4, <1>5

LEMMA InputStays ==
  ASSUME [Next]_vars
  PROVE  UNCHANGED input
  BY DEF Next, Check, DivideBit, Quota, Place, NextRound, NextSubset, Assign,
         vars

LEMMA NoneTyped ==
  /\ None \in [Classes -> Size]
  /\ \A c \in Classes : None[c] = 0
<1>1. 0 \in Size
  BY ModulusPositive DEF Size
<1> QED
  BY <1>1 DEF None

(* What starts a division is typed.                                         *)
LEMMA DivideTyped ==
  ASSUME Shape, NEW c \in Classes, NEW s \in Subsets, Divide(c, target[s])
  PROVE  /\ class' \in Classes /\ bit' \in Bits \cup {0}
         /\ result' \in Size /\ residual' \in Size
<1>1. target[s] \in 0 .. rows - 1 /\ rows \in 1 .. Modulus - 1
  BY DEF Shape
<1>2. target[s] \in Size /\ 0 \in Size
  BY <1>1, ModulusPositive DEF Size
<1>3. CASE sizes[c] = rows
  BY <1>2, <1>3 DEF Divide, Dividing
<1>4. CASE sizes[c] # rows
  BY <1>2, <1>4, BitAssumption DEF Divide, Dividing
<1> QED
  BY <1>3, <1>4

LEMMA InitSplit == Starting => SplitIInv
<1> SUFFICES ASSUME Starting PROVE SplitIInv
  OBVIOUS
<1>1. DivisionInv
  BY InitDivision
<1>2. None \in [Classes -> Size] /\ 0 \in Size /\ class \in Classes
  BY <1>1, NoneTyped, ModulusPositive
  DEF DivisionInv, Shape, Classes, Size
<1>3. TypeOK
  BY <1>2 DEF Starting, TypeOK, Subsets, Ended
<1>4. Spared
  BY DEF Starting, Spared
<1> QED
  BY <1>1, <1>3, <1>4 DEF SplitIInv

(* The quota of a class leaves one of its rows.                             *)
LEMMA QuotaCount ==
  ASSUME SplitIInv, Quota
  PROVE  LET count == Least(result, Capacity(class))
         IN  /\ class \in Classes
             /\ counts' = [counts EXCEPT ![class] = count]
             /\ remainders' = [remainders EXCEPT ![class] = residual]
             /\ count \in 0 .. Capacity(class) /\ count \in Size
<1> DEFINE count == Least(result, Capacity(class))
<1>1. phase = "divide"
  BY DEF Quota
<1>2. class \in Classes /\ result \in Size
  BY DEF SplitIInv, TypeOK
<1>3. Capacity(class) \in Nat /\ Capacity(class) < Modulus
  BY <1>1, <1>2, CapacityKnown
<1>4. count \in 0 .. Capacity(class) /\ count \in Size
  BY ONLY <1>2, <1>3, ModulusPositive DEF Least, Size
<1>5. /\ counts' = [counts EXCEPT ![class] = count]
      /\ remainders' = [remainders EXCEPT ![class] = residual]
  BY DEF Quota
<1> QED
  BY <1>2, <1>4, <1>5

LEMMA NextSpared ==
  ASSUME SplitIInv, [Next]_vars
  PROVE  Spared'
<1>a. /\ counts \in [Classes -> Size] /\ reserved \in [Classes -> Size]
      /\ Spared /\ Classes' = Classes /\ sizes' = sizes
      /\ phase \in {"check", "divide", "share", "split", "refused", "overflow",
                    "stuck", "inconsistent"}
  BY InputStays DEF SplitIInv, TypeOK, Classes, input, Ended
<1>1. CASE Check
  <2>1. /\ UNCHANGED <<reserved, counts>> /\ phase = "check"
        /\ phase' \in {"divide", "refused"}
        /\ phase' = "divide" => Acceptable
    BY <1>1 DEF Check, quotas
  <2>2. CASE Acceptable
    <3>1. ASSUME NEW c \in Classes
          PROVE  reserved[c] + counts[c] < sizes[c]
      <4>1. reserved[c] = 0 /\ counts[c] = 0
        BY <1>a, <2>1, NoneTyped DEF Spared
      <4>2. sizes[c] \in Nat /\ sizes[c] # 0
        BY <2>2, ModulusPositive
        DEF Acceptable, SplitIInv, DivisionInv, Shape, Classes
      <4> QED
        BY <4>1, <4>2
    <3> QED
      BY <1>a, <2>1, <3>1 DEF Spared
  <2>3. CASE ~Acceptable
    BY <2>1, <2>3 DEF Spared
  <2> QED
    BY <2>2, <2>3
<1>2. CASE Quota
  <2>1. /\ phase = "divide" /\ reserved' = reserved
        /\ phase' \in {"overflow", "share", "divide"}
    BY <1>2 DEF Quota
  <2>2. ASSUME NEW c \in Classes PROVE reserved[c] + counts'[c] < sizes[c]
    <3>1. CASE c = class
      <4>1. counts'[c] \in 0 .. Capacity(c)
        BY <1>2, <1>a, <3>1, QuotaCount
      <4>2. /\ Capacity(c) = sizes[c] - 1 - reserved[c]
            /\ reserved[c] \in Nat /\ sizes[c] \in Nat
        BY <2>1, CapacityKnown
      <4> QED
        BY ONLY <4>1, <4>2
    <3>2. CASE c # class
      BY <1>2, <1>a, <2>1, <3>2, QuotaCount DEF Spared
    <3> QED
      BY <3>1, <3>2
  <2> QED
    BY <1>a, <2>1, <2>2 DEF Spared
<1>3. CASE Place
  <2>1. phase = "share" /\ phase' = phase /\ reserved' = reserved
    BY <1>3 DEF Place, quotas
  <2>2. PICK e \in Eligible : counts' = [counts EXCEPT ![e] = @ + 1]
    BY <1>3 DEF Place
  <2>3. ASSUME NEW c \in Classes PROVE reserved[c] + counts'[c] < sizes[c]
    <3>1. CASE c = e
      <4>1. counts[c] < Capacity(c) /\ counts'[c] = counts[c] + 1
        BY <1>a, <2>2, <3>1 DEF Eligible
      <4>2. /\ Capacity(c) = sizes[c] - 1 - reserved[c]
            /\ reserved[c] \in Nat /\ sizes[c] \in Nat
            /\ counts[c] \in 0 .. Capacity(c)
        BY <2>1, CapacityKnown
      <4> QED
        BY ONLY <4>1, <4>2
    <3>2. CASE c # e
      BY <1>a, <2>1, <2>2, <3>2 DEF Spared
    <3> QED
      BY <3>1, <3>2
  <2> QED
    BY <1>a, <2>1, <2>3 DEF Spared
<1>4. CASE NextSubset
  <2>1. phase = "share" /\ phase' = "divide" /\ reserved' = counts /\ counts' = None
    BY <1>4 DEF NextSubset
  <2>2. ASSUME NEW c \in Classes PROVE counts[c] + None[c] < sizes[c]
    <3>1. /\ Capacity(c) = sizes[c] - 1 - reserved[c]
          /\ reserved[c] \in Nat /\ sizes[c] \in Nat
          /\ counts[c] \in 0 .. Capacity(c)
      BY <2>1, CapacityKnown
    <3>2. None[c] = 0
      BY NoneTyped
    <3> QED
      BY ONLY <3>1, <3>2
  <2> QED
    BY <1>a, <2>1, <2>2 DEF Spared
<1>5. CASE DivideBit \/ NextRound \/ Assign \/ UNCHANGED vars
  <2>1. /\ UNCHANGED <<counts, reserved>>
        /\ \/ phase' = phase
           \/ phase = "share" /\ phase' \notin {"check", "refused"}
    BY <1>5 DEF DivideBit, NextRound, Assign, vars, quotas
  <2> QED
    BY <1>a, <2>1 DEF Spared, None
<1> QED
  BY <1>1, <1>2, <1>3, <1>4, <1>5 DEF Next

LEMMA NextTyped ==
  ASSUME SplitIInv, [Next]_vars
  PROVE  TypeOK'
<1>a. /\ Ended \/ phase \in {"check", "divide", "share"}
      /\ subset \in Subsets /\ used \subseteq Classes
      /\ reserved \in [Classes -> Size] /\ counts \in [Classes -> Size]
      /\ remainders \in [Classes -> Size] /\ allocated \in Size
      /\ class \in Classes /\ bit \in Bits \cup {0}
      /\ result \in Size /\ residual \in Size
      /\ Shape /\ Classes' = Classes /\ Size' = Size
  BY InputStays
  DEF SplitIInv, DivisionInv, TypeOK, Classes, input, Size, Modulus
<1>b. Spared'
  BY NextSpared
<1>c. 0 \in Size /\ None \in [Classes -> Size] /\ 1 \in Classes
  BY <1>a, NoneTyped, ModulusPositive DEF Size, Shape, Classes
<1>1. /\ (Ended \/ phase \in {"check", "divide", "share"})'
      /\ subset' \in Subsets /\ used' \subseteq Classes
      /\ reserved' \in [Classes -> Size] /\ counts' \in [Classes -> Size]
      /\ remainders' \in [Classes -> Size] /\ allocated' \in Size
      /\ class' \in Classes /\ bit' \in Bits \cup {0}
      /\ result' \in Size /\ residual' \in Size
  <2>1. CASE Check
    <3>1. CASE Acceptable
      <4>1. phase' = "divide" /\ Divide(1, target["test"])
        BY <2>1, <3>1 DEF Check
      <4>2. /\ class' \in Classes /\ bit' \in Bits \cup {0}
            /\ result' \in Size /\ residual' \in Size
        BY <1>a, <1>c, <4>1, DivideTyped DEF Subsets
      <4> QED
        BY <1>a, <2>1, <4>1, <4>2 DEF Check, quotas
    <3>2. CASE ~Acceptable
      BY <1>a, <2>1, <3>2 DEF Check, quotas, division, Ended
    <3> QED
      BY <3>1, <3>2
  <2>2. CASE DivideBit
    <3>1. DivisionInv'
      BY NextDivision DEF SplitIInv
    <3>2. phase' = "divide" /\ bit # 0 /\ bit' = bit \div 2 /\ phase = "divide"
          /\ UNCHANGED <<subset, used, reserved, counts, remainders, allocated,
                         class>>
      BY <2>2 DEF DivideBit, quotas
    <3>3. bit' \in Bits \cup {0}
      BY <3>1, <3>2 DEF DivisionInv, Divided
    <3>4. residual' \in Size
      <4>1. residual' \in 0 .. rows - 1 /\ rows \in 1 .. Modulus - 1
        BY <1>a, <3>1, <3>2, InputStays DEF DivisionInv, Divided, Shape, input
      <4> QED
        BY ONLY <4>1, ModulusPositive DEF Size
    <3>5. result' \in Size
      <4>1. result' \in 0 .. Prefix' /\ rows \in 1 .. Modulus - 1
        BY <1>a, <3>1, <3>2 DEF DivisionInv, Divided, Shape
      <4>2. Wanted' = Wanted /\ Wanted \in 0 .. rows - 1
        BY <1>a, <3>2, InputStays DEF Wanted, input, Shape
      <4>3. Prefix' = IF bit' = 0 THEN Wanted ELSE Wanted \div (2 * bit')
        BY <4>2 DEF Prefix
      <4> QED
        BY ONLY <3>3, <4>1, <4>2, <4>3, QuotientFits
    <3> QED
      BY <1>a, <3>2, <3>3, <3>4, <3>5
  <2>3. CASE Quota
    <3>1. /\ counts' \in [Classes -> Size] /\ remainders' \in [Classes -> Size]
      BY <1>a, <2>3, QuotaCount
    <3>2. /\ reserved' = reserved /\ subset' = subset /\ used' = used
          /\ phase' \in {"overflow", "share", "divide"}
      BY <2>3 DEF Quota
    <3>3. allocated' \in Size
      <4>1. \/ allocated' = allocated
            \/ allocated' = Wrap(allocated + Least(result, Capacity(class)))
        BY <2>3 DEF Quota
      <4>2. Least(result, Capacity(class)) \in Size
        BY <2>3, QuotaCount
      <4>3. allocated + Least(result, Capacity(class)) \in Int
        BY ONLY <1>a, <4>2, ModulusPositive DEF Size
      <4> QED
        BY <1>a, <4>1, <4>3, WrapInSize
    <3>4. /\ class' \in Classes /\ bit' \in Bits \cup {0}
          /\ result' \in Size /\ residual' \in Size
      <4>1. CASE UNCHANGED division
        BY <1>a, <4>1 DEF division
      <4>2. CASE ~UNCHANGED division
        <5>1. class # Len(sizes) /\ Divide(class + 1, target[subset])
          BY <2>3, <4>2 DEF Quota, Wanted
        <5>2. class + 1 \in Classes
          BY <1>a, <5>1 DEF Shape, Classes
        <5> QED
          BY <1>a, <5>1, <5>2, DivideTyped
      <4> QED
        BY <4>1, <4>2
    <3> QED
      BY <1>a, <3>1, <3>2, <3>3, <3>4 DEF Ended
  <2>4. CASE Place
    <3>1. PICK c \in Eligible : /\ counts' = [counts EXCEPT ![c] = @ + 1]
                                /\ used' = used \cup {c}
      BY <2>4 DEF Place
    <3>2. /\ phase = "share" /\ phase' = phase /\ allocated < Wanted
          /\ allocated' = allocated + 1
          /\ UNCHANGED <<subset, reserved, remainders, class, bit, result, residual>>
      BY <2>4 DEF Place, quotas, division
    <3>3. c \in Classes /\ counts[c] < Capacity(c)
      BY <3>1 DEF Eligible
    <3>4. counts[c] + 1 \in Size
      <4>1. Capacity(c) \in Nat /\ Capacity(c) < Modulus /\ counts[c] \in 0 .. Capacity(c)
        BY <3>2, <3>3, CapacityKnown
      <4> QED
        BY ONLY <4>1, <3>3, ModulusPositive DEF Size
    <3>5. counts' \in [Classes -> Size]
      BY ONLY <1>a, <3>1, <3>3, <3>4
    <3>6. allocated' \in Size
      <4>1. Wanted \in 0 .. rows - 1 /\ rows \in 1 .. Modulus - 1
        BY <1>a DEF Wanted, Shape
      <4> QED
        BY ONLY <1>a, <3>2, <4>1, ModulusPositive DEF Size
    <3> QED
      BY <1>a, <3>1, <3>2, <3>3, <3>5, <3>6
  <2>5. CASE NextRound
    BY <1>a, <2>5 DEF NextRound, quotas, division, Ended
  <2>6. CASE NextSubset
    <3>1. Divide(1, target["validation"])
      BY <2>6 DEF NextSubset
    <3>2. /\ class' \in Classes /\ bit' \in Bits \cup {0}
          /\ result' \in Size /\ residual' \in Size
      BY <1>a, <1>c, <3>1, DivideTyped DEF Subsets
    <3> QED
      BY <1>a, <1>c, <2>6, <3>2 DEF NextSubset, Subsets
  <2>7. CASE Assign
    BY <1>a, <2>7 DEF Assign, quotas, division, Ended
  <2>8. CASE UNCHANGED vars
    BY <1>a, <2>8 DEF vars, quotas, division, Ended
  <2> QED
    BY <2>1, <2>2, <2>3, <2>4, <2>5, <2>6, <2>7, <2>8 DEF Next
<1> QED
  BY <1>a, <1>b, <1>1 DEF TypeOK, Spared

(* Quotas, remainders and sums are sizes, and every class keeps a row for   *)
(* training at every moment, so that capacities are never negative numbers  *)
(* wrapped to huge ones (allocate_stratified_counts).                       *)
THEOREM SplitTypeCorrect == Spec => []TypeOK
<1>1. SplitIInv /\ [Next]_vars => SplitIInv'
  BY NextDivision, NextTyped, NextSpared DEF SplitIInv
<1>2. SplitIInv => TypeOK
  BY DEF SplitIInv
<1> QED
  BY <1>1, <1>2, InitStarts, InitSplit, PTL DEF Spec

-----------------------------------------------------------------------------
(* Nobody with capacity is passed over.                                     *)

LEMMA InitPlaces == Starting => PlacesIInv
  BY InitSplit DEF Starting, PlacesIInv, QuotasSet, RoundSound

(* Places beyond the quota are numbers.                                     *)
LEMMA ExtraKnown ==
  ASSUME SplitIInv, phase \notin {"check", "refused"}, NEW c \in Classes
  PROVE  /\ Floor(c) \in Int /\ Extra(c) \in Int /\ counts[c] \in Nat
         /\ counts[c] = Floor(c) + Extra(c)
<1>1. /\ sizes[c] \in Nat /\ Capacity(c) \in Nat /\ counts[c] \in 0 .. Capacity(c)
  BY CapacityKnown
<1>2. Wanted \in Nat /\ rows \in Nat \ {0}
  BY ModulusPositive DEF SplitIInv, DivisionInv, Shape, Wanted
<1>3. sizes[c] * Wanted \in Nat
  BY ONLY <1>1, <1>2
<1>4. (sizes[c] * Wanted) \div rows \in Int
  BY ONLY <1>2, <1>3, DivTwice
<1>5. Floor(c) \in Int
  BY <1>1, <1>4 DEF Floor, Least
<1> QED
  BY <1>1, <1>5 DEF Extra

LEMMA FloorStays ==
  ASSUME UNCHANGED <<input, subset, reserved>>, NEW c
  PROVE  /\ Capacity(c)' = Capacity(c) /\ Floor(c)' = Floor(c)
         /\ counts'[c] = counts[c] => Extra(c)' = Extra(c)
  BY DEF Capacity, Floor, Extra, Wanted, input

(* The quota of the class that was divided is its floor.                    *)
LEMMA QuotaIsFloor ==
  ASSUME SplitIInv, Quota
  PROVE  /\ class \in Classes
         /\ counts' = [counts EXCEPT ![class] = Floor(class)]
<1>1. QuotaIsExact
  BY DivisionIsExact DEF SplitIInv
<1>2. result = (sizes[class] * Wanted) \div rows
  BY <1>1 DEF QuotaIsExact, Quota
<1> QED
  BY <1>2, QuotaCount DEF Floor

LEMMA QuotaFair ==
  ASSUME PlacesIInv, Quota
  PROVE  QuotasSet' /\ RoundSound'
<1>a. /\ SplitIInv /\ QuotasSet /\ phase = "divide"
      /\ UNCHANGED <<input, subset, reserved, used>>
      /\ phase' \in {"overflow", "share", "divide"}
      /\ counts \in [Classes -> Size]
  BY DEF PlacesIInv, SplitIInv, TypeOK, Quota
<1>b. /\ class \in 1 .. Len(sizes) /\ Classes = 1 .. Len(sizes)
      /\ Len(sizes) \in Nat /\ Classes' = Classes
  BY <1>a DEF SplitIInv, DivisionInv, Shape, Classes, input
<1>c. used' = {}
  BY <1>a DEF QuotasSet
<1>1. \A c \in 1 .. class : counts'[c] = Floor(c)
  <2>1. counts' = [counts EXCEPT ![class] = Floor(class)]
    BY <1>a, QuotaIsFloor
  <2>2. \A c \in 1 .. class - 1 : counts[c] = Floor(c)
    BY <1>a DEF QuotasSet
  <2> QED
    BY ONLY <1>a, <1>b, <2>1, <2>2
<1>2. CASE phase' = "divide"
  <2>1. class' = class + 1
    BY <1>a, <1>2 DEF Quota, Divide, Dividing
  <2>2. \A c \in 1 .. class' - 1 : counts'[c] = Floor(c)'
    <3>1. \A c \in 1 .. class' - 1 : c \in 1 .. class
      BY ONLY <1>b, <2>1
    <3> QED
      BY <1>a, <1>1, <3>1, FloorStays
  <2> QED
    BY <1>2, <1>c, <2>2 DEF QuotasSet, RoundSound
<1>3. CASE phase' = "share"
  <2>1. class = Len(sizes)
    BY <1>a, <1>3 DEF Quota
  <2>2. InRound(0)'
    <3>1. ASSUME NEW c \in Classes PROVE Extra(c)' = 0
      <4>1. counts'[c] = Floor(c) /\ Floor(c)' = Floor(c)
        BY <1>a, <1>b, <1>1, <2>1, FloorStays
      <4>2. Floor(c) \in Int
        BY <1>a, ExtraKnown
      <4> QED
        BY <4>1, <4>2 DEF Extra
    <3> QED
      BY <1>b, <1>c, <3>1 DEF InRound
  <2> QED
    BY <1>3, <1>c, <2>2 DEF QuotasSet, RoundSound
<1>4. CASE phase' = "overflow"
  BY <1>4 DEF QuotasSet, RoundSound
<1> QED
  BY <1>a, <1>2, <1>3, <1>4

LEMMA PlaceFair ==
  ASSUME PlacesIInv, Place
  PROVE  QuotasSet' /\ RoundSound'
<1>a. /\ SplitIInv /\ RoundSound /\ phase = "share" /\ phase' = phase
      /\ UNCHANGED <<input, subset, reserved, remainders>>
      /\ counts \in [Classes -> Size] /\ used \subseteq Classes
      /\ Classes' = Classes
  BY DEF PlacesIInv, SplitIInv, TypeOK, Place, quotas, input, Classes
<1>1. PICK e \in Eligible : /\ \A d \in Eligible : Precedes(e, d)
                            /\ counts' = [counts EXCEPT ![e] = @ + 1]
                            /\ used' = used \cup {e}
  BY DEF Place
<1>2. e \in Classes /\ e \notin used /\ counts[e] < Capacity(e)
  BY <1>1 DEF Eligible
<1>3. /\ counts'[e] = counts[e] + 1
      /\ \A c \in Classes \ {e} : counts'[c] = counts[c]
  BY <1>a, <1>1, <1>2
<1>4. \A c \in Classes : Capacity(c)' = Capacity(c) /\ Floor(c)' = Floor(c)
  BY <1>a, FloorStays
<1>5. PICK k \in Nat : InRound(k)
  BY <1>a DEF RoundSound
<1>6. Extra(e)' = k + 1
  <2>1. Extra(e) = k
    BY <1>2, <1>5 DEF InRound
  <2>2. /\ counts[e] = Floor(e) + Extra(e)
        /\ Floor(e) \in Int /\ counts[e] \in Nat
    BY <1>a, <1>2, ExtraKnown
  <2>3. counts'[e] = counts[e] + 1 /\ Floor(e)' = Floor(e)
    BY <1>2, <1>3, <1>4
  <2>4. counts'[e] - Floor(e)' = k + 1
    <3> DEFINE floor == Floor(e)
    <3>1. /\ Floor(e)' = floor /\ floor \in Int /\ counts[e] = floor + k
          /\ counts[e] \in Nat
      BY <2>1, <2>2, <2>3
    <3> HIDE DEF floor
    <3>2. counts'[e] - floor = k + 1
      BY ONLY <2>3, <3>1, k \in Nat
    <3> QED
      BY <3>1, <3>2, Zenon
  <2> QED
    BY ONLY <2>4 DEF Extra
<1>7. InRound(k)'
  <2>1. ASSUME NEW c \in Classes
        PROVE  IF c \in used' THEN Extra(c)' = k + 1
               ELSE Extra(c)' <= k /\ (counts'[c] < Capacity(c)' => Extra(c)' = k)
    <3>1. CASE c = e
      BY <1>1, <1>6, <3>1
    <3>2. CASE c # e
      <4>1. Extra(c)' = Extra(c) /\ counts'[c] = counts[c] /\ (c \in used' <=> c \in used)
        BY <1>a, <1>1, <1>3, <3>2, FloorStays
      <4> QED
        BY <1>4, <1>5, <4>1 DEF InRound
    <3> QED
      BY <3>1, <3>2
  <2> QED
    BY <1>a, <2>1 DEF InRound
<1>8. ASSUME NEW c \in used', NEW d \in Classes \ used', counts'[d] < Capacity(d)'
      PROVE  Ahead(c, d)'
  <2>1. d # e /\ d \notin used /\ counts'[d] = counts[d] /\ counts[d] < Capacity(d)
    BY <1>1, <1>3, <1>4, <1>8
  <2>2. CASE c = e
    <3>1. Precedes(e, d)
      BY <1>1, <2>1 DEF Eligible
    <3>2. /\ reserved[e] \in Nat /\ counts[e] \in Nat
          /\ reserved[d] \in Nat /\ counts[d] \in Nat
      <4>1. counts[e] \in Nat /\ counts[d] \in Nat
        BY <1>a, <1>2, ExtraKnown
      <4>2. reserved[e] \in Nat /\ reserved[d] \in Nat
        BY <1>a, <1>2, CapacityKnown
      <4> QED
        BY <4>1, <4>2
    <3>3. \/ remainders[e] > remainders[d]
          \/ /\ remainders[e] = remainders[d]
             /\ reserved[e] + counts[e] <= reserved[d] + counts[d]
      BY <3>1, <3>2 DEF Precedes
    <3>4. reserved[e] + counts'[e] - 1 = reserved[e] + counts[e]
      BY ONLY <1>3, <3>2
    <3> QED
      BY <1>a, <2>1, <2>2, <3>3, <3>4 DEF Ahead
  <2>3. CASE c # e
    <3>1. c \in used /\ counts'[c] = counts[c]
      BY <1>a, <1>1, <1>3, <2>3
    <3>2. Ahead(c, d)
      BY <1>a, <2>1, <3>1 DEF RoundSound
    <3> QED
      BY <1>a, <2>1, <3>1, <3>2 DEF Ahead
  <2> QED
    BY <2>2, <2>3
<1> QED
  BY <1>a, <1>7, <1>8 DEF QuotasSet, RoundSound

LEMMA RoundFair ==
  ASSUME PlacesIInv, NextRound
  PROVE  QuotasSet' /\ RoundSound'
<1>a. /\ SplitIInv /\ RoundSound /\ phase = "share" /\ phase' \in {"share", "stuck"}
      /\ UNCHANGED <<input, subset, reserved, counts>>
      /\ used' = {} /\ Eligible = {} /\ Classes' = Classes
  BY DEF PlacesIInv, NextRound, quotas, input, Classes
<1>1. PICK k \in Nat : InRound(k)
  BY <1>a DEF RoundSound
<1>2. ASSUME NEW c \in Classes
      PROVE  /\ Extra(c)' <= k + 1
             /\ counts'[c] < Capacity(c)' => Extra(c)' = k + 1
  <2>1. Extra(c)' = Extra(c) /\ Capacity(c)' = Capacity(c) /\ counts'[c] = counts[c]
    BY <1>a, FloorStays
  <2>2. Extra(c) \in Int
    BY <1>a, ExtraKnown
  <2>3. CASE c \in used
    <3>1. Extra(c) = k + 1
      BY <1>1, <2>3 DEF InRound
    <3> QED
      BY ONLY <2>1, <3>1, k \in Nat
  <2>4. CASE c \notin used
    <3>1. Extra(c) <= k /\ ~(counts[c] < Capacity(c))
      BY <1>a, <1>1, <2>4 DEF InRound, Eligible
    <3> QED
      BY ONLY <2>1, <2>2, <3>1, k \in Nat
  <2> QED
    BY <2>3, <2>4
<1>3. InRound(k + 1)'
  BY <1>a, <1>2 DEF InRound
<1> QED
  BY <1>a, <1>3 DEF QuotasSet, RoundSound

LEMMA NextPlaces == PlacesIInv /\ [Next]_vars => PlacesIInv'
<1> SUFFICES ASSUME PlacesIInv, [Next]_vars PROVE PlacesIInv'
  OBVIOUS
<1>a. SplitIInv' /\ SplitIInv
  BY NextDivision, NextTyped, NextSpared DEF PlacesIInv, SplitIInv
<1>1. CASE Check \/ NextSubset
  <2>1. /\ used' = {} /\ phase' \in {"divide", "refused"}
        /\ phase' = "divide" => class' = 1
    BY <1>1 DEF PlacesIInv, QuotasSet, Check, NextSubset, Divide, Dividing
  <2>2. QuotasSet' /\ RoundSound'
    BY <2>1 DEF QuotasSet, RoundSound
  <2> QED
    BY <1>a, <2>2 DEF PlacesIInv
<1>2. CASE DivideBit
  <2>1. /\ phase' = "divide" /\ phase = "divide"
        /\ UNCHANGED <<input, subset, reserved, counts, used, class>>
    BY <1>2 DEF DivideBit, quotas
  <2>2. QuotasSet' /\ RoundSound'
    BY <2>1, FloorStays DEF PlacesIInv, QuotasSet, RoundSound
  <2> QED
    BY <1>a, <2>2 DEF PlacesIInv
<1>3. CASE Quota
  BY <1>a, <1>3, QuotaFair DEF PlacesIInv
<1>4. CASE Place
  BY <1>a, <1>4, PlaceFair DEF PlacesIInv
<1>5. CASE NextRound
  BY <1>a, <1>5, RoundFair DEF PlacesIInv
<1>6. CASE Assign
  <2>1. phase' \in {"split", "inconsistent"}
    BY <1>6 DEF Assign
  <2> QED
    BY <1>a, <2>1 DEF PlacesIInv, QuotasSet, RoundSound
<1>7. CASE UNCHANGED vars
  BY <1>a, <1>7
  DEF vars, input, quotas, division, PlacesIInv, QuotasSet, RoundSound, InRound,
      Ahead, Extra, Floor, Capacity, Wanted, Classes
<1> QED
  BY <1>1, <1>2, <1>3, <1>4, <1>5, <1>6, <1>7 DEF Next

(* In a round nobody with capacity is passed over twice.                    *)
LEMMA PlacesSound == PlacesIInv => PlacesFair
<1> SUFFICES ASSUME PlacesIInv,
                    phase = "share", NEW c \in Classes, NEW d \in Classes,
                    counts[d] < Capacity(d), Extra(c) > Extra(d)
             PROVE  Extra(c) = Extra(d) + 1 /\ Ahead(c, d)
  BY DEF PlacesFair, Ahead
<1>1. SplitIInv /\ RoundSound
  BY DEF PlacesIInv
<1>2. PICK k \in Nat : InRound(k)
  BY <1>1 DEF RoundSound
<1>3. /\ Extra(c) \in Int /\ Extra(d) \in Int
      /\ Extra(c) <= k + 1
      /\ c \notin used => Extra(c) <= k
      /\ d \in used => Extra(d) = k + 1
      /\ d \notin used => Extra(d) = k
      /\ c \in used => Extra(c) = k + 1
  <2>1. Extra(c) \in Int /\ Extra(d) \in Int
    BY <1>1, ExtraKnown
  <2>2. /\ c \notin used => Extra(c) <= k
        /\ d \in used => Extra(d) = k + 1
        /\ d \notin used => Extra(d) = k
        /\ c \in used => Extra(c) = k + 1
    BY <1>2 DEF InRound
  <2> QED
    BY <2>1, <2>2
<1>4. c \in used /\ d \notin used /\ Extra(c) = Extra(d) + 1
  BY ONLY <1>3, Extra(c) > Extra(d), k \in Nat
<1> QED
  BY <1>1, <1>4 DEF RoundSound

(* In a finished subset no class that could have given another sample has   *)
(* two places fewer beyond its quota than another class, and none lost its  *)
(* place to a class with a smaller remainder, or with an equal one and more *)
(* samples held out (allocate_stratified_counts), for any classes, counts   *)
(* and width of size_t.                                                     *)
THEOREM PlacesAreFair == Spec => []PlacesFair
  BY InitStarts, InitPlaces, NextPlaces, PlacesSound, PTL DEF Spec

-----------------------------------------------------------------------------
(* Sums.                                                                    *)

(* Induction over a prefix of the naturals, for a set.                      *)
LEMMA PrefixInduction ==
  ASSUME NEW N \in Nat, NEW S, 0 \in S, \A n \in 1 .. N : n - 1 \in S => n \in S
  PROVE  0 .. N \subseteq S
<1> DEFINE Less == OpToRel(<, Nat)
<1>1. IsWellFoundedOn(Less, Nat)
  BY NatLessThanWellFounded, Zenon
<1>2. SUFFICES ASSUME (0 .. N) \ S # {} PROVE FALSE
  OBVIOUS
<1> DEFINE T == {n \in Nat : n \in (0 .. N) \ S}
<1>3. PICK n \in T : \A m \in T : ~(<<m, n>> \in Less)
  <2>1. T \subseteq Nat /\ T # {}
    BY <1>2
  <2> HIDE DEF Less, T
  <2> QED
    BY <1>1, <2>1, WFMin
<1>4. \A m \in T : ~(m < n)
  BY <1>3, Zenon DEF OpToRel
<1>5. n \in 1 .. N /\ n - 1 \in 0 .. N /\ n \notin S
  <2>1. n \in 0 .. N /\ n \notin S
    OBVIOUS
  <2>2. n # 0
    BY <2>1
  <2> QED
    BY ONLY <2>1, <2>2, N \in Nat
<1>6. n - 1 \in S
  <2>1. n - 1 \notin T
    BY <1>4, <1>5
  <2> QED
    BY <1>5, <2>1
<1> QED
  BY <1>5, <1>6

(* "g" has the sums of f over the first classes, up to n of them.           *)
SumsUpTo(g, f, n) ==
  /\ g = [i \in 0 .. n |-> g[i]]
  /\ g[0] = 0
  /\ \A i \in 1 .. n : g[i] = g[i - 1] + f[i]

(* The recursion of the sums has a solution.                                *)
LEMMA SumsAre ==
  ASSUME NEW f, Len(sizes) \in Nat
  PROVE  SumsUpTo(Sums(f), f, Len(sizes))
<1> DEFINE N == Len(sizes)
           Step(g) == [n \in 0 .. N |-> IF n = 0 THEN 0 ELSE g[n - 1] + f[n]]
           S == {n \in Nat : \E g : SumsUpTo(g, f, n)}
<1>1. 0 \in S
  <2> DEFINE g == [i \in 0 .. 0 |-> 0]
  <2>1. SumsUpTo(g, f, 0)
    BY DEF SumsUpTo
  <2> QED
    BY <2>1
<1>2. ASSUME NEW n \in 1 .. N, n - 1 \in S PROVE n \in S
  <2>1. PICK g : SumsUpTo(g, f, n - 1)
    BY <1>2
  <2> DEFINE h == [i \in 0 .. n |-> IF i = n THEN g[n - 1] + f[n] ELSE g[i]]
  <2>2. n \in Nat /\ n # 0
    BY <1>2
  <2>3. h[0] = 0
    BY <2>1, <2>2 DEF SumsUpTo
  <2>4. ASSUME NEW i \in 1 .. n PROVE h[i] = h[i - 1] + f[i]
    <3>1. h[i - 1] = g[i - 1]
      BY <2>2
    <3>2. CASE i = n
      BY <2>2, <3>1, <3>2
    <3>3. CASE i # n
      <4>1. i \in 1 .. n - 1 /\ i \in 0 .. n
        BY <2>2, <3>3
      <4>2. g[i] = g[i - 1] + f[i]
        BY <2>1, <4>1 DEF SumsUpTo
      <4>3. h[i] = g[i]
        BY <3>3, <4>1
      <4> QED
        BY <3>1, <4>2, <4>3
    <3> QED
      BY <3>2, <3>3
  <2>5. SumsUpTo(h, f, n)
    BY <2>3, <2>4 DEF SumsUpTo
  <2> QED
    BY <2>2, <2>5
<1>3. N \in S
  <2>1. N \in Nat
    OBVIOUS
  <2> HIDE DEF S, N
  <2>2. 0 .. N \subseteq S
    BY <1>1, <1>2, <2>1, PrefixInduction
  <2> QED
    BY <2>1, <2>2
<1>4. PICK g : SumsUpTo(g, f, N)
  BY <1>3
<1>5. g = Step(g)
  <2>1. /\ g = [i \in 0 .. N |-> g[i]] /\ g[0] = 0
        /\ \A i \in 1 .. N : g[i] = g[i - 1] + f[i]
    BY <1>4 DEF SumsUpTo
  <2>2. \A i \in 0 .. N : i # 0 => i \in 1 .. N
    OBVIOUS
  <2> QED
    BY <2>1, <2>2
<1> DEFINE r == Sums(f)
<1>6. r = CHOOSE h : h = Step(h)
  BY DEF Sums
<1>7. r = Step(r)
  <2> HIDE DEF Step, r
  <2> QED
    BY <1>5, <1>6
<1> HIDE DEF r
<1>8. /\ r = [i \in 0 .. N |-> r[i]] /\ r[0] = 0
      /\ \A i \in 1 .. N : r[i] = r[i - 1] + f[i]
  BY <1>7
<1>9. SumsUpTo(r, f, N)
  BY <1>8 DEF SumsUpTo
<1> QED
  BY <1>9 DEF r

(* Sums of natural numbers are natural numbers.                             *)
LEMMA SumsTyped ==
  ASSUME NEW f, Len(sizes) \in Nat, \A n \in 1 .. Len(sizes) : f[n] \in Nat
  PROVE  /\ Sums(f)[0] = 0
         /\ \A n \in 1 .. Len(sizes) : Sums(f)[n] = Sums(f)[n - 1] + f[n]
         /\ \A n \in 0 .. Len(sizes) : Sums(f)[n] \in Nat
<1> DEFINE N == Len(sizes)
           sum == Sums(f)
           S == {n \in 0 .. N : sum[n] \in Nat}
<1>1. /\ sum[0] = 0 /\ N \in Nat
      /\ \A n \in 1 .. N : sum[n] = sum[n - 1] + f[n] /\ f[n] \in Nat
  BY SumsAre DEF SumsUpTo
<1> HIDE DEF sum, N
<1>2. 0 \in S
  BY <1>1
<1>3. ASSUME NEW n \in 1 .. N, n - 1 \in S PROVE n \in S
  <2>1. sum[n] = sum[n - 1] + f[n] /\ f[n] \in Nat /\ sum[n - 1] \in Nat
    BY <1>1, <1>3
  <2>2. n \in 0 .. N
    BY <1>1
  <2> QED
    BY <2>1, <2>2
<1>4. 0 .. N \subseteq S
  <2> HIDE DEF S
  <2> QED
    BY <1>1, <1>2, <1>3, PrefixInduction
<1>5. \A n \in 0 .. N : sum[n] \in Nat
  BY <1>4
<1> QED
  BY <1>1, <1>5 DEF sum, N

(* Functions that agree on the first classes have the same sums of them.    *)
LEMMA SumsAgree ==
  ASSUME NEW f, NEW g, Len(sizes) \in Nat,
         NEW m \in 0 .. Len(sizes), \A n \in 1 .. m : f[n] = g[n]
  PROVE  Sums(f)[m] = Sums(g)[m]
<1> DEFINE N == Len(sizes)
           a == Sums(f)
           b == Sums(g)
           S == {n \in 0 .. m : a[n] = b[n]}
<1>1. /\ N \in Nat /\ m \in 0 .. N
      /\ a[0] = 0 /\ \A n \in 1 .. N : a[n] = a[n - 1] + f[n]
      /\ b[0] = 0 /\ \A n \in 1 .. N : b[n] = b[n - 1] + g[n]
      /\ \A n \in 1 .. m : f[n] = g[n]
  BY SumsAre DEF SumsUpTo
<1> HIDE DEF a, b, N
<1>2. m \in Nat /\ 0 \in S
  BY <1>1
<1>3. ASSUME NEW n \in 1 .. m, n - 1 \in S PROVE n \in S
  <2>1. n \in 1 .. N /\ n \in 0 .. m
    BY <1>1, <1>2
  <2>2. a[n] = a[n - 1] + f[n] /\ b[n] = b[n - 1] + g[n] /\ f[n] = g[n]
    BY <1>1, <2>1
  <2>3. a[n - 1] = b[n - 1]
    BY <1>3
  <2>4. a[n] = b[n]
    BY ONLY <2>2, <2>3
  <2> QED
    BY <2>1, <2>4
<1>4. 0 .. m \subseteq S
  <2> HIDE DEF S
  <2> QED
    BY <1>2, <1>3, PrefixInduction
<1>5. a[m] = b[m]
  BY <1>2, <1>4
<1> QED
  BY <1>5 DEF a, b

(* One more of one class is one more in all.                                *)
LEMMA OneMore ==
  ASSUME NEW f, NEW g, Len(sizes) \in Nat, NEW c \in 1 .. Len(sizes),
         \A n \in 1 .. Len(sizes) : f[n] \in Nat,
         \A n \in 1 .. Len(sizes) : g[n] = IF n = c THEN f[n] + 1 ELSE f[n]
  PROVE  Total(g) = Total(f) + 1
<1> DEFINE N == Len(sizes)
           a == Sums(f)
           b == Sums(g)
           S == {n \in 0 .. N : b[n] = IF n < c THEN a[n] ELSE a[n] + 1}
<1>1. /\ N \in Nat /\ c \in 1 .. N
      /\ a[0] = 0 /\ \A n \in 1 .. N : a[n] = a[n - 1] + f[n]
      /\ b[0] = 0 /\ \A n \in 1 .. N : b[n] = b[n - 1] + g[n]
      /\ \A n \in 1 .. N : g[n] = IF n = c THEN f[n] + 1 ELSE f[n]
  BY SumsAre DEF SumsUpTo
<1>2. /\ \A n \in 1 .. N : f[n] \in Nat
      /\ \A n \in 0 .. N : a[n] \in Nat
  BY SumsTyped
<1> HIDE DEF a, b, N
<1>3. 0 \in S
  BY <1>1
<1>4. ASSUME NEW n \in 1 .. N, n - 1 \in S PROVE n \in S
  <2>1. /\ n \in 0 .. N /\ n - 1 \in 0 .. N /\ n \in Nat /\ c \in Nat
    BY <1>1
  <2>2. /\ a[n] = a[n - 1] + f[n] /\ b[n] = b[n - 1] + g[n]
        /\ g[n] = IF n = c THEN f[n] + 1 ELSE f[n]
        /\ a[n - 1] \in Nat /\ f[n] \in Nat
    BY <1>1, <1>2, <2>1
  <2>3. b[n - 1] = IF n - 1 < c THEN a[n - 1] ELSE a[n - 1] + 1
    BY <1>4
  <2>4. b[n] = IF n < c THEN a[n] ELSE a[n] + 1
    BY ONLY <2>1, <2>2, <2>3
  <2> QED
    BY <2>1, <2>4
<1>5. 0 .. N \subseteq S
  <2> HIDE DEF S
  <2> QED
    BY <1>1, <1>3, <1>4, PrefixInduction
<1>6. b[N] = a[N] + 1
  BY <1>1, <1>5
<1> QED
  BY <1>6 DEF a, b, N, Total

(* The sum of the first classes is at most the sum of all.                  *)
LEMMA SumsGrow ==
  ASSUME NEW f, Len(sizes) \in Nat, NEW m \in 0 .. Len(sizes),
         \A n \in 1 .. Len(sizes) : f[n] \in Nat
  PROVE  Sums(f)[m] <= Total(f)
<1> DEFINE N == Len(sizes)
           a == Sums(f)
           S == {n \in 0 .. N : m <= n => a[m] <= a[n]}
<1>1. /\ N \in Nat /\ m \in 0 .. N /\ m \in Nat
      /\ a[0] = 0 /\ \A n \in 1 .. N : a[n] = a[n - 1] + f[n]
      /\ \A n \in 1 .. N : f[n] \in Nat
      /\ \A n \in 0 .. N : a[n] \in Nat
  BY SumsTyped
<1> HIDE DEF a, N
<1>2. 0 \in S
  <2>1. m <= 0 => m = 0
    BY <1>1
  <2> QED
    BY <1>1, <2>1
<1>3. ASSUME NEW n \in 1 .. N, n - 1 \in S PROVE n \in S
  <2>1. n \in 0 .. N /\ n - 1 \in 0 .. N /\ n \in Nat
    BY <1>1
  <2>2. /\ a[n] = a[n - 1] + f[n] /\ f[n] \in Nat
        /\ a[n - 1] \in Nat /\ a[n] \in Nat /\ a[m] \in Nat
        /\ m <= n - 1 => a[m] <= a[n - 1]
    BY <1>1, <1>3, <2>1
  <2>3. CASE m = n
    BY <2>1, <2>2, <2>3
  <2>4. CASE m # n
    <3>1. m <= n => a[m] <= a[n]
      BY ONLY <1>1, <2>1, <2>2, <2>4
    <3> QED
      BY <2>1, <3>1
  <2> QED
    BY <2>3, <2>4
<1>4. 0 .. N \subseteq S
  <2> HIDE DEF S
  <2> QED
    BY <1>1, <1>2, <1>3, PrefixInduction
<1>5. a[m] <= a[N]
  BY <1>1, <1>4
<1> QED
  BY <1>5 DEF a, N, Total

(* When all classes but one row of each are held out, so are all the rows   *)
(* but one for each class.                                                  *)
LEMMA AllTaken ==
  ASSUME NEW f, NEW g, NEW h, Len(sizes) \in Nat,
         \A n \in 1 .. Len(sizes) : f[n] \in Nat /\ g[n] \in Nat /\ h[n] \in Nat,
         \A n \in 1 .. Len(sizes) : f[n] = h[n] - 1 - g[n]
  PROVE  Total(f) = Total(h) - Len(sizes) - Total(g)
<1> DEFINE N == Len(sizes)
           a == Sums(f)
           b == Sums(g)
           d == Sums(h)
           S == {n \in 0 .. N : a[n] = d[n] - n - b[n]}
<1>1. /\ N \in Nat
      /\ a[0] = 0 /\ \A n \in 1 .. N : a[n] = a[n - 1] + f[n]
      /\ \A n \in 0 .. N : a[n] \in Nat
  BY SumsTyped
<1>2. /\ b[0] = 0 /\ \A n \in 1 .. N : b[n] = b[n - 1] + g[n]
      /\ \A n \in 0 .. N : b[n] \in Nat
  BY SumsTyped
<1>3. /\ d[0] = 0 /\ \A n \in 1 .. N : d[n] = d[n - 1] + h[n]
      /\ \A n \in 0 .. N : d[n] \in Nat
  BY SumsTyped
<1>4. \A n \in 1 .. N : /\ f[n] \in Nat /\ g[n] \in Nat /\ h[n] \in Nat
                        /\ f[n] = h[n] - 1 - g[n]
  OBVIOUS
<1> HIDE DEF a, b, d, N
<1>5. 0 \in S
  BY <1>1, <1>2, <1>3
<1>6. ASSUME NEW n \in 1 .. N, n - 1 \in S PROVE n \in S
  <2>1. n \in 0 .. N /\ n - 1 \in 0 .. N /\ n \in Nat
    BY <1>1
  <2>2. /\ a[n] = a[n - 1] + f[n] /\ b[n] = b[n - 1] + g[n]
        /\ d[n] = d[n - 1] + h[n]
    BY <1>1, <1>2, <1>3
  <2>3. a[n - 1] \in Nat /\ b[n - 1] \in Nat /\ d[n - 1] \in Nat
    BY <1>1, <1>2, <1>3, <2>1
  <2>4. f[n] \in Nat /\ g[n] \in Nat /\ h[n] \in Nat /\ f[n] = h[n] - 1 - g[n]
    BY <1>4
  <2>5. a[n - 1] = d[n - 1] - (n - 1) - b[n - 1]
    BY <1>6
  <2>6. a[n] = d[n] - n - b[n]
    BY ONLY <2>1, <2>2, <2>3, <2>4, <2>5
  <2> QED
    BY <2>1, <2>6
<1>7. 0 .. N \subseteq S
  <2> HIDE DEF S
  <2> QED
    BY <1>1, <1>5, <1>6, PrefixInduction
<1>8. a[N] = d[N] - N - b[N]
  BY <1>1, <1>7
<1> QED
  BY <1>8 DEF a, b, d, N, Total

(* Nothing is held out of nobody.                                           *)
LEMMA NoneTotal ==
  ASSUME NEW f, Len(sizes) \in Nat, \A n \in 1 .. Len(sizes) : f[n] = 0
  PROVE  Total(f) = 0
<1> DEFINE N == Len(sizes)
           a == Sums(f)
           S == {n \in 0 .. N : a[n] = 0}
<1>1. /\ N \in Nat /\ a[0] = 0
      /\ \A n \in 1 .. N : a[n] = a[n - 1] + f[n] /\ f[n] = 0
  BY SumsAre DEF SumsUpTo
<1> HIDE DEF a, N
<1>2. 0 \in S
  BY <1>1
<1>3. ASSUME NEW n \in 1 .. N, n - 1 \in S PROVE n \in S
  BY <1>1, <1>3
<1>4. 0 .. N \subseteq S
  <2> HIDE DEF S
  <2> QED
    BY <1>1, <1>2, <1>3, PrefixInduction
<1>5. a[N] = 0
  BY <1>1, <1>4
<1> QED
  BY <1>5 DEF a, N, Total

-----------------------------------------------------------------------------
(* Every split that is not refused succeeds.                                *)

Begun == phase \notin {"check", "refused"}

(* What the rows and the refusals at the start leave to be allocated.       *)
Possible ==
  /\ Total(sizes) = rows
  /\ target["test"] + target["validation"] < rows
  /\ Begun =>
       /\ target["test"] <= rows - Len(sizes)
       /\ target["validation"] <= rows - Len(sizes) - target["test"]

(* The test samples are held out when the validation samples are chosen.    *)
HeldBefore ==
  Begun => Total(reserved) = IF subset = "test" THEN 0 ELSE target["test"]

(* The quotas so far are those of the classes so far and at most the part   *)
(* of the target that these classes have of the rows.                       *)
QuotasCounted ==
  phase = "divide" =>
    /\ allocated = Sums(counts)[class - 1]
    /\ allocated * rows <= Wanted * Sums(sizes)[class - 1]

PlacesCounted ==
  /\ phase \in {"share", "split"} => allocated = Total(counts) /\ allocated <= Wanted
  /\ phase = "split" => subset = "validation" /\ allocated = Wanted
  /\ phase \notin {"overflow", "stuck", "inconsistent"}

AtStart == phase = "check" => allocated = 0

TotalsInv == AtStart /\ Possible /\ HeldBefore /\ QuotasCounted /\ PlacesCounted

TotalsIInv == SplitIInv /\ TotalsInv

(* Sums are of numbers.                                                     *)
LEMMA SummandsKnown ==
  ASSUME SplitIInv
  PROVE  /\ Len(sizes) \in Nat /\ Classes = 1 .. Len(sizes) /\ 1 \in Classes
         /\ rows \in Nat \ {0} /\ Wanted \in 0 .. rows - 1 /\ Wanted < Modulus
         /\ target["test"] \in Nat /\ target["validation"] \in Nat
         /\ \A n \in 1 .. Len(sizes) :
              sizes[n] \in Nat /\ counts[n] \in Nat /\ reserved[n] \in Nat
         /\ class \in 1 .. Len(sizes) /\ allocated \in Nat
<1>1. /\ Shape
      /\ counts \in [Classes -> Size] /\ reserved \in [Classes -> Size]
      /\ class \in Classes /\ allocated \in Size
  BY DEF SplitIInv, DivisionInv, TypeOK
<1>2. Size \subseteq Nat /\ Modulus \in Nat
  BY ModulusPositive DEF Size
<1>3. Len(sizes) \in Nat /\ Classes = 1 .. Len(sizes) /\ 1 \in Classes
  BY <1>1 DEF Shape, Classes
<1>4. rows \in Nat \ {0} /\ rows < Modulus
  BY <1>1, <1>2 DEF Shape
<1>5. Wanted \in 0 .. rows - 1 /\ target["test"] \in Nat /\ target["validation"] \in Nat
  BY <1>1, <1>4 DEF Shape, Wanted, Subsets
<1>6. Wanted < Modulus
  BY ONLY <1>2, <1>4, <1>5
<1>7. \A n \in 1 .. Len(sizes) : sizes[n] \in Nat
  BY <1>1, <1>4 DEF Shape
<1> QED
  BY <1>1, <1>2, <1>3, <1>4, <1>5, <1>6, <1>7

LEMMA SumsStay ==
  ASSUME sizes' = sizes
  PROVE  /\ Sums(counts)' = Sums(counts') /\ Total(counts)' = Total(counts')
         /\ Sums(sizes)' = Sums(sizes) /\ Total(sizes)' = Total(sizes)
         /\ Total(reserved)' = Total(reserved')
  BY DEF Sums, Total

(* Sums at the start of a division.                                         *)
LEMMA DivisionCounted ==
  ASSUME SplitIInv, sizes' = sizes, rows' = rows,
         class' = 1, allocated' = 0, Wanted' \in Nat
  PROVE  QuotasCounted'
<1>1. Len(sizes) \in Nat /\ rows \in Nat
  BY SummandsKnown
<1>2. Sums(counts')[0] = 0 /\ Sums(sizes)[0] = 0
  BY <1>1, SumsAre DEF SumsUpTo
<1>3. Sums(counts)'[0] = 0 /\ Sums(sizes)'[0] = 0
  BY <1>2, SumsStay
<1>4. class' - 1 = 0
  OBVIOUS
<1>5. allocated' = Sums(counts)'[class' - 1]
  BY <1>3, <1>4
<1>6. allocated' * rows' <= Wanted' * Sums(sizes)'[class' - 1]
  BY <1>1, <1>3, <1>4
<1> QED
  BY <1>5, <1>6 DEF QuotasCounted

(* The quotient of a product, with the parts of the classes before.         *)
LEMMA PartsFit ==
  ASSUME NEW a \in Nat, NEW q \in Nat, NEW r \in Nat \ {0}, NEW w \in Nat,
         NEW s \in Nat, NEW t \in Nat, NEW count \in 0 .. q,
         a * r <= w * t, q * r <= s * w, t + s <= r
  PROVE  /\ (a + count) * r <= w * (t + s)
         /\ a + count <= w
<1>1. count * r <= q * r
  BY SMT
<1>2. (a + count) * r = a * r + count * r /\ w * (t + s) = w * t + s * w
  BY SMT
<1>3. (a + count) * r <= w * (t + s)
  <2>1. /\ a * r \in Int /\ count * r \in Int /\ q * r \in Int
        /\ w * t \in Int /\ s * w \in Int
    BY SMT
  <2> QED
    BY <1>1, <1>2, <2>1, SMT
<1>4. w * (t + s) <= w * r
  BY SMT
<1>5. (a + count) * r <= w * r
  <2>1. (a + count) * r \in Int /\ w * (t + s) \in Int /\ w * r \in Int
    BY SMT
  <2> QED
    BY <1>3, <1>4, <2>1, SMT
<1>6. a + count <= w
  <2>1. SUFFICES ASSUME a + count >= w + 1 PROVE FALSE
    BY SMT
  <2>2. (a + count) * r >= (w + 1) * r
    BY <2>1, SMT
  <2>3. (w + 1) * r = w * r + r
    BY SMT
  <2>4. (a + count) * r \in Int /\ w * r \in Int
    BY SMT
  <2> QED
    BY <1>5, <2>2, <2>3, <2>4, SMT
<1> QED
  BY <1>3, <1>6

(* The quotas never exceed the target.                                      *)
LEMMA QuotaCounted ==
  ASSUME TotalsIInv, Quota
  PROVE  TotalsInv'
<1> DEFINE count == Least(result, Capacity(class))
           n == Len(sizes)
<1>a. /\ SplitIInv /\ TotalsInv /\ phase = "divide" /\ bit = 0
      /\ UNCHANGED <<rows, sizes, target, subset, reserved>>
  BY DEF TotalsIInv, Quota, input
<1>b. /\ n \in Nat /\ rows \in Nat \ {0} /\ Wanted \in 0 .. rows - 1
      /\ Wanted < Modulus /\ class \in 1 .. n /\ allocated \in Nat
      /\ \A i \in 1 .. n : sizes[i] \in Nat /\ counts[i] \in Nat
      /\ Classes = 1 .. n
  BY <1>a, SummandsKnown
<1>c. /\ counts' = [counts EXCEPT ![class] = count] /\ count \in Nat
      /\ counts \in [Classes -> Size]
  <2>1. counts' = [counts EXCEPT ![class] = count] /\ count \in Size
    BY <1>a, QuotaCount
  <2>2. count \in Nat
    BY <2>1, ModulusPositive DEF Size
  <2> QED
    BY <1>a, <2>1, <2>2 DEF SplitIInv, TypeOK
<1>d. count \in 0 .. result /\ result \in Nat /\ result * rows <= sizes[class] * Wanted
  <2>1. /\ result \in 0 .. Wanted /\ residual \in 0 .. rows - 1
        /\ result * rows + residual = sizes[class] * Wanted
    BY <1>a DEF SplitIInv, DivisionInv, Divided, Prefix
  <2>2. result \in Nat
    BY ONLY <1>b, <2>1
  <2>3. count <= result
    <3>1. Capacity(class) \in Nat
      BY <1>a, <1>b, CapacityKnown
    <3> QED
      BY ONLY <2>2, <3>1 DEF Least
  <2>4. result * rows \in Int
    BY ONLY <1>b, <2>2
  <2>5. result * rows <= sizes[class] * Wanted
    BY ONLY <1>b, <2>1, <2>4
  <2> QED
    BY <1>c, <2>2, <2>3, <2>5
<1> DEFINE before == Sums(sizes)[class - 1]
<1>e. /\ before \in Nat /\ before + sizes[class] <= rows
      /\ Sums(sizes)[class] = before + sizes[class]
  <2>1. /\ Sums(sizes)[class] = before + sizes[class]
        /\ before \in Nat
    <3>1. class \in 1 .. n /\ class - 1 \in 0 .. n
      BY <1>b
    <3>2. /\ \A i \in 1 .. n : Sums(sizes)[i] = Sums(sizes)[i - 1] + sizes[i]
          /\ \A i \in 0 .. n : Sums(sizes)[i] \in Nat
      BY <1>b, SumsTyped
    <3> QED
      BY <3>1, <3>2
  <2>2. Sums(sizes)[class] <= Total(sizes)
    BY <1>b, SumsGrow
  <2>3. Total(sizes) = rows
    BY <1>a DEF TotalsInv, Possible
  <2> QED
    BY <2>1, <2>2, <2>3
<1>1. /\ (allocated + count) * rows <= Wanted * (before + sizes[class])
      /\ allocated + count <= Wanted
  <2>1. allocated * rows <= Wanted * before
    BY <1>a DEF TotalsInv, QuotasCounted
  <2>2. Wanted \in Nat /\ sizes[class] \in Nat
    BY <1>b
  <2> HIDE DEF count, before
  <2> QED
    BY <1>b, <1>d, <1>e, <2>1, <2>2, PartsFit
<1>2. ~(allocated > Wrap(Wanted - count)) /\ Wrap(allocated + count) = allocated + count
  <2>1. Wanted - count \in Nat /\ Wanted - count < Modulus
        /\ allocated + count \in Nat /\ allocated + count < Modulus
    BY ONLY <1>b, <1>c, <1>1, ModulusPositive
  <2>2. Wrap(Wanted - count) = Wanted - count
    BY <2>1, ModulusPositive, WrapSmall
  <2>3. Wrap(allocated + count) = allocated + count
    BY <2>1, ModulusPositive, WrapSmall
  <2> HIDE DEF count
  <2>4. ~(allocated > Wanted - count)
    BY ONLY <1>b, <1>c, <1>1
  <2> QED
    BY <2>2, <2>3, <2>4
<1>3. /\ allocated' = allocated + count
      /\ IF class = n THEN phase' = "share" /\ UNCHANGED division
         ELSE phase' = "divide" /\ Divide(class + 1, Wanted)
  <2> HIDE DEF Divide
  <2> QED
    BY <1>a, <1>2 DEF Quota
<1>4. Sums(counts')[class] = allocated + count
  <2>1. Sums(counts')[class - 1] = Sums(counts)[class - 1]
    <3>1. class - 1 \in 0 .. n
      BY <1>b
    <3>2. \A i \in 1 .. class - 1 : counts'[i] = counts[i]
      BY <1>b, <1>c
    <3> QED
      BY <1>b, <3>1, <3>2, SumsAgree
  <2>2. Sums(counts)[class - 1] = allocated
    BY <1>a DEF TotalsInv, QuotasCounted
  <2>3. Sums(counts')[class] = Sums(counts')[class - 1] + counts'[class]
    BY <1>b, SumsAre DEF SumsUpTo
  <2>4. counts'[class] = count
    BY <1>b, <1>c
  <2> HIDE DEF count
  <2> QED
    BY <2>1, <2>2, <2>3, <2>4
<1>5. Wanted' = Wanted
  BY <1>a DEF Wanted
<1>6. Possible' /\ HeldBefore'
  <2>1. Begun' /\ Begun
    BY <1>a, <1>3 DEF Begun
  <2> QED
    BY <1>a, <2>1, SumsStay DEF TotalsInv, Possible, HeldBefore
<1>7. CASE class = n
  <2>1. Total(counts)' = allocated'
    <3>1. Total(counts') = allocated'
      BY <1>3, <1>4, <1>7 DEF Total
    <3> QED
      BY <1>a, <3>1, SumsStay
  <2>2. allocated' <= Wanted'
    BY <1>1, <1>3, <1>5
  <2> QED
    BY <1>3, <1>6, <1>7, <2>1, <2>2 DEF TotalsInv, AtStart, QuotasCounted, PlacesCounted
<1>8. CASE class # n
  <2>1. class' - 1 = class
    <3>1. class' = class + 1
      BY <1>3, <1>8 DEF Divide, Dividing
    <3> QED
      BY <1>b, <3>1
  <2>2. allocated' = Sums(counts)'[class' - 1]
    BY <1>a, <1>3, <1>4, <2>1, SumsStay
  <2>3. allocated' * rows' <= Wanted' * Sums(sizes)'[class' - 1]
    BY <1>a, <1>e, <1>1, <1>3, <1>5, <2>1, SumsStay
  <2> QED
    BY <1>3, <1>6, <1>8, <2>2, <2>3 DEF TotalsInv, AtStart, QuotasCounted, PlacesCounted
<1> QED
  BY <1>7, <1>8

(* A place is one sample more.                                              *)
LEMMA PlaceCounted ==
  ASSUME TotalsIInv, Place
  PROVE  TotalsInv'
<1>a. /\ SplitIInv /\ TotalsInv /\ phase = "share" /\ phase' = "share"
      /\ allocated < Wanted /\ allocated' = allocated + 1
      /\ UNCHANGED <<rows, sizes, target, subset, reserved>>
  BY DEF TotalsIInv, Place, input, quotas
<1>b. /\ Len(sizes) \in Nat /\ Classes = 1 .. Len(sizes)
      /\ \A i \in 1 .. Len(sizes) : counts[i] \in Nat
      /\ allocated \in Nat /\ Wanted \in 0 .. rows - 1 /\ rows \in Nat \ {0}
  BY <1>a, SummandsKnown
<1>1. PICK c \in Classes : counts' = [counts EXCEPT ![c] = @ + 1]
  BY DEF Place, Eligible
<1>2. \A n \in 1 .. Len(sizes) : counts'[n] = IF n = c THEN counts[n] + 1 ELSE counts[n]
  BY <1>a, <1>b, <1>1 DEF SplitIInv, TypeOK
<1>3. Total(counts') = Total(counts) + 1
  BY <1>b, <1>2, OneMore
<1>4. allocated' = Total(counts)'
  <2>1. allocated = Total(counts)
    BY <1>a DEF TotalsInv, PlacesCounted
  <2> QED
    BY <1>a, <1>3, <2>1, SumsStay
<1>5. Wanted' = Wanted /\ allocated' <= Wanted'
  BY <1>a, <1>b DEF Wanted
<1>6. Possible' /\ HeldBefore'
  BY <1>a, SumsStay DEF TotalsInv, Possible, HeldBefore, Begun
<1> QED
  BY <1>a, <1>4, <1>5, <1>6 DEF TotalsInv, AtStart, QuotasCounted, PlacesCounted

(* As long as a sample is missing there is a class that has it.             *)
LEMMA RoundCounted ==
  ASSUME TotalsIInv, NextRound
  PROVE  TotalsInv'
<1>a. /\ SplitIInv /\ TotalsInv /\ phase = "share" /\ allocated < Wanted
      /\ phase' = IF \E c \in Classes : counts[c] < Capacity(c) THEN "share" ELSE "stuck"
      /\ UNCHANGED <<rows, sizes, target, subset, reserved, counts, allocated>>
  BY DEF TotalsIInv, NextRound, input, quotas
<1>b. /\ Len(sizes) \in Nat /\ Classes = 1 .. Len(sizes)
      /\ \A i \in 1 .. Len(sizes) :
           sizes[i] \in Nat /\ counts[i] \in Nat /\ reserved[i] \in Nat
      /\ rows \in Nat \ {0}
      /\ target["test"] \in Nat /\ target["validation"] \in Nat
  BY <1>a, SummandsKnown
<1>1. \E c \in Classes : counts[c] < Capacity(c)
  <2> SUFFICES ASSUME \A c \in Classes : ~(counts[c] < Capacity(c)) PROVE FALSE
    OBVIOUS
  <2>1. \A i \in 1 .. Len(sizes) : counts[i] = sizes[i] - 1 - reserved[i]
    <3> SUFFICES ASSUME NEW i \in 1 .. Len(sizes)
                 PROVE  counts[i] = sizes[i] - 1 - reserved[i]
      OBVIOUS
    <3>1. /\ Capacity(i) = sizes[i] - 1 - reserved[i]
          /\ Capacity(i) \in Nat /\ counts[i] \in 0 .. Capacity(i)
      BY <1>a, <1>b, CapacityKnown
    <3>2. ~(counts[i] < Capacity(i))
      BY <1>b
    <3> QED
      BY ONLY <3>1, <3>2
  <2>2. Total(counts) = Total(sizes) - Len(sizes) - Total(reserved)
    BY <1>b, <2>1, AllTaken
  <2>3. /\ Total(sizes) = rows /\ allocated = Total(counts)
        /\ Total(reserved) = IF subset = "test" THEN 0 ELSE target["test"]
        /\ target["test"] <= rows - Len(sizes)
        /\ target["validation"] <= rows - Len(sizes) - target["test"]
    BY <1>a DEF TotalsInv, Possible, HeldBefore, PlacesCounted, Begun
  <2>4. \/ subset = "test" /\ Wanted = target["test"]
        \/ subset # "test" /\ Wanted = target["validation"]
    BY <1>a DEF SplitIInv, TypeOK, Subsets, Wanted
  <2>5. allocated < Wanted
    BY <1>a
  <2>6. CASE subset = "test" /\ Wanted = target["test"]
    BY ONLY <1>b, <2>2, <2>3, <2>5, <2>6
  <2>7. CASE subset # "test" /\ Wanted = target["validation"]
    BY ONLY <1>b, <2>2, <2>3, <2>5, <2>7
  <2> QED
    BY <2>4, <2>6, <2>7
<1>2. phase' = "share" /\ Wanted' = Wanted
  BY <1>a, <1>1 DEF Wanted
<1>3. Possible' /\ HeldBefore'
  BY <1>a, <1>2, SumsStay DEF TotalsInv, Possible, HeldBefore, Begun
<1>4. allocated' = Total(counts)' /\ allocated' <= Wanted'
  BY <1>a, <1>2, SumsStay DEF TotalsInv, PlacesCounted
<1> QED
  BY <1>2, <1>3, <1>4 DEF TotalsInv, AtStart, QuotasCounted, PlacesCounted

(* What is not refused can be allocated.                                    *)
LEMMA CheckCounted ==
  ASSUME TotalsIInv, Check
  PROVE  TotalsInv'
<1>a. /\ SplitIInv /\ TotalsInv /\ phase = "check" /\ subset = "test"
      /\ UNCHANGED <<rows, sizes, target, subset, reserved, counts, allocated>>
      /\ reserved = None
  BY DEF TotalsIInv, Check, input, quotas, SplitIInv, DivisionInv, Shape, Spared
<1>1. CASE ~Acceptable
  <2>1. phase' = "refused"
    BY <1>1 DEF Check
  <2> QED
    BY <1>a, <2>1, SumsStay
    DEF TotalsInv, AtStart, Possible, HeldBefore, QuotasCounted, PlacesCounted, Begun
<1>2. CASE Acceptable
  <2>1. phase' = "divide" /\ Divide(1, target["test"])
    BY <1>2 DEF Check
  <2>2. class' = 1
    BY <2>1 DEF Divide, Dividing
  <2>3. Total(reserved)' = 0
    <3>1. \A n \in 1 .. Len(sizes) : reserved'[n] = 0
      BY <1>a, NoneTyped, SummandsKnown
    <3>2. Len(sizes) \in Nat
      BY <1>a, SummandsKnown
    <3> QED
      BY <1>a, <3>1, <3>2, NoneTotal, SumsStay
  <2>4. Possible'
    BY <1>2, <1>a, SumsStay DEF TotalsInv, Possible, Acceptable
  <2>5. HeldBefore'
    BY <1>a, <2>3 DEF HeldBefore
  <2>6. QuotasCounted'
    <3>1. Wanted' \in Nat
      BY <1>a, SummandsKnown DEF Wanted
    <3>2. allocated' = 0
      BY <1>a DEF TotalsInv, AtStart
    <3> QED
      BY <1>a, <2>2, <3>1, <3>2, DivisionCounted
  <2>7. PlacesCounted'
    BY <2>1 DEF PlacesCounted
  <2> QED
    BY <2>1, <2>4, <2>5, <2>6, <2>7 DEF TotalsInv, AtStart
<1> QED
  BY <1>1, <1>2

(* The validation samples come after all test samples are held out.         *)
LEMMA SubsetCounted ==
  ASSUME TotalsIInv, NextSubset
  PROVE  TotalsInv'
<1>a. /\ SplitIInv /\ TotalsInv /\ phase = "share" /\ subset = "test"
      /\ allocated >= Wanted
      /\ phase' = "divide" /\ subset' = "validation"
      /\ reserved' = counts /\ allocated' = 0 /\ class' = 1
      /\ UNCHANGED <<rows, sizes, target>>
  BY DEF TotalsIInv, NextSubset, input, Divide, Dividing
<1>b. /\ allocated \in Nat /\ Wanted \in 0 .. rows - 1 /\ rows \in Nat \ {0}
      /\ target["validation"] \in Nat
  BY <1>a, SummandsKnown
<1>1. Total(counts) = target["test"]
  <2>1. allocated = Total(counts) /\ allocated <= Wanted
    BY <1>a DEF TotalsInv, PlacesCounted
  <2>2. allocated = Wanted
    BY ONLY <1>a, <1>b, <2>1
  <2> QED
    BY <1>a, <2>1, <2>2 DEF Wanted
<1>2. HeldBefore'
  <2>1. Total(reserved)' = target["test"]
    BY <1>a, <1>1, SumsStay
  <2> QED
    BY <1>a, <2>1 DEF HeldBefore
<1>3. Possible'
  BY <1>a, SumsStay DEF TotalsInv, Possible, Begun
<1>4. QuotasCounted'
  <2>1. Wanted' \in Nat
    BY <1>a, <1>b DEF Wanted
  <2> QED
    BY <1>a, <2>1, DivisionCounted
<1> QED
  BY <1>a, <1>2, <1>3, <1>4 DEF TotalsInv, AtStart, PlacesCounted

(* Both subsets have what was asked for.                                    *)
LEMMA AssignCounted ==
  ASSUME TotalsIInv, Assign
  PROVE  TotalsInv'
<1>a. /\ SplitIInv /\ TotalsInv /\ phase = "share" /\ subset = "validation"
      /\ allocated >= Wanted
      /\ phase' = IF /\ Total(reserved) = target["test"]
                     /\ Total(counts) = target["validation"]
                     /\ Total(reserved) + Total(counts) < rows
                    THEN "split" ELSE "inconsistent"
      /\ UNCHANGED <<rows, sizes, target, subset, reserved, counts, allocated>>
  BY DEF TotalsIInv, Assign, input, quotas
<1>b. allocated \in Nat /\ Wanted \in 0 .. rows - 1 /\ rows \in Nat \ {0}
  BY <1>a, SummandsKnown
<1>1. allocated = Total(counts) /\ allocated <= Wanted
  BY <1>a DEF TotalsInv, PlacesCounted
<1>2. allocated = Wanted /\ Wanted = target["validation"]
  <2>1. allocated = Wanted
    BY ONLY <1>a, <1>b, <1>1
  <2> QED
    BY <1>a, <2>1 DEF Wanted
<1>3. Total(reserved) = target["test"]
  BY <1>a DEF TotalsInv, HeldBefore, Begun
<1>4. phase' = "split"
  BY <1>a, <1>1, <1>2, <1>3 DEF TotalsInv, Possible
<1>5. Possible' /\ HeldBefore'
  BY <1>a, <1>4, SumsStay DEF TotalsInv, Possible, HeldBefore, Begun
<1>6. PlacesCounted'
  <2>1. Wanted' = Wanted /\ Total(counts)' = Total(counts)
    BY <1>a, SumsStay DEF Wanted
  <2> QED
    BY <1>a, <1>1, <1>2, <1>4, <2>1 DEF PlacesCounted
<1> QED
  BY <1>4, <1>5, <1>6 DEF TotalsInv, AtStart, QuotasCounted

LEMMA InitCounted == Starting => TotalsIInv
<1> SUFFICES ASSUME Starting PROVE TotalsIInv
  OBVIOUS
<1>1. SplitIInv
  BY InitSplit
<1>2. TotalsInv
  BY DEF Starting, TotalsInv, AtStart, Possible, HeldBefore, QuotasCounted,
         PlacesCounted, Begun
<1> QED
  BY <1>1, <1>2 DEF TotalsIInv

LEMMA NextCounted == TotalsIInv /\ [Next]_vars => TotalsIInv'
<1> SUFFICES ASSUME TotalsIInv, [Next]_vars PROVE TotalsIInv'
  OBVIOUS
<1>a. SplitIInv'
  BY NextDivision, NextTyped, NextSpared DEF TotalsIInv, SplitIInv
<1>1. CASE Check
  BY <1>a, <1>1, CheckCounted DEF TotalsIInv
<1>2. CASE DivideBit \/ UNCHANGED vars
  <2>1. UNCHANGED <<rows, sizes, target, subset, reserved, counts, allocated, class, phase>>
    BY <1>2 DEF DivideBit, vars, input, quotas, division
  <2>2. TotalsInv'
    BY <2>1, SumsStay
    DEF TotalsIInv, TotalsInv, AtStart, Possible, HeldBefore, QuotasCounted,
        PlacesCounted, Begun, Wanted
  <2> QED
    BY <1>a, <2>2 DEF TotalsIInv
<1>3. CASE Quota
  BY <1>a, <1>3, QuotaCounted DEF TotalsIInv
<1>4. CASE Place
  BY <1>a, <1>4, PlaceCounted DEF TotalsIInv
<1>5. CASE NextRound
  BY <1>a, <1>5, RoundCounted DEF TotalsIInv
<1>6. CASE NextSubset
  BY <1>a, <1>6, SubsetCounted DEF TotalsIInv
<1>7. CASE Assign
  BY <1>a, <1>7, AssignCounted DEF TotalsIInv
<1> QED
  BY <1>1, <1>2, <1>3, <1>4, <1>5, <1>6, <1>7 DEF Next

LEMMA SplitSound == TotalsIInv /\ PlacesFair => SplitAsDocumented
<1> SUFFICES ASSUME TotalsIInv, PlacesFair PROVE SplitAsDocumented
  OBVIOUS
<1>1. ASSUME Ended, phase # "refused"
      PROVE  /\ phase = "split"
             /\ Total(reserved) = target["test"]
             /\ Total(counts) = target["validation"]
             /\ \A c \in Classes : reserved[c] + counts[c] < sizes[c]
  <2>1. phase = "split"
    BY <1>1 DEF TotalsIInv, TotalsInv, PlacesCounted, Ended
  <2>2. subset = "validation" /\ allocated = Wanted /\ allocated = Total(counts)
    BY <2>1 DEF TotalsIInv, TotalsInv, PlacesCounted
  <2>3. Total(reserved) = target["test"]
    BY <2>1, <2>2 DEF TotalsIInv, TotalsInv, HeldBefore, Begun
  <2>4. \A c \in Classes : reserved[c] + counts[c] < sizes[c]
    BY <2>1 DEF TotalsIInv, SplitIInv, Spared
  <2> QED
    BY <2>1, <2>2, <2>3, <2>4 DEF Wanted
<1>2. phase = "share" /\ allocated = Wanted => Total(counts) = Wanted
  BY DEF TotalsIInv, TotalsInv, PlacesCounted
<1> QED
  BY <1>1, <1>2 DEF SplitAsDocumented

(* All of the invariant of a split.                                         *)
SplitInv == TotalsIInv /\ PlacesIInv

LEMMA SplitStarts == Starting => SplitInv
  BY InitCounted, InitPlaces DEF SplitInv

LEMMA SplitGoesOn == SplitInv /\ [Next]_vars => SplitInv'
  BY NextCounted, NextPlaces DEF SplitInv

(* What the invariant says of a split.                                      *)
LEMMA SplitPromises == SplitInv => TypeOK /\ QuotaIsExact /\ SplitAsDocumented
  BY DivisionIsExact, PlacesSound, SplitSound DEF SplitInv, TotalsIInv, SplitIInv

(* Every split that is not refused at the start succeeds: its quotas never  *)
(* exceed the target, it is never without a class that has a sample to give,*)
(* and both subsets have exactly the counts asked for (create_split), for   *)
(* any classes, counts and width of size_t.                                 *)
THEOREM SplitsAreAsDocumented == Spec => []SplitAsDocumented
  BY InitStarts, SplitStarts, SplitGoesOn, SplitPromises, PTL DEF Spec

-----------------------------------------------------------------------------
(* Tuples, and greatest elements.                                           *)

(* "s" is a sequence of n elements, whatever they are.                      *)
Tuple(s, n) == n \in Nat /\ s = [i \in 1 .. n |-> s[i]]

LEMMA TupleIs ==
  ASSUME NEW s, NEW n, Tuple(s, n)
  PROVE  Len(s) = n /\ DOMAIN s = 1 .. n /\ s \in Seq({s[i] : i \in 1 .. n})
<1> DEFINE E == {s[i] : i \in 1 .. n}
<1>1. n \in Nat /\ s = [i \in 1 .. n |-> s[i]]
  BY DEF Tuple
<1>2. \A i \in 1 .. n : s[i] \in E
  OBVIOUS
<1>3. s \in [1 .. n -> E]
  <2> HIDE DEF E
  <2> QED
    BY <1>1, <1>2
<1>4. s \in Seq(E)
  <2> HIDE DEF E
  <2> QED
    BY <1>1, <1>3, SeqDef, Zenon
<1>5. DOMAIN s = 1 .. n
  BY <1>1
<1>6. Len(s) = n
  <2> HIDE DEF E
  <2> QED
    BY ONLY <1>1, <1>4, <1>5
<1> QED
  BY <1>4, <1>5, <1>6

LEMMA SeqIsTuple ==
  ASSUME NEW S, NEW s \in Seq(S)
  PROVE  Tuple(s, Len(s)) /\ Len(s) \in Nat /\ \A i \in 1 .. Len(s) : s[i] \in S
  BY DEF Tuple

LEMMA AppendIs ==
  ASSUME NEW s, NEW n, Tuple(s, n), NEW e
  PROVE  /\ Tuple(Append(s, e), n + 1)
         /\ \A i \in 1 .. n : Append(s, e)[i] = s[i]
         /\ Append(s, e)[n + 1] = e
         /\ Append(s, e) # <<>>
<1> DEFINE E == {s[i] : i \in 1 .. n} \cup {e}
<1>1. n \in Nat /\ Len(s) = n
  BY TupleIs DEF Tuple
<1>2. s \in [1 .. n -> E] /\ e \in E
  <2>1. s = [i \in 1 .. n |-> s[i]]
    BY DEF Tuple
  <2>2. \A i \in 1 .. n : s[i] \in E
    OBVIOUS
  <2>3. e \in E
    OBVIOUS
  <2> HIDE DEF E
  <2> QED
    BY <2>1, <2>2, <2>3
<1> HIDE DEF E
<1>a. s \in Seq(E)
  BY <1>1, <1>2, SeqDef, Zenon
<1>3. /\ Append(s, e) \in Seq(E) /\ Len(Append(s, e)) = n + 1
      /\ \A i \in 1 .. n : Append(s, e)[i] = s[i]
      /\ Append(s, e)[n + 1] = e
  BY <1>1, <1>2, <1>a
<1>4. Tuple(Append(s, e), n + 1)
  BY <1>1, <1>3, SeqIsTuple
<1>5. Append(s, e) # <<>>
  <2>1. Len(<<>>) = 0
    OBVIOUS
  <2>2. n + 1 # 0
    BY <1>1
  <2> QED
    BY <1>3, <2>1, <2>2, Zenon
<1> QED
  BY <1>3, <1>4, <1>5

(* A set of numbers that are bounded has a greatest one.                    *)
LEMMA Greatest ==
  ASSUME NEW M \in Nat, NEW S \in SUBSET (0 .. M), S # {}
  PROVE  \E x \in S : \A y \in S : y <= x
<1> DEFINE Less == OpToRel(<, Nat)
           T == {k \in Nat : M - k \in S}
<1>1. IsWellFoundedOn(Less, Nat)
  BY NatLessThanWellFounded, Zenon
<1>2. T \subseteq Nat /\ T # {}
  <2>1. PICK x \in S : TRUE
    OBVIOUS
  <2>2. x \in 0 .. M
    BY <2>1
  <2>3. M - x \in Nat /\ M - (M - x) = x
    BY ONLY <2>2, M \in Nat
  <2>4. M - x \in T
    BY <2>1, <2>3
  <2> QED
    BY <2>4
<1>3. PICK k \in T : \A m \in T : ~(<<m, k>> \in Less)
  <2> HIDE DEF Less, T
  <2> QED
    BY <1>1, <1>2, WFMin
<1>4. \A m \in T : ~(m < k)
  BY <1>3, Zenon DEF OpToRel
<1>5. k \in Nat /\ M - k \in S
  OBVIOUS
<1>6. ASSUME NEW y \in S PROVE y <= M - k
  <2>1. y \in 0 .. M
    OBVIOUS
  <2>2. M - y \in Nat /\ M - (M - y) = y
    BY ONLY <2>1, M \in Nat
  <2>3. M - y \in T
    BY <2>2
  <2>4. ~(M - y < k)
    BY <1>4, <2>3
  <2> QED
    BY ONLY <1>5, <2>1, <2>4, M \in Nat
<1> QED
  BY <1>5, <1>6

(* Max is an upper bound.                                                   *)
LEMMA MaxIs ==
  ASSUME NEW M \in Nat, NEW S \in SUBSET (0 .. M), S # {}
  PROVE  Max(S) \in S /\ \A y \in S : y <= Max(S)
<1>1. PICK x \in S : \A y \in S : y <= x
  BY Greatest
<1>2. \A y \in S : x >= y
  BY <1>1
<1>3. Max(S) = CHOOSE z \in S : \A y \in S : z >= y
  BY DEF Max
<1>4. Max(S) \in S /\ \A y \in S : Max(S) >= y
  BY <1>2, <1>3, Zenon
<1> QED
  BY <1>4

-----------------------------------------------------------------------------
(* The schema.                                                              *)

(* "g" is the schema after each of the first "n" lines.                     *)
SchemaReadersUpTo(g, lines, outputs, n) ==
  /\ g = [i \in 0 .. n |-> g[i]]
  /\ g[0] = Schema!Empty
  /\ \A i \in 1 .. n : g[i] = Schema!ReadSchemaLine(g[i - 1], lines[i], outputs)

LEMMA SchemaReadersAre ==
  ASSUME NEW lines, NEW outputs, Len(lines) \in Nat
  PROVE  SchemaReadersUpTo(Schema!SchemaReaders(lines, outputs), lines, outputs,
                           Len(lines))
<1> DEFINE N == Len(lines)
           Read(s, i) == Schema!ReadSchemaLine(s, lines[i], outputs)
           Step(g) == [i \in 0 .. N |->
                         IF i = 0 THEN Schema!Empty ELSE Read(g[i - 1], i)]
           S == {n \in Nat : \E g : SchemaReadersUpTo(g, lines, outputs, n)}
<1>1. 0 \in S
  <2> DEFINE g == [i \in 0 .. 0 |-> Schema!Empty]
  <2>1. SchemaReadersUpTo(g, lines, outputs, 0)
    BY DEF SchemaReadersUpTo
  <2> QED
    BY <2>1
<1>2. ASSUME NEW n \in 1 .. N, n - 1 \in S PROVE n \in S
  <2>1. PICK g : SchemaReadersUpTo(g, lines, outputs, n - 1)
    BY <1>2
  <2> HIDE DEF Read
  <2> DEFINE h == [i \in 0 .. n |-> IF i = n THEN Read(g[n - 1], n) ELSE g[i]]
  <2>2. n \in Nat /\ n # 0
    BY <1>2
  <2>3. h[0] = Schema!Empty
    BY <2>1, <2>2 DEF SchemaReadersUpTo
  <2>4. ASSUME NEW i \in 1 .. n PROVE h[i] = Read(h[i - 1], i)
    <3>1. h[i - 1] = g[i - 1]
      BY <2>2
    <3>2. CASE i = n
      BY <2>2, <3>1, <3>2
    <3>3. CASE i # n
      <4>1. i \in 1 .. n - 1 /\ i \in 0 .. n
        BY <2>2, <3>3
      <4>2. g[i] = Read(g[i - 1], i)
        BY <2>1, <4>1 DEF SchemaReadersUpTo, Read
      <4>3. h[i] = g[i]
        BY <3>3, <4>1
      <4> QED
        BY <3>1, <4>2, <4>3
    <3> QED
      BY <3>2, <3>3
  <2>5. SchemaReadersUpTo(h, lines, outputs, n)
    <3>1. h = [i \in 0 .. n |-> h[i]]
      OBVIOUS
    <3>2. \A i \in 1 .. n : h[i] = Read(h[i - 1], i)
      BY <2>4
    <3> HIDE DEF h
    <3> QED
      BY <2>3, <3>1, <3>2 DEF SchemaReadersUpTo, Read
  <2> QED
    BY <2>2, <2>5
<1>3. N \in S
  <2>1. N \in Nat
    OBVIOUS
  <2> HIDE DEF S, N
  <2>2. 0 .. N \subseteq S
    BY <1>1, <1>2, <2>1, PrefixInduction
  <2> QED
    BY <2>1, <2>2
<1>4. PICK g : SchemaReadersUpTo(g, lines, outputs, N)
  BY <1>3
<1>5. g = Step(g)
  <2>1. /\ g = [i \in 0 .. N |-> g[i]] /\ g[0] = Schema!Empty
        /\ \A i \in 1 .. N : g[i] = Read(g[i - 1], i)
    BY <1>4 DEF SchemaReadersUpTo
  <2>2. \A i \in 0 .. N : i # 0 => i \in 1 .. N
    OBVIOUS
  <2> HIDE DEF Read
  <2> QED
    BY <2>1, <2>2
<1> DEFINE r == Schema!SchemaReaders(lines, outputs)
<1>6. r = CHOOSE h : h = Step(h)
  BY DEF Schema!SchemaReaders
<1>7. r = Step(r)
  <2> HIDE DEF Step, r
  <2> QED
    BY <1>5, <1>6
<1>8. /\ r = [i \in 0 .. N |-> r[i]] /\ r[0] = Schema!Empty
      /\ \A i \in 1 .. N : r[i] = Read(r[i - 1], i)
  <2> HIDE DEF r, Read
  <2> QED
    BY <1>7
<1> QED
  <2> HIDE DEF r
  <2>1. SchemaReadersUpTo(r, lines, outputs, N)
    BY <1>8 DEF SchemaReadersUpTo
  <2> QED
    BY <2>1 DEF r

(* What every schema has while it is read for a model of so many outputs.   *)
SchemaTyped(s, outputs) ==
  /\ Tuple(s.inputs, Len(s.inputs))
  /\ Tuple(s.targets, Len(s.targets))
  /\ Tuple(s.classes, Len(s.classes))
  /\ \A k \in 1 .. Len(s.classes) : Tuple(s.classes[k].outputs, outputs)

SchemaFields ==
  {"columns", "header", "inputs", "targets", "label", "classes", "place"}

SchemaShape(s) == s = [f \in SchemaFields |-> s[f]]

LEMMA IndicesTuple ==
  ASSUME NEW words \in Seq(STRING)
  PROVE  Tuple(Schema!Indices(words), Len(Schema!Indices(words)))
<1> DEFINE sizesRead == [i \in DOMAIN words |-> CountOf[words[i]]]
<1>1. Tuple(sizesRead, Len(words)) /\ Tuple(<<>>, 0)
  BY DEF Tuple
<1>2. \/ Schema!Indices(words) = sizesRead
      \/ Schema!Indices(words) = <<>>
  BY DEF Schema!Indices, Schema!ReadSizes
<1> HIDE DEF sizesRead
<1> QED
  BY <1>1, <1>2, TupleIs

LEMMA EmptyTyped ==
  ASSUME NEW outputs
  PROVE  SchemaTyped(Schema!Empty, outputs) /\ SchemaShape(Schema!Empty)
<1>1. Tuple(<<>>, Len(<<>>)) /\ Len(<<>>) = 0
  BY DEF Tuple
<1> QED
  BY <1>1 DEF SchemaTyped, SchemaShape, Schema!Empty, SchemaFields

(* Every line keeps the types.                                              *)
LEMMA LineKeepsTyped ==
  ASSUME NEW s, NEW line \in Seq(STRING), NEW outputs \in Nat,
         SchemaTyped(s, outputs), SchemaShape(s)
  PROVE  LET t == Schema!ReadSchemaLine(s, line, outputs)
         IN  SchemaTyped(t, outputs) /\ SchemaShape(t)
<1> DEFINE t == Schema!ReadSchemaLine(s, line, outputs)
<1>1. CASE t = s
  BY <1>1
<1>2. ASSUME NEW f \in SchemaFields \ {"inputs", "targets", "classes"}, NEW v,
             t = [s EXCEPT ![f] = v]
      PROVE  SchemaTyped(t, outputs) /\ SchemaShape(t)
  <2>1. /\ t.inputs = s.inputs /\ t.targets = s.targets /\ t.classes = s.classes
        /\ SchemaShape(t)
    <3> HIDE DEF t
    <3> QED
      BY <1>2 DEF SchemaShape, SchemaFields
  <2> HIDE DEF t
  <2> QED
    BY <2>1 DEF SchemaTyped
<1>3. ASSUME Len(line) > 1, NEW f \in {"inputs", "targets"},
             t = [s EXCEPT ![f] = Schema!Indices(Tail(line))]
      PROVE  SchemaTyped(t, outputs) /\ SchemaShape(t)
  <2>1. Tail(line) \in Seq(STRING)
    BY <1>3
  <2>2. Tuple(t[f], Len(t[f])) /\ SchemaShape(t)
    <3>1. t[f] = Schema!Indices(Tail(line)) /\ SchemaShape(t)
      <4> HIDE DEF t
      <4> QED
        BY <1>3 DEF SchemaShape, SchemaFields
    <3> HIDE DEF t
    <3> QED
      BY <2>1, <3>1, IndicesTuple
  <2>3. \A h \in SchemaFields \ {f} : t[h] = s[h]
    <3> HIDE DEF t
    <3> QED
      BY <1>3 DEF SchemaShape, SchemaFields
  <2> HIDE DEF t
  <2> QED
    BY <2>2, <2>3 DEF SchemaTyped, SchemaFields
<1>4. ASSUME Schema!ClassLine(s, line, outputs),
             t = [s EXCEPT !.classes = Append(@, Schema!Class(line))]
      PROVE  SchemaTyped(t, outputs) /\ SchemaShape(t)
  <2>1. /\ t.inputs = s.inputs /\ t.targets = s.targets /\ SchemaShape(t)
        /\ t.classes = Append(s.classes, Schema!Class(line))
    <3> HIDE DEF t
    <3> QED
      BY <1>4 DEF SchemaShape, SchemaFields
  <2>2. Tuple(Schema!Class(line).outputs, outputs)
    <3>1. Len(line) - 2 = outputs
      BY <1>4 DEF Schema!ClassLine
    <3> QED
      BY <3>1 DEF Schema!Class, Tuple
  <2> DEFINE n == Len(s.classes)
             e == Schema!Class(line)
             c == Append(s.classes, e)
  <2>3. /\ Tuple(c, n + 1) /\ c[n + 1] = e
        /\ \A i \in 1 .. n : c[i] = s.classes[i]
        /\ n \in Nat
    <3> HIDE DEF e
    <3> QED
      BY AppendIs DEF SchemaTyped, Tuple
  <2>4. Len(c) = n + 1
    <3> HIDE DEF c, n
    <3> QED
      BY <2>3, TupleIs
  <2>5. \A k \in 1 .. n + 1 : Tuple(c[k].outputs, outputs)
    <3> HIDE DEF c, e
    <3> SUFFICES ASSUME NEW k \in 1 .. n + 1 PROVE Tuple(c[k].outputs, outputs)
      OBVIOUS
    <3>1. CASE k = n + 1
      BY <2>2, <2>3, <3>1 DEF e
    <3>2. CASE k # n + 1
      <4>1. k \in 1 .. n
        BY <2>3, <3>2
      <4> QED
        BY <2>3, <4>1 DEF SchemaTyped
    <3> QED
      BY <3>1, <3>2
  <2> HIDE DEF t, c, e
  <2>6. t.classes = c
    BY <2>1 DEF c, e
  <2> HIDE DEF n
  <2> QED
    BY <2>1, <2>3, <2>4, <2>5, <2>6 DEF SchemaTyped
<1>5. \/ t = s
      \/ \E f \in SchemaFields \ {"inputs", "targets", "classes"} :
           \E v : t = [s EXCEPT ![f] = v]
      \/ Len(line) > 1 /\ \E f \in {"inputs", "targets"} :
           t = [s EXCEPT ![f] = Schema!Indices(Tail(line))]
      \/ /\ Schema!ClassLine(s, line, outputs)
         /\ t = [s EXCEPT !.classes = Append(@, Schema!Class(line))]
  <2>1. \/ t = s
        \/ t = [s EXCEPT !.place = "entries"]
        \/ t = [s EXCEPT !.columns = CountOf[line[2]]]
        \/ t = [s EXCEPT !.header = line[2]]
        \/ /\ Schema!InputsLine(s, line)
           /\ t = [s EXCEPT !.inputs = Schema!Indices(Tail(line))]
        \/ /\ Schema!TargetsLine(s, line)
           /\ t = [s EXCEPT !.targets = Schema!Indices(Tail(line))]
        \/ t = [s EXCEPT !.label = <<CountOf[line[2]]>>]
        \/ /\ Schema!ClassLine(s, line, outputs)
           /\ t = [s EXCEPT !.classes = Append(@, Schema!Class(line))]
        \/ t = [s EXCEPT !.place = "end"]
        \/ t = [s EXCEPT !.place = "refused"]
    <3> DEFINE e1 == [s EXCEPT !.place = "entries"]
               e2 == [s EXCEPT !.columns = CountOf[line[2]]]
               e3 == [s EXCEPT !.header = line[2]]
               e4 == [s EXCEPT !.inputs = Schema!Indices(Tail(line))]
               e5 == [s EXCEPT !.targets = Schema!Indices(Tail(line))]
               e6 == [s EXCEPT !.label = <<CountOf[line[2]]>>]
               e7 == [s EXCEPT !.classes = Append(@, Schema!Class(line))]
               e8 == [s EXCEPT !.place = "end"]
               e9 == [s EXCEPT !.place = "refused"]
    <3>1. t = CASE line = <<>> -> s
                [] Schema!TitleLine(s, line) -> e1
                [] Schema!ColumnsLine(s, line) -> e2
                [] Schema!HeaderLine(s, line) -> e3
                [] Schema!InputsLine(s, line) -> e4
                [] Schema!TargetsLine(s, line) -> e5
                [] Schema!LabelLine(s, line) -> e6
                [] Schema!ClassLine(s, line, outputs) -> e7
                [] Schema!EndLine(s, line) -> e8
                [] OTHER -> e9
      BY Zenon DEF Schema!ReadSchemaLine
    <3> HIDE DEF t, e1, e2, e3, e4, e5, e6, e7, e8, e9
    <3>2. /\ line = <<>> =>
               /\ ~Schema!TitleLine(s, line) /\ ~Schema!ColumnsLine(s, line)
               /\ ~Schema!HeaderLine(s, line) /\ ~Schema!InputsLine(s, line)
               /\ ~Schema!TargetsLine(s, line) /\ ~Schema!LabelLine(s, line)
               /\ ~Schema!ClassLine(s, line, outputs) /\ ~Schema!EndLine(s, line)
          /\ Schema!TitleLine(s, line) =>
               /\ ~Schema!ColumnsLine(s, line) /\ ~Schema!HeaderLine(s, line)
               /\ ~Schema!InputsLine(s, line) /\ ~Schema!TargetsLine(s, line)
               /\ ~Schema!LabelLine(s, line)
               /\ ~Schema!ClassLine(s, line, outputs) /\ ~Schema!EndLine(s, line)
      <4>1. ASSUME line = <<>>
            PROVE  /\ Len(line) = 0 /\ line # Schema!Title /\ line # <<"end">>
                   /\ ~(Len(line) > 1) /\ Len(line) # 2 /\ Len(line) # outputs + 2
        BY <4>1 DEF Schema!Title
      <4>2. ASSUME line = <<>>
            PROVE  /\ ~Schema!TitleLine(s, line) /\ ~Schema!ColumnsLine(s, line)
                   /\ ~Schema!HeaderLine(s, line) /\ ~Schema!InputsLine(s, line)
                   /\ ~Schema!TargetsLine(s, line) /\ ~Schema!LabelLine(s, line)
                   /\ ~Schema!ClassLine(s, line, outputs) /\ ~Schema!EndLine(s, line)
        BY <4>1, <4>2, Zenon
        DEF Schema!TitleLine, Schema!ColumnsLine, Schema!HeaderLine,
            Schema!InputsLine, Schema!TargetsLine, Schema!LabelLine,
            Schema!ClassLine, Schema!EndLine
      <4>3. /\ Schema!TitleLine(s, line) => s.place = "title"
            /\ Schema!ColumnsLine(s, line) \/ Schema!HeaderLine(s, line)
               \/ Schema!InputsLine(s, line) \/ Schema!TargetsLine(s, line)
               \/ Schema!LabelLine(s, line) \/ Schema!ClassLine(s, line, outputs)
               \/ Schema!EndLine(s, line) => s.place = "entries"
        BY Zenon
        DEF Schema!TitleLine, Schema!ColumnsLine, Schema!HeaderLine,
            Schema!InputsLine, Schema!TargetsLine, Schema!LabelLine,
            Schema!ClassLine, Schema!EndLine
      <4> QED
        BY <4>2, <4>3
    <3>3. /\ Schema!ColumnsLine(s, line) => line[1] = "columns"
          /\ Schema!HeaderLine(s, line) => line[1] = "header"
          /\ Schema!InputsLine(s, line) => line[1] = "inputs"
          /\ Schema!TargetsLine(s, line) => line[1] = "targets"
          /\ Schema!LabelLine(s, line) => line[1] = "label"
          /\ Schema!ClassLine(s, line, outputs) => line[1] = "class"
          /\ Schema!EndLine(s, line) => line[1] = "end"
      BY DEF Schema!ColumnsLine, Schema!HeaderLine,
             Schema!InputsLine, Schema!TargetsLine, Schema!LabelLine,
             Schema!ClassLine, Schema!EndLine
    <3>4. CASE line = <<>>
      <4>1. /\ ~Schema!TitleLine(s, line)
            /\ ~Schema!ColumnsLine(s, line)
            /\ ~Schema!HeaderLine(s, line)
            /\ ~Schema!InputsLine(s, line)
            /\ ~Schema!TargetsLine(s, line)
            /\ ~Schema!LabelLine(s, line)
            /\ ~Schema!ClassLine(s, line, outputs)
            /\ ~Schema!EndLine(s, line)
        BY <3>2, <3>3, <3>4
      <4>2. t = s
        BY <3>1, <3>4, <4>1, Zenon
      <4> QED
        BY <3>4, <4>2, Zenon DEF e9
    <3>5. CASE Schema!TitleLine(s, line)
      <4>1. /\ line # <<>>
            /\ ~Schema!ColumnsLine(s, line)
            /\ ~Schema!HeaderLine(s, line)
            /\ ~Schema!InputsLine(s, line)
            /\ ~Schema!TargetsLine(s, line)
            /\ ~Schema!LabelLine(s, line)
            /\ ~Schema!ClassLine(s, line, outputs)
            /\ ~Schema!EndLine(s, line)
        BY <3>2, <3>3, <3>5
      <4>2. t = e1
        BY <3>1, <3>5, <4>1, Zenon
      <4> QED
        BY <3>5, <4>2, Zenon DEF e1
    <3>6. CASE Schema!ColumnsLine(s, line)
      <4>1. /\ line # <<>>
            /\ ~Schema!TitleLine(s, line)
            /\ ~Schema!HeaderLine(s, line)
            /\ ~Schema!InputsLine(s, line)
            /\ ~Schema!TargetsLine(s, line)
            /\ ~Schema!LabelLine(s, line)
            /\ ~Schema!ClassLine(s, line, outputs)
            /\ ~Schema!EndLine(s, line)
        BY <3>2, <3>3, <3>6
      <4>2. t = e2
        BY <3>1, <3>6, <4>1, Zenon
      <4> QED
        BY <3>6, <4>2, Zenon DEF e2
    <3>7. CASE Schema!HeaderLine(s, line)
      <4>1. /\ line # <<>>
            /\ ~Schema!TitleLine(s, line)
            /\ ~Schema!ColumnsLine(s, line)
            /\ ~Schema!InputsLine(s, line)
            /\ ~Schema!TargetsLine(s, line)
            /\ ~Schema!LabelLine(s, line)
            /\ ~Schema!ClassLine(s, line, outputs)
            /\ ~Schema!EndLine(s, line)
        BY <3>2, <3>3, <3>7
      <4>2. t = e3
        BY <3>1, <3>7, <4>1, Zenon
      <4> QED
        BY <3>7, <4>2, Zenon DEF e3
    <3>8. CASE Schema!InputsLine(s, line)
      <4>1. /\ line # <<>>
            /\ ~Schema!TitleLine(s, line)
            /\ ~Schema!ColumnsLine(s, line)
            /\ ~Schema!HeaderLine(s, line)
            /\ ~Schema!TargetsLine(s, line)
            /\ ~Schema!LabelLine(s, line)
            /\ ~Schema!ClassLine(s, line, outputs)
            /\ ~Schema!EndLine(s, line)
        BY <3>2, <3>3, <3>8
      <4>2. t = e4
        BY <3>1, <3>8, <4>1, Zenon
      <4> QED
        BY <3>8, <4>2, Zenon DEF e4
    <3>9. CASE Schema!TargetsLine(s, line)
      <4>1. /\ line # <<>>
            /\ ~Schema!TitleLine(s, line)
            /\ ~Schema!ColumnsLine(s, line)
            /\ ~Schema!HeaderLine(s, line)
            /\ ~Schema!InputsLine(s, line)
            /\ ~Schema!LabelLine(s, line)
            /\ ~Schema!ClassLine(s, line, outputs)
            /\ ~Schema!EndLine(s, line)
        BY <3>2, <3>3, <3>9
      <4>2. t = e5
        BY <3>1, <3>9, <4>1, Zenon
      <4> QED
        BY <3>9, <4>2, Zenon DEF e5
    <3>10. CASE Schema!LabelLine(s, line)
      <4>1. /\ line # <<>>
            /\ ~Schema!TitleLine(s, line)
            /\ ~Schema!ColumnsLine(s, line)
            /\ ~Schema!HeaderLine(s, line)
            /\ ~Schema!InputsLine(s, line)
            /\ ~Schema!TargetsLine(s, line)
            /\ ~Schema!ClassLine(s, line, outputs)
            /\ ~Schema!EndLine(s, line)
        BY <3>2, <3>3, <3>10
      <4>2. t = e6
        BY <3>1, <3>10, <4>1, Zenon
      <4> QED
        BY <3>10, <4>2, Zenon DEF e6
    <3>11. CASE Schema!ClassLine(s, line, outputs)
      <4>1. /\ line # <<>>
            /\ ~Schema!TitleLine(s, line)
            /\ ~Schema!ColumnsLine(s, line)
            /\ ~Schema!HeaderLine(s, line)
            /\ ~Schema!InputsLine(s, line)
            /\ ~Schema!TargetsLine(s, line)
            /\ ~Schema!LabelLine(s, line)
            /\ ~Schema!EndLine(s, line)
        BY <3>2, <3>3, <3>11
      <4>2. t = e7
        BY <3>1, <3>11, <4>1, Zenon
      <4> QED
        BY <3>11, <4>2, Zenon DEF e7
    <3>12. CASE Schema!EndLine(s, line)
      <4>1. /\ line # <<>>
            /\ ~Schema!TitleLine(s, line)
            /\ ~Schema!ColumnsLine(s, line)
            /\ ~Schema!HeaderLine(s, line)
            /\ ~Schema!InputsLine(s, line)
            /\ ~Schema!TargetsLine(s, line)
            /\ ~Schema!LabelLine(s, line)
            /\ ~Schema!ClassLine(s, line, outputs)
        BY <3>2, <3>3, <3>12
      <4>2. t = e8
        BY <3>1, <3>12, <4>1, Zenon
      <4> QED
        BY <3>12, <4>2, Zenon DEF e8
    <3>13. CASE /\ line # <<>>
                /\ ~Schema!TitleLine(s, line)
                /\ ~Schema!ColumnsLine(s, line)
                /\ ~Schema!HeaderLine(s, line)
                /\ ~Schema!InputsLine(s, line)
                /\ ~Schema!TargetsLine(s, line)
                /\ ~Schema!LabelLine(s, line)
                /\ ~Schema!ClassLine(s, line, outputs)
                /\ ~Schema!EndLine(s, line)
      <4>1. t = e9
        BY <3>1, <3>13, Zenon
      <4> QED
        BY <4>1, Zenon DEF e9
    <3> QED
      BY <3>4, <3>5, <3>6, <3>7, <3>8, <3>9, <3>10, <3>11, <3>12, <3>13, Zenon
  <2>2. ASSUME NEW f \in SchemaFields \ {"inputs", "targets", "classes"}, NEW v,
               t = [s EXCEPT ![f] = v]
        PROVE  \E h \in SchemaFields \ {"inputs", "targets", "classes"} :
                 \E w : t = [s EXCEPT ![h] = w]
    BY <2>2
  <2>3. {"place", "columns", "header", "label"}
          \subseteq SchemaFields \ {"inputs", "targets", "classes"}
    BY DEF SchemaFields
  <2>4. /\ Schema!InputsLine(s, line) => Len(line) > 1
        /\ Schema!TargetsLine(s, line) => Len(line) > 1
    BY DEF Schema!InputsLine, Schema!TargetsLine
  <2> HIDE DEF t
  <2> QED
    BY <2>1, <2>2, <2>3, <2>4
<1> HIDE DEF t
<1> QED
  BY <1>1, <1>2, <1>3, <1>4, <1>5 DEF t

(* What a schema that is accepted has for the model of the project.         *)
SchemaFits(s) ==
  /\ SchemaTyped(s, Project.outputs)
  /\ Len(s.inputs) = Project.inputs
  /\ ~Schema!Categorical(s) => Len(s.targets) = Project.outputs

LEMMA ReadersTyped ==
  ASSUME NEW lines \in Seq(Seq(STRING)), NEW outputs \in Nat,
         NEW n \in 0 .. Len(lines)
  PROVE  SchemaTyped(Schema!SchemaReaders(lines, outputs)[n], outputs)
<1> DEFINE r == Schema!SchemaReaders(lines, outputs)
           N == Len(lines)
           Sound(s) == SchemaTyped(s, outputs) /\ SchemaShape(s)
           S == {m \in 0 .. N : Sound(r[m])}
<1>1. N \in Nat /\ \A i \in 1 .. N : lines[i] \in Seq(STRING)
  OBVIOUS
<1>2. /\ r[0] = Schema!Empty
      /\ \A i \in 1 .. N : r[i] = Schema!ReadSchemaLine(r[i - 1], lines[i], outputs)
  BY <1>1, SchemaReadersAre DEF SchemaReadersUpTo
<1> HIDE DEF r, N
<1>3. 0 \in S
  BY <1>1, <1>2, EmptyTyped
<1>4. ASSUME NEW m \in 1 .. N, m - 1 \in S PROVE m \in S
  <2>1. Sound(r[m - 1])
    BY <1>4
  <2>2. Sound(Schema!ReadSchemaLine(r[m - 1], lines[m], outputs))
    BY <1>1, <2>1, LineKeepsTyped
  <2>3. r[m] = Schema!ReadSchemaLine(r[m - 1], lines[m], outputs)
    BY <1>2
  <2>4. Sound(r[m])
    <3> HIDE DEF Sound
    <3> QED
      BY <2>2, <2>3
  <2>5. m \in 0 .. N
    BY <1>1
  <2> HIDE DEF Sound
  <2> QED
    BY <2>4, <2>5
<1>5. 0 .. N \subseteq S
  <2> HIDE DEF S
  <2> QED
    BY <1>1, <1>3, <1>4, PrefixInduction
<1>6. n \in S
  BY <1>5 DEF N
<1> QED
  BY <1>6 DEF r

LEMMA LoadFits ==
  ASSUME NEW lines \in Seq(Seq(STRING)),
         Project.inputs \in Nat, Project.outputs \in Nat,
         Schema!LoadSchema(lines, Project.inputs, Project.outputs) # Schema!NoSchema
  PROVE  SchemaFits(Schema!LoadSchema(lines, Project.inputs, Project.outputs))
<1> DEFINE s == Schema!SchemaReaders(lines, Project.outputs)[Len(lines)]
           l == Schema!LoadSchema(lines, Project.inputs, Project.outputs)
<1>1. /\ l = s
      /\ Schema!SchemaValid(s, Project.inputs, Project.outputs)
  BY DEF Schema!LoadSchema
<1>2. SchemaTyped(s, Project.outputs)
  BY ReadersTyped
<1> HIDE DEF s, l
<1>3. SchemaFits(s)
  BY <1>1, <1>2 DEF SchemaFits, Schema!SchemaValid
<1> QED
  BY <1>1, <1>3 DEF l

-----------------------------------------------------------------------------
(* The rows.                                                                *)

RowTyped(row) ==
  /\ row = [f \in {"inputs", "outputs", "class"} |-> row[f]]
  /\ Tuple(row.inputs, Project.inputs)
  /\ Tuple(row.outputs, Project.outputs)

(* The classes of a schema, one when its targets are numbers.               *)
ClassCount(s) == Max({1, Len(s.classes)})

LEMMA ClassCountIs ==
  ASSUME NEW s, Len(s.classes) \in Nat
  PROVE  /\ ClassCount(s) \in Nat
         /\ 1 \in 1 .. ClassCount(s)
         /\ 1 .. Len(s.classes) \subseteq 1 .. ClassCount(s)
<1> DEFINE S == {1, Len(s.classes)}
           M == Len(s.classes) + 1
<1>1. S \in SUBSET (0 .. M) /\ M \in Nat /\ S # {}
  OBVIOUS
<1>2. Max(S) \in S /\ \A y \in S : y <= Max(S)
  <2> HIDE DEF S, M
  <2> QED
    BY <1>1, MaxIs
<1>3. ClassCount(s) = Max(S)
  BY DEF ClassCount
<1>4. ClassCount(s) \in Nat /\ 1 <= ClassCount(s) /\ Len(s.classes) <= ClassCount(s)
  <2> DEFINE C == ClassCount(s)
  <2>1. (C = 1 \/ C = Len(s.classes)) /\ 1 <= C /\ Len(s.classes) <= C
    BY <1>2, <1>3
  <2> HIDE DEF C
  <2>2. C \in Nat /\ 1 <= C /\ Len(s.classes) <= C
    BY <2>1
  <2> QED
    BY <2>2 DEF C
<1> QED
  BY <1>4

(* A row that is accepted has the inputs and outputs of the model.          *)
LEMMA RowFits ==
  ASSUME NEW s, NEW fields, SchemaFits(s), RowReads(s, fields)
  PROVE  /\ RowTyped(RowOf(s, fields))
         /\ RowOf(s, fields).class \in 1 .. ClassCount(s)
<1> DEFINE k == ClassOf(s, fields)
           row == RowOf(s, fields)
           in == [i \in DOMAIN s.inputs |-> InputOf(fields[s.inputs[i] + 1])]
           out == [i \in DOMAIN s.targets |->
                     NumberOf[Word(fields[s.targets[i] + 1])]]
<1>1. /\ DOMAIN s.inputs = 1 .. Project.inputs /\ Project.inputs \in Nat
      /\ DOMAIN s.targets = 1 .. Len(s.targets)
      /\ DOMAIN s.classes = 1 .. Len(s.classes)
      /\ Len(s.targets) \in Nat /\ Len(s.classes) \in Nat
  <2>1. /\ Tuple(s.inputs, Len(s.inputs)) /\ Tuple(s.targets, Len(s.targets))
        /\ Tuple(s.classes, Len(s.classes)) /\ Len(s.inputs) = Project.inputs
    BY DEF SchemaFits, SchemaTyped
  <2> QED
    BY <2>1, TupleIs DEF Tuple
<1>2. Tuple(in, Project.inputs) /\ Tuple(out, Len(s.targets))
  BY <1>1 DEF Tuple
<1>3. Schema!Categorical(s) => k \in 1 .. Len(s.classes)
  <2> SUFFICES ASSUME Schema!Categorical(s) PROVE k \in 1 .. Len(s.classes)
    OBVIOUS
  <2>1. Word(fields[s.label[1] + 1]) \in ToSet(ClassNames(s))
    BY DEF RowReads
  <2>2. \E j \in DOMAIN s.classes : s.classes[j].name = Word(fields[s.label[1] + 1])
    BY <2>1, Zenon DEF ToSet, ClassNames
  <2>3. k = CHOOSE j \in DOMAIN s.classes :
              s.classes[j].name = Word(fields[s.label[1] + 1])
    BY DEF ClassOf
  <2>4. k \in DOMAIN s.classes
    <3> HIDE DEF k
    <3> QED
      BY <2>2, <2>3, Zenon
  <2> QED
    BY <1>1, <2>4
<1>4. ~Schema!Categorical(s) => k = 1
  BY DEF ClassOf
<1>5. row = [inputs |-> in,
             outputs |-> IF Schema!Categorical(s) THEN s.classes[k].outputs ELSE out,
             class |-> k]
  BY Zenon DEF RowOf
<1> HIDE DEF row, k, in, out
<1>6. k \in 1 .. ClassCount(s)
  BY <1>1, <1>3, <1>4, ClassCountIs
<1>7. Tuple(row.outputs, Project.outputs)
  <2>1. CASE Schema!Categorical(s)
    <3>1. row.outputs = s.classes[k].outputs
      BY <1>5, <2>1
    <3> QED
      BY <1>3, <2>1, <3>1 DEF SchemaFits, SchemaTyped
  <2>2. CASE ~Schema!Categorical(s)
    <3>1. row.outputs = out /\ Len(s.targets) = Project.outputs
      BY <1>5, <2>2 DEF SchemaFits
    <3> QED
      BY <1>2, <3>1
  <2> QED
    BY <2>1, <2>2
<1>8. /\ row.inputs = in /\ row.class = k
      /\ row = [f \in {"inputs", "outputs", "class"} |-> row[f]]
  BY <1>5
<1> QED
  BY <1>2, <1>6, <1>7, <1>8 DEF RowTyped, row

-----------------------------------------------------------------------------
(* The split starts with all the rows.                                      *)

(* When classes are counted, their counts make up all rows.                 *)
CountsAddUp ==
  \A n \in Nat : \A f :
    /\ Len(sizes) \in Nat
    /\ \A i \in 1 .. n : f[i] \in 1 .. Len(sizes)
    /\ \A c \in 1 .. Len(sizes) : sizes[c] = Cardinality({i \in 1 .. n : f[i] = c})
    => Total(sizes) = n

LEMMA RowsCounted == CountsAddUp
<1> SUFFICES ASSUME NEW n \in Nat, NEW f, Len(sizes) \in Nat,
                    \A i \in 1 .. n : f[i] \in 1 .. Len(sizes),
                    \A c \in 1 .. Len(sizes) :
                      sizes[c] = Cardinality({i \in 1 .. n : f[i] = c})
             PROVE  Total(sizes) = n
  BY DEF CountsAddUp
<1> DEFINE N == Len(sizes)
           Of(c) == {i \in 1 .. n : f[i] = c}
           UpTo(m) == {i \in 1 .. n : f[i] <= m}
           a == Sums(sizes)
           S == {m \in 0 .. N : a[m] = Cardinality(UpTo(m))}
<1>1. /\ N \in Nat /\ a[0] = 0
      /\ \A m \in 1 .. N : a[m] = a[m - 1] + sizes[m]
  BY SumsAre DEF SumsUpTo
<1>2. IsFiniteSet(1 .. n) /\ Cardinality(1 .. n) = n
  BY FS_Interval
<1>3. \A c : IsFiniteSet(Of(c)) /\ IsFiniteSet(UpTo(c))
             /\ Cardinality(Of(c)) \in Nat /\ Cardinality(UpTo(c)) \in Nat
  <2> SUFFICES ASSUME NEW c
               PROVE  IsFiniteSet(Of(c)) /\ IsFiniteSet(UpTo(c))
                      /\ Cardinality(Of(c)) \in Nat /\ Cardinality(UpTo(c)) \in Nat
    OBVIOUS
  <2>1. Of(c) \subseteq 1 .. n /\ UpTo(c) \subseteq 1 .. n
    OBVIOUS
  <2> HIDE DEF Of, UpTo
  <2>2. IsFiniteSet(Of(c)) /\ IsFiniteSet(UpTo(c))
    BY <1>2, <2>1, FS_Subset
  <2> QED
    BY <2>2, FS_CardinalityType
<1> HIDE DEF N, a
<1>4. 0 \in S
  <2>1. UpTo(0) = {}
    BY DEF N
  <2>2. Cardinality(UpTo(0)) = 0
    <3> HIDE DEF UpTo
    <3> QED
      BY <2>1, FS_EmptySet
  <2> HIDE DEF UpTo
  <2> QED
    BY <1>1, <2>2
<1>5. ASSUME NEW m \in 1 .. N, m - 1 \in S PROVE m \in S
  <2>1. UpTo(m) = UpTo(m - 1) \cup Of(m)
    BY <1>1 DEF N
  <2>2. UpTo(m - 1) \cap Of(m) = {}
    BY <1>1 DEF N
  <2>3. sizes[m] = Cardinality(Of(m))
    BY DEF N
  <2> HIDE DEF Of, UpTo
  <2>4. a[m - 1] = Cardinality(UpTo(m - 1)) /\ m \in 0 .. N
    BY <1>1, <1>5
  <2>5. Cardinality(UpTo(m)) = Cardinality(UpTo(m - 1)) + Cardinality(Of(m))
    <3>1. Cardinality(UpTo(m))
            = Cardinality(UpTo(m - 1)) + Cardinality(Of(m))
              - Cardinality(UpTo(m - 1) \cap Of(m))
      BY <1>3, <2>1, FS_Union
    <3>2. Cardinality(UpTo(m - 1) \cap Of(m)) = 0
      BY <2>2, FS_EmptySet
    <3>3. Cardinality(UpTo(m - 1)) \in Nat /\ Cardinality(Of(m)) \in Nat
      BY <1>3
    <3> QED
      BY <3>1, <3>2, <3>3
  <2> QED
    BY <1>1, <2>3, <2>4, <2>5
<1>6. N \in S
  <2> HIDE DEF S
  <2>1. 0 .. N \subseteq S
    BY <1>1, <1>4, <1>5, PrefixInduction
  <2> QED
    BY <1>1, <2>1
<1>7. UpTo(N) = 1 .. n
  BY DEF N
<1>8. a[N] = n
  <2> HIDE DEF UpTo
  <2> QED
    BY <1>2, <1>6, <1>7
<1> QED
  BY <1>8 DEF N, a, Total

-----------------------------------------------------------------------------
(* The invariant of the import.                                             *)

Csvs == {csv \in Seq(Seq(STRING)) : Len(csv) < Modulus}

Schemas == Seq(Seq(STRING))

FilesSound ==
  /\ Project.inputs \in Nat /\ Project.outputs \in Nat
  /\ given.edits.csv \subseteq Csvs /\ given.edits.schema \subseteq Schemas
  /\ csvFile \in Seq(Csvs) /\ csvFile # <<>>
  /\ schemaFile \in Seq(Schemas) /\ schemaFile # <<>>

(* No pass reads more lines than one of the contents has.                   *)
ReadSound ==
  /\ read \in Seq(Seq(STRING))
  /\ \E i \in DOMAIN csvFile : Len(read) <= Len(csvFile[i])

SchemaSound == place \in {"rows", "targets"} => SchemaFits(schema)

(* There is at most one row for each line of the pass that reads them.      *)
TableSound ==
  /\ Tuple(table, Len(table)) /\ Len(table) < Modulus
  /\ \A i \in 1 .. Len(table) : RowTyped(table[i])
  /\ place \in {"begin", "digest", "schema"} => table = <<>>
  /\ place \in {"rows", "targets"} =>
       \A i \in 1 .. Len(table) : table[i].class \in 1 .. ClassCount(schema)
  /\ place = "rows" => Len(table) <= Len(read)
  /\ place = "targets" => Len(table) # 0

Reading == {"begin", "digest", "schema", "rows", "targets"}

(* The split has not begun before there are rows.                           *)
SplitWaits ==
  place \in Reading =>
    /\ phase = "check" /\ subset = "test"
    /\ used = {} /\ allocated = 0
    /\ class = 1 /\ bit = 0 /\ result = 0 /\ residual = 0

SizesSound ==
  place = "split" => \A c \in Classes : sizes[c] = Cardinality(RowsOfClass(c))

(* Every class that was divided has a row to train on.                      *)
AssignmentSound ==
  /\ place \in Reading \cup {"split"} => assignment = <<>>
  /\ assignment # <<>> =>
       /\ Tuple(assignment, Len(table))
       /\ \A i \in 1 .. Len(table) : assignment[i] \in Parts
       /\ \A c \in Classes : \E i \in 1 .. Len(table) :
            table[i].class = c /\ assignment[i] = "training"

StoredSound == (stored # Nothing) = (place = "done")

Places ==
  Reading \cup {"split", "compare", "fit", "install", "done", "refused"}

ImportInv ==
  /\ place \in Places
  /\ FilesSound /\ ReadSound /\ SchemaSound /\ TableSound
  /\ SplitInv /\ SplitWaits /\ SizesSound /\ AssignmentSound /\ StoredSound

LEMMA ImportStarts == ImportInit => ImportInv
<1> SUFFICES ASSUME ImportInit PROVE ImportInv
  OBVIOUS
<1>1. PICK c \in Cases :
        /\ given = [project |-> c.project, edits |-> c.edits]
        /\ csvFile = <<c.csv>> /\ schemaFile = <<c.schema>>
  BY DEF ImportInit
<1>2. FilesSound
  <2>1. /\ c.csv \in Csvs /\ c.edits.csv \subseteq Csvs
        /\ c.schema \in Schemas /\ c.edits.schema \subseteq Schemas
        /\ c.project.inputs \in Nat /\ c.project.outputs \in Nat
    <3> HIDE DEF Modulus
    <3> QED
      BY CasesAssumption DEF Csvs, Schemas
  <2>2. /\ <<c.csv>> \in Seq(Csvs) /\ <<c.schema>> \in Seq(Schemas)
        /\ <<c.csv>> # <<>> /\ <<c.schema>> # <<>>
    <3> HIDE DEF Csvs, Schemas
    <3> QED
      BY <2>1
  <2> QED
    BY <1>1, <2>1, <2>2 DEF FilesSound, Project
<1>3. ReadSound
  <2>1. read = <<>> /\ Len(read) = 0
    BY DEF ImportInit
  <2>2. Len(csvFile[1]) \in Nat /\ 1 \in DOMAIN csvFile
    BY <1>1, CasesAssumption
  <2> QED
    BY <2>1, <2>2 DEF ReadSound
<1>4. /\ place = "begin" /\ table = <<>> /\ assignment = <<>>
      /\ stored = Nothing
  BY DEF ImportInit
<1>5. TableSound
  <2>1. Tuple(<<>>, 0) /\ Len(<<>>) = 0 /\ 0 < Modulus
    BY ModulusPositive DEF Tuple
  <2> HIDE DEF Modulus
  <2> QED
    BY <1>4, <2>1 DEF TableSound
<1>6. Starting
  <2>1. rows = 1 /\ sizes = <<1>>
    BY DEF ImportInit
  <2>2. /\ Len(sizes) = 1 /\ sizes \in Seq(0 .. 1) /\ sizes # <<>>
        /\ sizes[1] = 1
    BY <2>1
  <2>3. Total(sizes) = 1
    <3>1. SumsUpTo(Sums(sizes), sizes, 1)
      BY <2>2, SumsAre
    <3>2. 1 \in 1 .. 1 /\ 1 - 1 = 0 /\ 0 + 1 = 1
      OBVIOUS
    <3> QED
      BY <2>2, <3>1, <3>2 DEF SumsUpTo, Total
  <2>4. 1 \in 1 .. Modulus - 1
    BY ModulusPositive DEF Modulus
  <2> HIDE DEF Modulus
  <2>5. /\ target \in [Subsets -> 0 .. 1 - 1]
        /\ target["test"] + target["validation"] < 1
    BY DEF ImportInit, Subsets
  <2> QED
    BY <2>1, <2>2, <2>3, <2>4, <2>5 DEF Starting, ImportInit
<1>7. SplitInv
  BY <1>6, SplitStarts
<1>8. SplitWaits
  BY DEF SplitWaits, ImportInit
<1> QED
  BY <1>2, <1>3, <1>4, <1>5, <1>7, <1>8
  DEF ImportInv, SchemaSound, SizesSound, AssignmentSound, StoredSound,
      Places, Reading

LEMMA FilesKeepSound ==
  ASSUME ImportInv, [ImportNext]_importVars
  PROVE  FilesSound'
<1>a. /\ Project.inputs \in Nat /\ Project.outputs \in Nat
      /\ given.edits.csv \subseteq Csvs /\ given.edits.schema \subseteq Schemas
      /\ csvFile \in Seq(Csvs) /\ csvFile # <<>>
      /\ schemaFile \in Seq(Schemas) /\ schemaFile # <<>>
  BY DEF ImportInv, FilesSound
<1>1. CASE EditCsv
  <2>1. PICK content \in given.edits.csv : csvFile' = Append(csvFile, content)
    BY <1>1 DEF EditCsv
  <2>2. given' = given /\ schemaFile' = schemaFile
    BY <1>1 DEF EditCsv
  <2>3. csvFile' \in Seq(Csvs) /\ csvFile' # <<>>
    <3> HIDE DEF Csvs
    <3> QED
      BY <1>a, <2>1
  <2> QED
    BY <1>a, <2>2, <2>3 DEF FilesSound, Project
<1>2. CASE EditSchema
  <2>1. PICK content \in given.edits.schema : schemaFile' = Append(schemaFile, content)
    BY <1>2 DEF EditSchema
  <2>2. given' = given /\ csvFile' = csvFile
    BY <1>2 DEF EditSchema
  <2>3. schemaFile' \in Seq(Schemas) /\ schemaFile' # <<>>
    <3> HIDE DEF Schemas
    <3> QED
      BY <1>a, <2>1
  <2> QED
    BY <1>a, <2>2, <2>3 DEF FilesSound, Project
<1>3. CASE UNCHANGED files
  BY <1>a, <1>3 DEF FilesSound, Project, files
<1>4. CASE Import
  BY <1>3, <1>4
  DEF Import, Begin, DigestLine, DigestFiles, ReadSchema, ReadHeader, ReadRow,
      EndRows, BeginSplit, Split, CompareFiles, Fit, Install, files
<1>5. CASE Stop \/ UNCHANGED importVars
  BY <1>3, <1>5 DEF Stop, importVars
<1> QED
  BY <1>1, <1>2, <1>4, <1>5 DEF ImportNext

(* The line that is read next.                                              *)
LEMMA NextLineKnown ==
  ASSUME FilesSound, ReadSound, More
  PROVE  /\ NextCsvLine \in Seq(STRING)
         /\ Len(csvFile) \in DOMAIN csvFile
         /\ Len(read) \in Nat /\ Len(Csv) \in Nat /\ Len(read) + 1 <= Len(Csv)
         /\ Csv = csvFile[Len(csvFile)] /\ Len(Csv) < Modulus
         /\ Append(read, NextCsvLine) \in Seq(Seq(STRING))
         /\ Len(Append(read, NextCsvLine)) = Len(read) + 1
<1>1. /\ csvFile \in Seq(Csvs) /\ csvFile # <<>> /\ read \in Seq(Seq(STRING))
  BY DEF FilesSound, ReadSound
<1>2. Len(csvFile) \in DOMAIN csvFile /\ csvFile[Len(csvFile)] \in Csvs
  <2> HIDE DEF Csvs
  <2> QED
    BY <1>1
<1>3. Csv \in Seq(Seq(STRING)) /\ Len(Csv) < Modulus
      /\ Csv = csvFile[Len(csvFile)]
  BY <1>2 DEF Csv, Last, Csvs
<1>4. Len(read) + 1 \in 1 .. Len(Csv)
  BY <1>1, <1>3 DEF More
<1>5. NextCsvLine \in Seq(STRING)
  BY <1>3, <1>4 DEF NextCsvLine
<1> QED
  BY <1>1, <1>2, <1>3, <1>4, <1>5

LEMMA LinesKeepSound ==
  ASSUME ImportInv, [ImportNext]_importVars
  PROVE  ReadSound'
<1>a. /\ FilesSound /\ ReadSound /\ read \in Seq(Seq(STRING))
      /\ csvFile \in Seq(Csvs) /\ csvFile # <<>>
  BY DEF ImportInv, FilesSound, ReadSound
<1>b. PICK j \in DOMAIN csvFile : Len(read) <= Len(csvFile[j])
  BY DEF ImportInv, ReadSound
<1>1. CASE DigestLine \/ ReadHeader \/ ReadRow
  <2>1. More /\ read' = Append(read, NextCsvLine) /\ csvFile' = csvFile
    BY <1>1 DEF DigestLine, ReadHeader, ReadRow, files
  <2>2. /\ read' \in Seq(Seq(STRING)) /\ Len(csvFile) \in DOMAIN csvFile
        /\ Len(read') <= Len(csvFile[Len(csvFile)])
    BY <1>a, <2>1, NextLineKnown
  <2> QED
    BY <2>1, <2>2 DEF ReadSound
<1>2. CASE read' = <<>> /\ csvFile' = csvFile
  <2>1. csvFile[j] \in Csvs
    <3> HIDE DEF Csvs
    <3> QED
      BY <1>a, <1>b
  <2>2. Len(csvFile[j]) \in Nat
    BY <2>1 DEF Csvs
  <2>3. <<>> \in Seq(Seq(STRING)) /\ Len(<<>>) = 0
    OBVIOUS
  <2> QED
    BY <1>2, <2>2, <2>3, <1>b DEF ReadSound
<1>3. CASE EditCsv
  <2>1. PICK content : csvFile' = Append(csvFile, content) /\ read' = read
                       /\ content \in Csvs
    BY <1>3 DEF EditCsv, loading, ImportInv, FilesSound
  <2>2. j \in DOMAIN csvFile' /\ csvFile'[j] = csvFile[j]
    <3> HIDE DEF Csvs
    <3> QED
      BY <1>a, <1>b, <2>1
  <2> QED
    BY <1>a, <1>b, <2>1, <2>2 DEF ReadSound
<1>4. CASE UNCHANGED <<read, csvFile>>
  BY <1>4 DEF ImportInv, ReadSound
<1>5. CASE DigestFiles \/ BeginSplit
  BY <1>2, <1>5 DEF DigestFiles, BeginSplit, files
<1>6. CASE Begin \/ ReadSchema \/ EndRows \/ Split \/ CompareFiles \/ Fit \/ Install
  BY <1>4, <1>6
  DEF Begin, ReadSchema, EndRows, Split, CompareFiles, Fit, Install, files, loading
<1>7. CASE EditSchema \/ Stop \/ UNCHANGED importVars
  BY <1>4, <1>7 DEF EditSchema, Stop, importVars, files, loading
<1> QED
  BY <1>1, <1>3, <1>5, <1>6, <1>7 DEF ImportNext, Import

LEMMA SchemaKeepsSound ==
  ASSUME ImportInv, [ImportNext]_importVars
  PROVE  SchemaSound'
<1>1. CASE ReadSchema
  <2>1. /\ Project.inputs \in Nat /\ Project.outputs \in Nat
        /\ schemaFile \in Seq(Schemas) /\ schemaFile # <<>>
    BY DEF ImportInv, FilesSound
  <2>2. Last(schemaFile) \in Seq(Seq(STRING))
    <3>1. Last(schemaFile) \in Schemas
      <4> HIDE DEF Schemas
      <4> QED
        BY <2>1 DEF Last
    <3> QED
      BY <3>1 DEF Schemas
  <2>3. /\ schema' = Schema!LoadSchema(Last(schemaFile), Project.inputs,
                                       Project.outputs)
        /\ place' \in {"rows", "targets"} => schema' # Schema!NoSchema
        /\ Project' = Project
    BY <1>1 DEF ReadSchema, files, Project
  <2>4. place' \in {"rows", "targets"} => SchemaFits(schema')
    BY <2>1, <2>2, <2>3, LoadFits
  <2>5. SchemaFits(schema)' = SchemaFits(schema')
    BY <2>3 DEF SchemaFits
  <2> QED
    BY <2>4, <2>5 DEF SchemaSound
<1>2. CASE /\ UNCHANGED <<schema, given>>
           /\ place' \in {"rows", "targets"} => place \in {"rows", "targets"}
  BY <1>2 DEF ImportInv, SchemaSound, SchemaFits, Project
<1>3. CASE Begin \/ DigestLine \/ DigestFiles \/ ReadHeader \/ ReadRow \/ EndRows
  BY <1>2, <1>3
  DEF Begin, DigestLine, DigestFiles, ReadHeader, ReadRow, EndRows, files, loading
<1>4. CASE BeginSplit \/ Split \/ CompareFiles \/ Fit \/ Install
  BY <1>2, <1>4 DEF BeginSplit, Split, CompareFiles, Fit, Install, files, loading
<1>5. CASE EditCsv \/ EditSchema \/ Stop \/ UNCHANGED importVars
  BY <1>2, <1>5 DEF EditCsv, EditSchema, Stop, importVars, files, loading
<1> QED
  BY <1>1, <1>3, <1>4, <1>5 DEF ImportNext, Import

(* Rows stay rows when nothing but their inputs changes.                    *)
LEMMA AppliedRow ==
  ASSUME NEW row, RowTyped(row), NEW m
  PROVE  LET r == [row EXCEPT !.inputs = Transform!Apply(m, @)]
         IN  RowTyped(r) /\ r.class = row.class
<1> DEFINE in == Transform!Apply(m, row.inputs)
           r == [row EXCEPT !.inputs = in]
<1>1. /\ row = [f \in {"inputs", "outputs", "class"} |-> row[f]]
      /\ Tuple(row.inputs, Project.inputs) /\ Tuple(row.outputs, Project.outputs)
  BY DEF RowTyped
<1>2. Tuple(in, Project.inputs)
  <2>1. DOMAIN row.inputs = 1 .. Project.inputs /\ Project.inputs \in Nat
    BY <1>1, TupleIs DEF Tuple
  <2> QED
    BY <2>1 DEF Transform!Apply, Tuple
<1> HIDE DEF in
<1>3. /\ r.inputs = in /\ r.outputs = row.outputs /\ r.class = row.class
      /\ r = [f \in {"inputs", "outputs", "class"} |-> r[f]]
  BY <1>1
<1>4. RowTyped(r) /\ r.class = row.class
  <2> HIDE DEF r
  <2> QED
    BY <1>1, <1>2, <1>3 DEF RowTyped
<1> QED
  BY <1>4 DEF in

LEMMA TableKeepsSound ==
  ASSUME ImportInv, [ImportNext]_importVars
  PROVE  TableSound'
<1>a. /\ FilesSound /\ ReadSound /\ TableSound
      /\ Tuple(table, Len(table)) /\ Len(table) \in Nat /\ Len(table) < Modulus
      /\ \A i \in 1 .. Len(table) : RowTyped(table[i])
  <2>1. /\ FilesSound /\ ReadSound /\ TableSound
        /\ Tuple(table, Len(table)) /\ Len(table) < Modulus
        /\ \A i \in 1 .. Len(table) : RowTyped(table[i])
    BY DEF ImportInv, TableSound
  <2> QED
    BY <2>1 DEF Tuple
<1>1. ASSUME given' = given
      PROVE  \A row : RowTyped(row)' = RowTyped(row')
  BY <1>1 DEF RowTyped, Project
<1> HIDE DEF Modulus
<1>2. CASE ReadRow /\ table' # table
  <2> DEFINE fields == Line!ParseCsvLine(NextCsvLine)
             row == RowOf(schema, fields)
             n == Len(table)
  <2>1. /\ place = "rows" /\ place' = "rows" /\ More
        /\ read' = Append(read, NextCsvLine)
        /\ UNCHANGED <<given, schema>>
        /\ RowReads(schema, fields) /\ table' = Append(table, row)
    BY <1>2 DEF ReadRow, files
  <2>2. RowTyped(row) /\ row.class \in 1 .. ClassCount(schema)
    BY <2>1, RowFits DEF ImportInv, SchemaSound
  <2>3. /\ Len(read) \in Nat /\ Len(Csv) \in Nat
        /\ Len(read') = Len(read) + 1 /\ Len(read) + 1 <= Len(Csv)
        /\ Len(Csv) < Modulus
    BY <1>a, <2>1, NextLineKnown
  <2>4. Len(table) <= Len(read)
    BY <1>a, <2>1 DEF TableSound
  <2> HIDE DEF row, fields
  <2>5. /\ Tuple(table', n + 1) /\ table'[n + 1] = row
        /\ \A i \in 1 .. n : table'[i] = table[i]
    BY <1>a, <2>1, AppendIs
  <2>6. Len(table') = n + 1
    <3> HIDE DEF n
    <3> QED
      BY <2>5, TupleIs
  <2>7. /\ Len(table') < Modulus /\ Len(table') <= Len(read')
    BY ONLY <1>a, <2>3, <2>4, <2>6, ModulusPositive
  <2>8. \A i \in 1 .. n + 1 : /\ RowTyped(table'[i])
                              /\ table'[i].class \in 1 .. ClassCount(schema)
    <3> SUFFICES ASSUME NEW i \in 1 .. n + 1
                 PROVE  RowTyped(table'[i]) /\ table'[i].class \in 1 .. ClassCount(schema)
      OBVIOUS
    <3>1. CASE i = n + 1
      BY <2>2, <2>5, <3>1
    <3>2. CASE i \in 1 .. n
      <4>1. RowTyped(table[i]) /\ table[i].class \in 1 .. ClassCount(schema)
        BY <1>a, <2>1, <3>2 DEF TableSound
      <4> QED
        BY <2>5, <3>2, <4>1
    <3> QED
      BY <1>a, <3>1, <3>2
  <2>9. \A i \in 1 .. Len(table') : RowTyped(table[i])'
    BY <2>1, <2>6, <2>8 DEF RowTyped, Project
  <2> QED
    BY <2>1, <2>5, <2>6, <2>7, <2>8, <2>9 DEF TableSound
<1>3. CASE Fit /\ place' = "install"
  <2>1. PICK m : table' = [i \in DOMAIN table |->
                             [table[i] EXCEPT !.inputs = Transform!Apply(m, @)]]
    BY <1>3, Zenon DEF Fit
  <2>2. DOMAIN table = 1 .. Len(table)
    BY <1>a, TupleIs
  <2>3. Tuple(table', Len(table)) /\ Len(table') = Len(table)
    <3>1. Tuple(table', Len(table))
      BY <1>a, <2>1, <2>2 DEF Tuple
    <3> QED
      BY <3>1, TupleIs
  <2>4. \A i \in 1 .. Len(table') : RowTyped(table'[i])
    <3> SUFFICES ASSUME NEW i \in 1 .. Len(table) PROVE RowTyped(table'[i])
      BY <2>3
    <3>1. table'[i] = [table[i] EXCEPT !.inputs = Transform!Apply(m, @)]
      BY <2>1, <2>2
    <3> QED
      BY <1>a, <3>1, AppliedRow
  <2>5. given' = given
    BY <1>3 DEF Fit, files
  <2>6. \A i \in 1 .. Len(table') : RowTyped(table[i])'
    BY <2>4, <2>5 DEF RowTyped, Project
  <2> QED
    BY <1>a, <1>3, <2>3, <2>6 DEF TableSound
<1>4. CASE /\ UNCHANGED <<table, given>>
           /\ place' \in {"begin", "digest", "schema"} =>
                place \in {"begin", "digest", "schema"}
           /\ place' \in {"rows", "targets"} =>
                \/ /\ place \in {"rows", "targets"} /\ schema' = schema
                   /\ place = "rows" /\ place' = "rows" => Len(read) <= Len(read')
                   /\ place = "targets" => place' = "targets"
                   /\ place' = "targets" => table # <<>>
                \/ place = "schema" /\ place' = "rows" /\ Len(read') \in Nat
  <2>1. Tuple(table, Len(table))' /\ Len(table)' = Len(table)
    BY <1>a, <1>4
  <2>2. \A i \in 1 .. Len(table)' : RowTyped(table[i])'
    BY <1>a, <1>4 DEF RowTyped, Project
  <2>3. place' \in {"begin", "digest", "schema"} => table' = <<>>
    BY <1>a, <1>4 DEF TableSound
  <2>4. Len(<<>>) = 0
    OBVIOUS
  <2>5. Len(table) = 0 => table = <<>>
    BY <1>a DEF Tuple
  <2>6. CASE place' \in {"rows", "targets"} /\ place \in {"rows", "targets"}
    <3>1. /\ schema' = schema /\ place' = "targets" => table # <<>>
          /\ place' = "rows" => place = "rows" /\ Len(read) <= Len(read')
      BY <1>4, <2>6
    <3>2. \A i \in 1 .. Len(table)' : table[i].class' \in 1 .. ClassCount(schema)'
      BY <1>a, <1>4, <2>6, <3>1 DEF TableSound, ClassCount
    <3>3. place' = "rows" => Len(table)' <= Len(read)'
      <4>1. SUFFICES ASSUME place' = "rows" PROVE Len(table) <= Len(read')
        BY <1>4
      <4>2. Len(table) <= Len(read) /\ Len(read) <= Len(read')
        BY <1>a, <3>1, <4>1 DEF TableSound
      <4>3. Len(read) \in Nat /\ Len(read') \in Nat
        <5>1. read \in Seq(Seq(STRING)) /\ read' \in Seq(Seq(STRING))
          BY LinesKeepSound DEF ImportInv, ReadSound
        <5> QED
          BY <5>1
      <4> QED
        BY ONLY <1>a, <4>2, <4>3
    <3>4. place' = "targets" => Len(table)' # 0
      BY <1>4, <2>5, <3>1
    <3> QED
      BY <1>a, <1>4, <2>1, <2>2, <2>3, <3>2, <3>3, <3>4 DEF TableSound
  <2>7. CASE place' \in {"rows", "targets"} /\ place \notin {"rows", "targets"}
    <3>1. place = "schema" /\ place' = "rows" /\ Len(read') \in Nat
      BY <1>4, <2>7
    <3>2. table' = <<>> /\ Len(table') = 0
      BY <1>a, <1>4, <2>4, <3>1 DEF TableSound
    <3> QED
      BY <1>a, <2>1, <2>2, <3>1, <3>2 DEF TableSound
  <2>8. CASE place' \notin {"rows", "targets"}
    BY <1>a, <2>1, <2>2, <2>3, <2>8, <1>4 DEF TableSound
  <2> QED
    BY <2>6, <2>7, <2>8
<1>b. Len(read') \in Nat /\ Len(read) \in Nat
  <2>1. read \in Seq(Seq(STRING)) /\ read' \in Seq(Seq(STRING))
    BY LinesKeepSound DEF ImportInv, ReadSound
  <2> QED
    BY <2>1
<1>5. CASE Begin \/ DigestLine \/ DigestFiles \/ ReadSchema \/ EndRows
  BY <1>4, <1>5, <1>b
  DEF Begin, DigestLine, DigestFiles, ReadSchema, EndRows, files, loading, results
<1>6. CASE ReadHeader \/ (ReadRow /\ table' = table)
  <2>1. /\ place = "rows" /\ place' \in {"rows", "refused"}
        /\ More /\ read' = Append(read, NextCsvLine)
        /\ UNCHANGED <<table, given, schema>>
    BY <1>6 DEF ReadHeader, ReadRow, files
  <2>2. Len(read) <= Len(read')
    <3>1. Len(read') = Len(read) + 1
      BY <1>a, <2>1, NextLineKnown
    <3> QED
      BY <1>b, <3>1
  <2> QED
    BY <1>4, <2>1, <2>2
<1>7. CASE BeginSplit \/ Split \/ CompareFiles \/ Install \/ (Fit /\ place' # "install")
  <2>1. /\ UNCHANGED <<table, given>>
        /\ place' \notin {"begin", "digest", "schema", "rows", "targets"}
    BY <1>7 DEF BeginSplit, Split, CompareFiles, Fit, Install, files, loading
  <2> QED
    BY <1>4, <2>1
<1>8. CASE EditCsv \/ EditSchema \/ Stop \/ UNCHANGED importVars
  <2>1. /\ UNCHANGED <<table, given, place, schema, read>>
        /\ place = "targets" => table # <<>>
    <3>1. Len(<<>>) = 0
      OBVIOUS
    <3> QED
      BY <1>a, <1>8, <3>1 DEF EditCsv, EditSchema, Stop, importVars, files, loading, TableSound
  <2> QED
    BY <1>4, <1>b, <2>1
<1>9. CASE ReadRow
  <2>1. CASE table' = table
    BY <1>6, <1>9, <2>1
  <2>2. CASE table' # table
    BY <1>2, <1>9, <2>2
  <2> QED
    BY <2>1, <2>2
<1>10. CASE Fit
  <2>1. CASE place' = "install"
    BY <1>3, <1>10, <2>1
  <2>2. CASE place' # "install"
    BY <1>7, <1>10, <2>2
  <2> QED
    BY <2>1, <2>2
<1> QED
  BY <1>5, <1>6, <1>7, <1>8, <1>9, <1>10 DEF ImportNext, Import

(* The accepted rows are a split that starts.                               *)
LEMMA BeginStarts ==
  ASSUME ImportInv, BeginSplit, place' = "split"
  PROVE  Starting' /\ SizesSound'
<1> DEFINE n == Len(table)
           m == ClassCount(schema)
           Of(c) == {i \in 1 .. n : table[i].class = c}
<1>a. /\ place = "targets" /\ UNCHANGED <<table, schema>>
      /\ \E t \in RatioCounts : target' = t /\ requested' \in Requests(t)
      /\ rows' = n
      /\ sizes' = [c \in 1 .. m |-> Cardinality(RowsOfClass(c))]
      /\ reserved' = [c \in DOMAIN sizes' |-> 0]
      /\ counts' = reserved' /\ remainders' = reserved'
      /\ UNCHANGED <<phase, subset, used, allocated, division>>
  BY Zenon DEF BeginSplit, ClassCount
<1>b. /\ Tuple(table, n) /\ n < Modulus /\ n # 0
      /\ \A i \in 1 .. n : table[i].class \in 1 .. m
      /\ SchemaFits(schema)
  BY <1>a DEF ImportInv, TableSound, SchemaSound
<1>c. n \in Nat /\ DOMAIN table = 1 .. n
  <2> HIDE DEF n
  <2> QED
    BY <1>b, TupleIs DEF Tuple
<1>d. m \in Nat /\ 1 \in 1 .. m
  <2>1. Tuple(schema.classes, Len(schema.classes))
    BY <1>b DEF SchemaFits, SchemaTyped
  <2>2. Len(schema.classes) \in Nat
    BY <2>1 DEF Tuple
  <2> QED
    BY <2>2, ClassCountIs
<1>e. \A c : Cardinality(Of(c)) \in 0 .. n
  <2> SUFFICES ASSUME NEW c PROVE Cardinality(Of(c)) \in 0 .. n
    OBVIOUS
  <2>1. IsFiniteSet(1 .. n) /\ Cardinality(1 .. n) = n
    <3> HIDE DEF n
    <3> QED
      BY <1>c, FS_Interval
  <2>2. Of(c) \subseteq 1 .. n
    OBVIOUS
  <2> HIDE DEF Of
  <2>3. IsFiniteSet(Of(c)) /\ Cardinality(Of(c)) <= Cardinality(1 .. n)
    BY <2>1, <2>2, FS_Subset
  <2>4. Cardinality(Of(c)) \in Nat
    BY <2>3, FS_CardinalityType
  <2> HIDE DEF n
  <2> QED
    BY <1>c, <2>1, <2>3, <2>4
<1>f. \A c : RowsOfClass(c) = Of(c)
  BY <1>c DEF RowsOfClass
<1> HIDE DEF n, m, Of
<1>1. sizes' = [c \in 1 .. m |-> Cardinality(Of(c))]
  BY <1>a, <1>f
<1>2. /\ DOMAIN sizes' = 1 .. m /\ \A c \in 1 .. m : sizes'[c] = Cardinality(Of(c))
      /\ sizes' \in [1 .. m -> 0 .. n]
  BY <1>1, <1>e
<1>3. sizes' \in Seq(0 .. n)
  BY <1>2, <1>d, SeqDef, Zenon
<1>4. Len(sizes') = m /\ sizes' # <<>>
  <2>1. Len(sizes') = m
    BY <1>2, <1>3, <1>d
  <2> QED
    BY <2>1, <1>d
<1>5. Total(sizes)' = n
  <2> DEFINE f == [i \in 1 .. n |-> table[i].class]
  <2>1. CountsAddUp'
    BY RowsCounted, PTL
  <2>2. \A i \in 1 .. n : f[i] \in 1 .. m
    BY <1>b DEF n, m
  <2>3. \A c : {i \in 1 .. n : f[i] = c} = Of(c)
    BY DEF Of
  <2> HIDE DEF f
  <2> QED
    BY <1>2, <1>4, <1>c, <1>d, <2>1, <2>2, <2>3 DEF CountsAddUp
<1>6. rows' \in 1 .. Modulus' - 1
  <2>1. Modulus \in Nat
    BY ModulusPositive
  <2>2. Modulus' = Modulus
    BY DEF Modulus
  <2> HIDE DEF Modulus
  <2>3. n < Modulus /\ n # 0
    BY <1>b DEF n
  <2> QED
    BY <1>a, <1>c, <2>1, <2>2, <2>3 DEF n
<1>7. /\ target' \in [Subsets -> 0 .. rows' - 1]
      /\ target'["test"] + target'["validation"] < rows'
  BY <1>a DEF RatioCounts, n
<1>8. /\ reserved' = None' /\ counts' = None' /\ remainders' = None'
  BY <1>a DEF None, Classes
<1>9. /\ phase' = "check" /\ subset' = "test" /\ used' = {} /\ allocated' = 0
      /\ class' = 1 /\ bit' = 0 /\ result' = 0 /\ residual' = 0
  BY <1>a DEF ImportInv, SplitWaits, Reading, division
<1>10. Starting'
  <2>1. rows' = n /\ Subsets' = Subsets
    BY <1>a DEF n, Subsets
  <2> HIDE DEF Modulus
  <2> QED
    BY <1>3, <1>4, <1>5, <1>6, <1>7, <1>8, <1>9, <2>1 DEF Starting
<1>11. SizesSound'
  BY <1>a, <1>f, <1>2 DEF SizesSound, Classes, RowsOfClass
<1> QED
  BY <1>10, <1>11

LEMMA SplitKeepsSound ==
  ASSUME ImportInv, [ImportNext]_importVars
  PROVE  SplitInv' /\ SplitWaits' /\ SizesSound'
<1>a. SplitInv /\ SplitWaits /\ SizesSound
  BY DEF ImportInv
<1>1. CASE /\ UNCHANGED vars
           /\ place' \in Reading => place \in Reading
           /\ place' = "split" => place = "split" /\ table' = table
  <2>1. SplitInv'
    BY <1>a, <1>1, SplitGoesOn
  <2>2. UNCHANGED <<phase, subset, used, allocated, class, bit, result, residual, sizes>>
    BY <1>1 DEF vars, input, quotas, division
  <2>3. SplitWaits'
    BY <1>a, <1>1, <2>2 DEF SplitWaits
  <2>4. SizesSound'
    BY <1>a, <1>1, <2>2 DEF SizesSound, Classes, RowsOfClass
  <2> QED
    BY <2>1, <2>3, <2>4
<1>2. CASE BeginSplit
  <2>1. CASE place' = "split"
    <3>1. Starting' /\ SizesSound'
      BY <1>2, <2>1, BeginStarts
    <3>2. Starting' => SplitInv'
      BY SplitStarts, PTL
    <3> QED
      BY <2>1, <3>1, <3>2 DEF SplitWaits, Reading
  <2>2. CASE place' # "split"
    <3>1. place' = "refused" /\ UNCHANGED vars
      BY <1>2, <2>2 DEF BeginSplit, vars, input, quotas, division
    <3> QED
      BY <1>1, <3>1 DEF Reading
  <2> QED
    BY <2>1, <2>2
<1>3. CASE Split
  <2>1. [Next]_vars /\ table' = table /\ place = "split" /\ place' \notin Reading
    BY <1>3 DEF Split, loading, Reading
  <2>2. sizes' = sizes
    BY <2>1, InputStays DEF input
  <2>3. SizesSound'
    BY <1>a, <2>1, <2>2 DEF SizesSound, Classes, RowsOfClass
  <2> QED
    BY <1>a, <2>1, <2>3, SplitGoesOn DEF SplitWaits
<1>4. CASE Begin \/ DigestLine \/ DigestFiles \/ ReadSchema \/ ReadHeader
           \/ ReadRow \/ EndRows
  BY <1>1, <1>4
  DEF Begin, DigestLine, DigestFiles, ReadSchema, ReadHeader, ReadRow, EndRows,
      splitVars, Reading
<1>5. CASE CompareFiles \/ Fit \/ Install
  BY <1>1, <1>5 DEF CompareFiles, Fit, Install, splitVars, Reading
<1>6. CASE EditCsv \/ EditSchema \/ Stop \/ UNCHANGED importVars
  BY <1>1, <1>6 DEF EditCsv, EditSchema, Stop, importVars, splitVars, loading
<1> QED
  BY <1>2, <1>3, <1>4, <1>5, <1>6 DEF ImportNext, Import

(* The last row of a class in the shuffled order is trained on.             *)
LEMMA LastRowTrains ==
  ASSUME NEW n \in Nat, DOMAIN table = 1 .. n,
         NEW order \in [1 .. n -> 1 .. n],
         NEW c, Cardinality(RowsOfClass(c)) \in Nat,
         reserved[c] \in Nat, counts[c] \in Nat,
         reserved[c] + counts[c] < Cardinality(RowsOfClass(c))
  PROVE  \E i \in 1 .. n : table[i].class = c /\ Assigned(order)[i] = "training"
<1> DEFINE R == RowsOfClass(c)
           O == {order[i] : i \in R}
<1>1. R \subseteq 1 .. n /\ \A i \in R : table[i].class = c
  BY DEF RowsOfClass
<1>2. R # {}
  <2>1. Cardinality({}) = 0
    BY FS_EmptySet
  <2>2. RowsOfClass(c) # {}
    <3>1. Cardinality(RowsOfClass(c)) # Cardinality({})
      BY <2>1
    <3> QED
      BY <3>1, Zenon
  <2> QED
    BY <2>2
<1> HIDE DEF R
<1>3. O \in SUBSET (0 .. n) /\ O # {}
  <2>1. \A i \in R : order[i] \in 0 .. n
    BY <1>1
  <2> QED
    BY <1>2, <2>1
<1>4. PICK x \in O : \A y \in O : y <= x
  <2> HIDE DEF O
  <2> QED
    BY <1>3, Greatest
<1>5. PICK i \in R : order[i] = x
  OBVIOUS
<1>6. {j \in R : order[j] <= order[i]} = R
  BY <1>4, <1>5
<1>7. /\ i \in 1 .. n /\ table[i].class = c
      /\ {j \in RowsOfClass(table[i].class) : order[j] <= order[i]} = R
  BY <1>1, <1>5, <1>6 DEF R
<1>8. /\ ~(Cardinality(R) <= reserved[c]) /\ ~(Cardinality(R) <= reserved[c] + counts[c])
  BY DEF R
<1>9. Assigned(order)[i]
        = IF Cardinality(R) <= reserved[c] THEN "test"
          ELSE IF Cardinality(R) <= reserved[c] + counts[c] THEN "validation"
          ELSE "training"
  BY <1>7, Zenon DEF Assigned
<1> QED
  BY <1>7, <1>8, <1>9

LEMMA AssignmentKeepsSound ==
  ASSUME ImportInv, [ImportNext]_importVars
  PROVE  AssignmentSound'
<1>a. AssignmentSound /\ Tuple(table, Len(table))
  BY DEF ImportInv, TableSound
<1>b. Len(table) \in Nat /\ DOMAIN table = 1 .. Len(table)
  <2>1. Len(table) \in Nat
    BY <1>a DEF Tuple
  <2> QED
    BY <1>a, <2>1, TupleIs
<1>1. CASE Split /\ place' = "compare"
  <2>1. /\ phase' = "split" /\ Next /\ UNCHANGED table /\ place = "split"
        /\ \E order \in Orders : assignment' = Assigned(order)
    BY <1>1 DEF Split, loading
  <2>2. UNCHANGED <<sizes, reserved, counts>>
    <3>1. phase \in {"check", "divide", "share"} \/ Ended
      BY DEF ImportInv, SplitInv, TotalsIInv, SplitIInv, TypeOK
    <3>2. Assign
      <4>1. ~Check
        BY <2>1 DEF Check
      <4>2. ~DivideBit /\ ~Place /\ ~NextSubset
        BY <2>1 DEF DivideBit, Place, NextSubset
      <4>3. ~Quota
        BY <2>1 DEF Quota
      <4>4. ~NextRound
        BY <2>1 DEF NextRound
      <4> QED
        BY <2>1, <4>1, <4>2, <4>3, <4>4 DEF Next
    <3> QED
      BY <3>2 DEF Assign, input, quotas
  <2>3. PICK order \in Orders : assignment' = Assigned(order)
    BY <2>1
  <2>4. order \in [1 .. Len(table) -> 1 .. Len(table)]
    <3>1. \/ order \in [DOMAIN table -> DOMAIN table]
          \/ order = [i \in DOMAIN table |-> i]
      BY <2>3 DEF Orders
    <3> QED
      BY <1>b, <3>1
  <2>5. ASSUME NEW c \in Classes
        PROVE  /\ reserved[c] \in Nat /\ counts[c] \in Nat
               /\ Cardinality(RowsOfClass(c)) \in Nat
               /\ reserved[c] + counts[c] < Cardinality(RowsOfClass(c))
    <3>1. SplitIInv /\ SplitIInv' /\ Classes' = Classes
      BY <2>2, SplitKeepsSound DEF ImportInv, SplitInv, TotalsIInv, Classes
    <3>2. reserved'[c] + counts'[c] < sizes'[c]
      BY <2>1, <3>1 DEF SplitIInv, Spared
    <3>3. reserved[c] \in Nat /\ counts[c] \in Nat /\ sizes[c] \in Nat
      BY <3>1, SummandsKnown
    <3>4. sizes[c] = Cardinality(RowsOfClass(c))
      BY <2>1 DEF ImportInv, SizesSound
    <3> QED
      BY <2>2, <3>2, <3>3, <3>4
  <2>6. \A c \in Classes : \E i \in 1 .. Len(table) :
          table[i].class = c /\ Assigned(order)[i] = "training"
    BY <1>b, <2>4, <2>5, LastRowTrains
  <2>7. /\ Tuple(Assigned(order), Len(table))
        /\ \A i \in 1 .. Len(table) : Assigned(order)[i] \in Parts
    BY <1>b DEF Assigned, Tuple, Parts, Subsets
  <2>8. Classes' = Classes /\ Parts' = Parts
    BY <2>2 DEF Classes, Parts, Subsets
  <2> QED
    BY <1>1, <2>1, <2>3, <2>6, <2>7, <2>8 DEF AssignmentSound, Reading
<1>2. CASE /\ UNCHANGED assignment
           /\ assignment # <<>> => UNCHANGED <<table, sizes>>
           /\ place' \in Reading \cup {"split"} => place \in Reading \cup {"split"}
  <2>1. Parts' = Parts
    BY DEF Parts, Subsets
  <2>2. Classes' = Classes \/ assignment = <<>>
    BY <1>2 DEF Classes
  <2> QED
    BY <1>a, <1>2, <2>1, <2>2 DEF AssignmentSound
<1>3. CASE Begin \/ DigestFiles \/ ReadSchema \/ ReadHeader \/ ReadRow \/ EndRows
  <2>1. place \in Reading /\ assignment' = assignment
    BY <1>3
    DEF Begin, DigestFiles, ReadSchema, ReadHeader, ReadRow, EndRows, results, Reading
  <2> QED
    BY <1>a, <1>2, <2>1 DEF AssignmentSound
<1>4. CASE BeginSplit
  <2>1. place \in Reading /\ assignment' = assignment
    BY <1>4 DEF BeginSplit, results, Reading
  <2> QED
    BY <1>a, <1>2, <2>1 DEF AssignmentSound
<1>5. CASE Split /\ place' # "compare"
  <2>1. place = "split" /\ assignment' = assignment
    BY <1>5 DEF Split
  <2> QED
    BY <1>a, <1>2, <2>1 DEF AssignmentSound
<1>6. CASE Fit
  <2>1. /\ place' \in {"install", "refused"} /\ UNCHANGED <<assignment, sizes>>
        /\ place \notin Reading \cup {"split"}
    BY <1>6 DEF Fit, splitVars, vars, input, Reading
  <2>2. /\ Len(table') = Len(table)
        /\ \A i \in 1 .. Len(table) : table'[i].class = table[i].class
    <3>1. CASE table' = table
      BY <3>1
    <3>2. CASE table' # table
      <4>1. PICK m : table' = [i \in DOMAIN table |->
                                 [table[i] EXCEPT !.inputs = Transform!Apply(m, @)]]
        BY <1>6, <3>2, Zenon DEF Fit
      <4>2. Tuple(table', Len(table))
        BY <1>b, <4>1 DEF Tuple
      <4>3. \A i \in 1 .. Len(table) : table'[i].class = table[i].class
        <5> SUFFICES ASSUME NEW i \in 1 .. Len(table)
                     PROVE  table'[i].class = table[i].class
          OBVIOUS
        <5>1. table'[i] = [table[i] EXCEPT !.inputs = Transform!Apply(m, @)]
          BY <1>b, <4>1
        <5>2. RowTyped(table[i])
          BY DEF ImportInv, TableSound
        <5> QED
          BY <5>1, <5>2, AppliedRow
      <4> QED
        BY <4>2, <4>3, TupleIs
    <3> QED
      BY <3>1, <3>2
  <2>3. Classes' = Classes /\ Parts' = Parts
    BY <2>1 DEF Classes, Parts, Subsets
  <2> QED
    BY <1>a, <2>1, <2>2, <2>3 DEF AssignmentSound, Reading
<1>7. CASE DigestLine \/ CompareFiles \/ Install \/ EditCsv \/ EditSchema \/ Stop \/ UNCHANGED importVars
  <2>1. /\ UNCHANGED <<assignment, table, sizes>>
        /\ place' \in Reading \cup {"split"} => place \in Reading \cup {"split"}
    BY <1>7
    DEF DigestLine, CompareFiles, Install, EditCsv, EditSchema, Stop, importVars,
        splitVars, vars, input, loading, results, Reading
  <2> QED
    BY <1>2, <2>1
<1>8. CASE Split
  BY <1>1, <1>5, <1>8
<1> QED
  BY <1>3, <1>4, <1>6, <1>7, <1>8 DEF ImportNext, Import

LEMMA PlaceKeepsSound ==
  ASSUME ImportInv, [ImportNext]_importVars
  PROVE  place' \in Places /\ StoredSound'
<1>a. place \in Places /\ (stored # Nothing) = (place = "done")
  BY DEF ImportInv, StoredSound
<1>1. CASE Install
  <2>1. place' = "done" /\ DOMAIN stored' = {"datasets", "metadata"}
    BY <1>1 DEF Install
  <2>2. "metadata" \notin DOMAIN <<>>
    OBVIOUS
  <2>3. stored' # <<>>
    BY <2>1, <2>2, Zenon
  <2>4. Nothing' = <<>>
    BY DEF Nothing
  <2> QED
    BY <2>1, <2>3, <2>4 DEF StoredSound, Places
<1>2. CASE /\ stored' = stored /\ place' \in Places
           /\ (place' = "done") = (place = "done")
  BY <1>a, <1>2 DEF StoredSound, Nothing
<1>3. CASE Begin \/ DigestLine \/ DigestFiles \/ ReadSchema \/ ReadHeader
           \/ ReadRow \/ EndRows
  BY <1>2, <1>3
  DEF Begin, DigestLine, DigestFiles, ReadSchema, ReadHeader, ReadRow, EndRows,
      results, Places, Reading
<1>4. CASE BeginSplit \/ Split \/ CompareFiles \/ Fit
  BY <1>2, <1>4
  DEF BeginSplit, Split, CompareFiles, Fit, results, Places, Reading
<1>5. CASE EditCsv \/ EditSchema \/ Stop \/ UNCHANGED importVars
  BY <1>a, <1>2, <1>5 DEF EditCsv, EditSchema, Stop, importVars, results
<1> QED
  BY <1>1, <1>3, <1>4, <1>5 DEF ImportNext, Import

LEMMA ImportGoesOn == ImportInv /\ [ImportNext]_importVars => ImportInv'
  BY FilesKeepSound, LinesKeepSound, SchemaKeepsSound, TableKeepsSound,
     SplitKeepsSound, AssignmentKeepsSound, PlaceKeepsSound
  DEF ImportInv

LEMMA ImportTyped == ImportInv => ImportTypeOK
<1> SUFFICES ASSUME ImportInv PROVE ImportTypeOK
  OBVIOUS
<1>1. TypeOK /\ place \in Places
  BY SplitPromises DEF ImportInv
<1>2. /\ Tuple(table, Len(table)) /\ DOMAIN table = 1 .. Len(table)
      /\ \A i \in 1 .. Len(table) : RowTyped(table[i])
  <2>1. Tuple(table, Len(table)) /\ \A i \in 1 .. Len(table) : RowTyped(table[i])
    BY DEF ImportInv, TableSound
  <2> QED
    BY <2>1, TupleIs
<1>3. \A i \in DOMAIN table :
        /\ Len(table[i].inputs) = Project.inputs
        /\ Len(table[i].outputs) = Project.outputs
  <2> SUFFICES ASSUME NEW i \in 1 .. Len(table)
               PROVE  /\ Len(table[i].inputs) = Project.inputs
                      /\ Len(table[i].outputs) = Project.outputs
    BY <1>2
  <2>1. /\ Tuple(table[i].inputs, Project.inputs)
        /\ Tuple(table[i].outputs, Project.outputs)
    BY <1>2 DEF RowTyped
  <2> QED
    BY <2>1, TupleIs
<1>4. Len(read) <= Max({Len(content) : content \in ToSet(csvFile)})
  <2> DEFINE S == {Len(content) : content \in ToSet(csvFile)}
  <2>1. csvFile \in Seq(Csvs) /\ read \in Seq(Seq(STRING))
    BY DEF ImportInv, FilesSound, ReadSound
  <2>2. PICK i \in DOMAIN csvFile : Len(read) <= Len(csvFile[i])
    BY DEF ImportInv, ReadSound
  <2>3. ToSet(csvFile) \subseteq Csvs /\ csvFile[i] \in ToSet(csvFile)
    <3> HIDE DEF Csvs
    <3> QED
      BY <2>1, <2>2 DEF ToSet
  <2>4. \A csv \in Csvs : Len(csv) \in 0 .. Modulus
    <3> HIDE DEF Modulus
    <3> QED
      BY ModulusPositive DEF Csvs
  <2>5. S \in SUBSET (0 .. Modulus) /\ Len(csvFile[i]) \in S
    <3> HIDE DEF Modulus
    <3> QED
      BY <2>3, <2>4
  <2>6. \A y \in S : y <= Max(S) /\ Max(S) \in 0 .. Modulus
    <3>1. Modulus \in Nat /\ S # {}
      BY <2>5, ModulusPositive
    <3> HIDE DEF S, Modulus
    <3> QED
      BY <2>5, <3>1, MaxIs
  <2>7. Len(read) \in Nat /\ Len(csvFile[i]) \in Nat /\ Max(S) \in Int
    <3>1. Modulus \in Nat
      BY ModulusPositive
    <3> HIDE DEF S, Modulus
    <3> QED
      BY <2>1, <2>5, <2>6, <3>1
  <2> HIDE DEF S
  <2>8. Len(read) <= Max(S)
    BY ONLY <2>2, <2>5, <2>6, <2>7
  <2> QED
    BY <2>8 DEF S
<1>5. ASSUME assignment # <<>>
      PROVE  /\ DOMAIN assignment = DOMAIN table
             /\ ToSet(assignment) \subseteq Parts
             /\ \A c \in Classes : RowsOfClass(c) \cap RowsOf("training") # {}
  <2>1. /\ Tuple(assignment, Len(table))
        /\ \A i \in 1 .. Len(table) : assignment[i] \in Parts
        /\ \A c \in Classes : \E i \in 1 .. Len(table) :
             table[i].class = c /\ assignment[i] = "training"
    BY <1>5 DEF ImportInv, AssignmentSound
  <2>2. DOMAIN assignment = 1 .. Len(table)
    BY <2>1, TupleIs
  <2>3. ToSet(assignment) \subseteq Parts
    BY <2>1, <2>2 DEF ToSet
  <2>4. \A c \in Classes : RowsOfClass(c) \cap RowsOf("training") # {}
    BY <1>2, <2>1 DEF RowsOfClass, RowsOf
  <2> QED
    BY <1>2, <2>2, <2>3, <2>4
<1>6. (stored # Nothing) = (place = "done")
  BY DEF ImportInv, StoredSound
<1> QED
  BY <1>1, <1>3, <1>4, <1>5, <1>6 DEF ImportTypeOK, Places, Reading

LEMMA ImportHolds == ImportSpec => []ImportInv
  BY ImportStarts, ImportGoesOn, PTL DEF ImportSpec

(* Whatever its user edits meanwhile, an import reads no line that a        *)
(* content does not have, its rows have the inputs and outputs of the model,*)
(* every class that was divided keeps a row to train on, and datasets are   *)
(* in the project exactly when it succeeded (neural_data_import_csv).       *)
THEOREM ImportTypeCorrect == ImportSpec => []ImportTypeOK
  BY ImportHolds, ImportTyped, PTL

(* In an import the quotas are divided exactly ...                          *)
THEOREM ImportQuotasAreExact == ImportSpec => []QuotaIsExact
<1>1. ImportInv => QuotaIsExact
  BY SplitPromises DEF ImportInv
<1> QED
  BY <1>1, ImportHolds, PTL

(* ... and the rows that were read, however many, are divided as asked: the *)
(* classes of all rows add up to the rows, so that the split starts as it   *)
(* does on its own (create_split in neural_data_import_csv).                *)
THEOREM ImportSplitsAsDocumented == ImportSpec => []SplitAsDocumented
<1>1. ImportInv => SplitAsDocumented
  BY SplitPromises DEF ImportInv
<1> QED
  BY <1>1, ImportHolds, PTL

-----------------------------------------------------------------------------
(* What is recorded of the two passes, for a CSV file that is edited at     *)
(* most once while it is imported, and a schema that is edited at will.     *)

Begins(s, t) == Len(s) <= Len(t) /\ \A i \in 1 .. Len(s) : s[i] = t[i]

Distinct(s) == \A i, j \in 1 .. Len(s) : s[i] = s[j] => i = j

Loaded(lines, project) ==
  Schema!LoadSchema(lines, project.inputs, project.outputs)

Skipped(s) == IF s.header = "yes" THEN 1 ELSE 0

(* The rows of the lines that were read, behind the header.                 *)
RowsIn(csv, s) ==
  [k \in 1 .. Len(csv) - Skipped(s) |->
     RowOf(s, Line!ParseCsvLine(csv[k + Skipped(s)]))]

CsvIsIn(csv) == \E i \in 1 .. Len(csvFile) : csvFile[i] = csv

SchemaIsIn(lines) == \E j \in 1 .. Len(schemaFile) : schemaFile[j] = lines

(* The schema was loaded from what was digested or from what came later.    *)
SchemaRecorded ==
  /\ place = "schema" => SchemaIsIn(digests.schema)
  /\ place \in {"rows", "targets", "split", "compare"} =>
       \E j, k \in 1 .. Len(schemaFile) :
         /\ j <= k
         /\ digests.schema = schemaFile[j] /\ schema = Loaded(schemaFile[k], Project)

(* Every row that is installed has a part.                                  *)
RowsAssigned ==
  /\ place \in {"split", "compare", "fit", "install", "done"} => Len(table) # 0
  /\ place \in {"compare", "fit", "install", "done"} =>
       Tuple(assignment, Len(table))

(* What a pass has read.                                                    *)
PassSound ==
  /\ place \in {"begin", "schema"} => read = <<>>
  /\ place = "rows" => table = RowsIn(read, schema)
  /\ place = "split" => read = <<>>
  /\ place \in {"begin", "digest"} /\ Len(csvFile) = 1 =>
       Begins(read, csvFile[1])
  /\ place \in {"schema", "rows"} /\ Len(csvFile) = 1 =>
       digests.csv = csvFile[1] /\ Begins(read, csvFile[1])
  /\ place \in {"schema", "rows"} /\ Len(csvFile) = 2 =>
       digests.csv = csvFile[1] \/ Begins(read, csvFile[2])

(* The rows are those of the first content, whose digest was taken, or of   *)
(* the second, from which the last pass reads, or that pass will tell.      *)
RowsSound ==
  place \in {"targets", "split", "compare"} =>
    \/ digests.csv = csvFile[1] /\ table = RowsIn(csvFile[1], schema)
    \/ /\ Len(csvFile) = 2
       /\ digests.csv = csvFile[1] \/ table = RowsIn(csvFile[2], schema)
       /\ place # "targets" => Begins(read, csvFile[2])

RowsRecorded ==
  place = "fit" =>
    /\ CsvIsIn(digests.csv) /\ SchemaIsIn(digests.schema)
    /\ table = RowsIn(digests.csv, Loaded(digests.schema, Project))

WithInputs(row) == [row EXCEPT !.inputs = Transform!Apply(metadata, @)]

Recorded == RowsIn(metadata.source, Loaded(metadata.schema, Project))

(* The statistics are those of the training rows, and fit all rows.         *)
MetadataRecorded ==
  place \in {"install", "done"} =>
    /\ CsvIsIn(metadata.source) /\ SchemaIsIn(metadata.schema)
    /\ Tuple(Recorded, Len(table))
    /\ table = [i \in 1 .. Len(table) |-> WithInputs(Recorded[i])]
    /\ \A i \in 1 .. Len(table) :
         /\ RowTyped(Recorded[i])
         /\ Transform!CanApply(metadata, Recorded[i].inputs)
    /\ metadata.features =
         Transform!FitAll([i \in 1 .. Len(table) |-> Recorded[i].inputs],
                          RowsOf("training"), metadata.normalization)

MetadataSound ==
  place \in {"install", "done"} =>
    /\ metadata.version = 2 /\ Transform!MetadataValid(metadata)
    /\ Tuple(metadata.features, Project.inputs)
    /\ metadata.stratified \in BOOLEAN

StoredIs ==
  place = "done" =>
    stored = [datasets |-> [part \in Parts |-> Dataset(part)],
              metadata |-> Transform!WriteMetadata(metadata)]

FilesDistinct == Distinct(csvFile) /\ Distinct(schemaFile)

RecordedInv ==
  /\ FilesDistinct /\ SchemaRecorded /\ RowsAssigned /\ MetadataSound /\ StoredIs
  /\ Len(csvFile) <= 2 =>
       PassSound /\ RowsSound /\ RowsRecorded /\ MetadataRecorded

LEMMA RecordedStarts == ImportInit => RecordedInv
<1> SUFFICES ASSUME ImportInit PROVE RecordedInv
  OBVIOUS
<1>1. PICK c \in Cases : csvFile = <<c.csv>> /\ schemaFile = <<c.schema>>
  BY DEF ImportInit
<1>2. place = "begin" /\ read = <<>>
  BY DEF ImportInit
<1>3. Len(csvFile) = 1 /\ FilesDistinct
  BY <1>1 DEF FilesDistinct, Distinct
<1>4. Begins(read, csvFile[1])
  <2>1. c.csv \in Seq(Seq(STRING))
    BY <1>1, CasesAssumption
  <2> QED
    BY <1>1, <1>2, <2>1 DEF Begins
<1> QED
  BY <1>2, <1>3, <1>4
  DEF RecordedInv, SchemaRecorded, RowsAssigned, MetadataSound, StoredIs,
      PassSound, RowsSound, RowsRecorded, MetadataRecorded

-----------------------------------------------------------------------------
(* Contents are never repeated, and those there were stay known.            *)

LEMMA LongerList ==
  ASSUME NEW S, NEW s \in Seq(S), NEW e \in S
  PROVE  /\ Len(Append(s, e)) = Len(s) + 1 /\ Len(s) \in Nat
         /\ \A i \in 1 .. Len(s) : Append(s, e)[i] = s[i]
         /\ Append(s, e)[Len(s) + 1] = e
  OBVIOUS

LEMMA StaysDistinct ==
  ASSUME NEW S, NEW s \in Seq(S), NEW e \in S \ ToSet(s), Distinct(s)
  PROVE  Distinct(Append(s, e))
<1> DEFINE t == Append(s, e)
           n == Len(s)
<1>1. /\ Len(t) = n + 1 /\ n \in Nat
      /\ \A i \in 1 .. n : t[i] = s[i] /\ s[i] # e
      /\ t[n + 1] = e
  <2>1. \A i \in 1 .. n : s[i] # e
    BY DEF ToSet
  <2> QED
    BY <2>1, LongerList
<1> SUFFICES ASSUME NEW i \in 1 .. n + 1, NEW j \in 1 .. n + 1, t[i] = t[j]
             PROVE  i = j
  <2> HIDE DEF t, n
  <2> QED
    BY <1>1 DEF Distinct, t
<1> HIDE DEF t
<1>2. CASE i \in 1 .. n /\ j \in 1 .. n
  BY <1>1, <1>2 DEF Distinct
<1>3. CASE i = n + 1 \/ j = n + 1
  <2> HIDE DEF n
  <2> QED
    BY <1>1, <1>3
<1> QED
  <2> HIDE DEF n
  <2> QED
    BY <1>1, <1>2, <1>3

(* Both files are what they were, or have one content more.                 *)
LEMMA FilesGrow ==
  ASSUME ImportInv, FilesDistinct, [ImportNext]_importVars
  PROVE  /\ FilesDistinct'
         /\ Len(csvFile) \in Nat \ {0} /\ Len(schemaFile) \in Nat \ {0}
         /\ given' = given
         /\ \/ UNCHANGED files
            \/ /\ EditCsv /\ schemaFile' = schemaFile
               /\ Len(csvFile') = Len(csvFile) + 1
            \/ /\ EditSchema /\ csvFile' = csvFile
               /\ Len(schemaFile') = Len(schemaFile) + 1
         /\ \A i \in 1 .. Len(csvFile) :
              i \in 1 .. Len(csvFile') /\ csvFile'[i] = csvFile[i]
         /\ \A i \in 1 .. Len(schemaFile) :
              i \in 1 .. Len(schemaFile') /\ schemaFile'[i] = schemaFile[i]
<1>a. /\ csvFile \in Seq(Csvs) /\ csvFile # <<>>
      /\ schemaFile \in Seq(Schemas) /\ schemaFile # <<>>
      /\ given.edits.csv \subseteq Csvs /\ given.edits.schema \subseteq Schemas
  BY DEF ImportInv, FilesSound
<1> HIDE DEF Csvs, Schemas
<1>b. Len(csvFile) \in Nat \ {0} /\ Len(schemaFile) \in Nat \ {0}
  BY <1>a
<1>1. CASE EditCsv
  <2>1. PICK content \in given.edits.csv \ ToSet(csvFile) :
          csvFile' = Append(csvFile, content)
    BY <1>1 DEF EditCsv
  <2>2. given' = given /\ schemaFile' = schemaFile
    BY <1>1 DEF EditCsv
  <2>3. content \in Csvs \ ToSet(csvFile)
    BY <1>a, <2>1
  <2>4. Distinct(csvFile')
    BY <1>a, <2>1, <2>3, StaysDistinct DEF FilesDistinct
  <2>5. /\ Len(csvFile') = Len(csvFile) + 1
        /\ \A i \in 1 .. Len(csvFile) : csvFile'[i] = csvFile[i]
    BY <1>a, <2>1, <2>3, LongerList
  <2> QED
    BY <1>1, <1>b, <2>2, <2>4, <2>5 DEF FilesDistinct
<1>2. CASE EditSchema
  <2>1. PICK content \in given.edits.schema \ ToSet(schemaFile) :
          schemaFile' = Append(schemaFile, content)
    BY <1>2 DEF EditSchema
  <2>2. given' = given /\ csvFile' = csvFile
    BY <1>2 DEF EditSchema
  <2>3. content \in Schemas \ ToSet(schemaFile)
    BY <1>a, <2>1
  <2>4. Distinct(schemaFile')
    BY <1>a, <2>1, <2>3, StaysDistinct DEF FilesDistinct
  <2>5. /\ Len(schemaFile') = Len(schemaFile) + 1
        /\ \A i \in 1 .. Len(schemaFile) : schemaFile'[i] = schemaFile[i]
    BY <1>a, <2>1, <2>3, LongerList
  <2> QED
    BY <1>2, <1>b, <2>2, <2>4, <2>5 DEF FilesDistinct
<1>3. CASE UNCHANGED files
  BY <1>b, <1>3 DEF FilesDistinct, Distinct, files
<1>4. CASE Import
  BY <1>3, <1>4
  DEF Import, Begin, DigestLine, DigestFiles, ReadSchema, ReadHeader, ReadRow,
      EndRows, BeginSplit, Split, CompareFiles, Fit, Install, files
<1>5. CASE Stop \/ UNCHANGED importVars
  BY <1>3, <1>5 DEF Stop, importVars
<1> QED
  BY <1>1, <1>2, <1>4, <1>5 DEF ImportNext

-----------------------------------------------------------------------------
(* What is known of the schema, the parts and the metadata, whatever is     *)
(* edited.                                                                  *)

LEMMA SchemaStaysRecorded ==
  ASSUME ImportInv, RecordedInv, [ImportNext]_importVars
  PROVE  SchemaRecorded'
<1>a. SchemaRecorded /\ FilesDistinct
  BY DEF RecordedInv
<1>b. /\ given' = given /\ Len(schemaFile) \in Nat \ {0}
      /\ \A i \in 1 .. Len(schemaFile) :
           i \in 1 .. Len(schemaFile') /\ schemaFile'[i] = schemaFile[i]
  BY <1>a, FilesGrow
<1>1. CASE DigestFiles
  <2>1. /\ digests'.schema = schemaFile[Len(schemaFile)] /\ place' = "schema"
        /\ schemaFile' = schemaFile
    BY <1>1 DEF DigestFiles, Last, files
  <2> QED
    BY <1>b, <2>1 DEF SchemaRecorded, SchemaIsIn
<1>2. CASE ReadSchema
  <2>1. /\ place = "schema" /\ place' \in {"refused", "rows"}
        /\ schema' = Loaded(schemaFile[Len(schemaFile)], Project)
        /\ schemaFile' = schemaFile /\ digests' = digests
    BY <1>2 DEF ReadSchema, Last, files, Loaded
  <2>2. PICK j \in 1 .. Len(schemaFile) : schemaFile[j] = digests.schema
    BY <1>a, <2>1 DEF SchemaRecorded, SchemaIsIn
  <2>3. j <= Len(schemaFile) /\ Len(schemaFile) \in 1 .. Len(schemaFile)
    BY <1>b, <2>2
  <2>4. Project' = Project
    BY <1>b DEF Project
  <2> QED
    BY <2>1, <2>2, <2>3, <2>4 DEF SchemaRecorded
<1>3. CASE /\ digests' = digests
           /\ place' = "schema" => place = "schema"
           /\ place' \in {"rows", "targets", "split", "compare"} =>
                /\ place \in {"rows", "targets", "split", "compare"}
                /\ schema' = schema
  <2>1. place' = "schema" => SchemaIsIn(digests.schema)'
    BY <1>a, <1>b, <1>3 DEF SchemaRecorded, SchemaIsIn
  <2>2. ASSUME place' \in {"rows", "targets", "split", "compare"}
        PROVE  \E j, k \in 1 .. Len(schemaFile') :
                 /\ j <= k
                 /\ digests'.schema = schemaFile'[j]
                 /\ schema' = Loaded(schemaFile'[k], Project)
    <3>1. PICK j \in 1 .. Len(schemaFile), k \in 1 .. Len(schemaFile) :
            /\ j <= k
            /\ digests.schema = schemaFile[j] /\ schema = Loaded(schemaFile[k], Project)
      BY <1>a, <1>3, <2>2 DEF SchemaRecorded
    <3>2. /\ j \in 1 .. Len(schemaFile') /\ schemaFile'[j] = schemaFile[j]
          /\ k \in 1 .. Len(schemaFile') /\ schemaFile'[k] = schemaFile[k]
      BY <1>b
    <3>3. digests' = digests /\ schema' = schema
      BY <1>3, <2>2
    <3> QED
      BY <3>1, <3>2, <3>3
  <2>3. Project' = Project
    BY <1>b DEF Project
  <2> QED
    BY <2>1, <2>2, <2>3 DEF SchemaRecorded
<1>4. CASE ReadHeader \/ ReadRow \/ EndRows \/ BeginSplit
  BY <1>3, <1>4 DEF ReadHeader, ReadRow, EndRows, BeginSplit, loading
<1>5. CASE Begin \/ DigestLine \/ Split \/ CompareFiles \/ Fit \/ Install
  BY <1>3, <1>5 DEF Begin, DigestLine, Split, CompareFiles, Fit, Install, loading
<1>6. CASE EditCsv \/ EditSchema \/ Stop \/ UNCHANGED importVars
  BY <1>3, <1>6 DEF EditCsv, EditSchema, Stop, importVars, loading
<1> QED
  BY <1>1, <1>2, <1>4, <1>5, <1>6 DEF ImportNext, Import

LEMMA RowsStayAssigned ==
  ASSUME ImportInv, RecordedInv, [ImportNext]_importVars
  PROVE  RowsAssigned'
<1>a. RowsAssigned /\ TableSound
  BY DEF RecordedInv, ImportInv
<1>b. Tuple(table, Len(table)) /\ (place = "targets" => Len(table) # 0)
  BY <1>a DEF TableSound
<1>1. CASE Split
  <2>1. place = "split" /\ table' = table
    BY <1>1 DEF Split, loading
  <2>2. CASE phase' = "split"
    <3>1. PICK order \in Orders : assignment' = Assigned(order)
      BY <1>1, <2>2, Zenon DEF Split
    <3>2. DOMAIN table = 1 .. Len(table)
      BY <1>b, TupleIs
    <3>3. Tuple(assignment', Len(table))
      BY <1>b, <3>1, <3>2 DEF Assigned, Tuple
    <3> QED
      BY <1>a, <2>1, <3>3 DEF RowsAssigned
  <2>3. CASE phase' # "split"
    <3>1. place' \in {"split", "refused"}
      BY <1>1, <2>1, <2>3 DEF Split
    <3> QED
      BY <1>a, <2>1, <3>1 DEF RowsAssigned
  <2> QED
    BY <2>2, <2>3
<1>2. CASE Fit
  <2>1. place = "fit" /\ place' \in {"install", "refused"} /\ assignment' = assignment
    BY <1>2, Zenon DEF Fit
  <2>2. place' = "install" => Len(table') = Len(table)
    <3> SUFFICES ASSUME place' = "install" PROVE Len(table') = Len(table)
      OBVIOUS
    <3>1. PICK m : table' = [i \in DOMAIN table |->
                               [table[i] EXCEPT !.inputs = Transform!Apply(m, @)]]
      BY <1>2, Zenon DEF Fit
    <3>2. DOMAIN table = 1 .. Len(table)
      BY <1>b, TupleIs
    <3>3. Tuple(table', Len(table))
      BY <1>b, <3>1, <3>2 DEF Tuple
    <3> QED
      BY <3>3, TupleIs
  <2> QED
    BY <1>a, <2>1, <2>2 DEF RowsAssigned
<1>3. CASE /\ table' = table
           /\ place' \in {"split", "compare", "fit", "install", "done"} =>
                place \in {"targets", "split", "compare", "fit", "install", "done"}
           /\ place' \in {"compare", "fit", "install", "done"} =>
                /\ place \in {"compare", "fit", "install", "done"}
                /\ assignment' = assignment
  BY <1>a, <1>b, <1>3 DEF RowsAssigned
<1>4. CASE ReadRow
  BY <1>4 DEF ReadRow, RowsAssigned
<1>5. CASE ReadSchema \/ ReadHeader \/ EndRows \/ BeginSplit
  BY <1>3, <1>5 DEF ReadSchema, ReadHeader, EndRows, BeginSplit, loading
<1>6. CASE Begin \/ DigestLine \/ DigestFiles \/ CompareFiles \/ Install
  BY <1>3, <1>6
  DEF Begin, DigestLine, DigestFiles, CompareFiles, Install, loading, results
<1>7. CASE EditCsv \/ EditSchema \/ Stop \/ UNCHANGED importVars
  BY <1>3, <1>7 DEF EditCsv, EditSchema, Stop, importVars, loading, results
<1> QED
  BY <1>1, <1>2, <1>4, <1>5, <1>6, <1>7 DEF ImportNext, Import

(* What a step of Fit that succeeds does.                                   *)
LEMMA FitDoes ==
  ASSUME Fit, place' = "install"
  PROVE  /\ \E n \in Transform!Normalizations, p \in Transform!MissingPolicies :
              metadata' = FittedMetadata(n, p)
         /\ Fits(metadata')
         /\ table' = [i \in DOMAIN table |->
                        [table[i] EXCEPT !.inputs = Transform!Apply(metadata', @)]]
         /\ UNCHANGED <<splitVars, files, digests, schema, assignment, stored>>
<1>1. PICK fitted \in Fitted :
        /\ Fits(fitted) /\ metadata' = fitted
        /\ table' = [i \in DOMAIN table |->
                       [table[i] EXCEPT !.inputs = Transform!Apply(fitted, @)]]
  BY Zenon DEF Fit
<1>2. \E n \in Transform!Normalizations, p \in Transform!MissingPolicies :
        fitted = FittedMetadata(n, p)
  BY DEF Fitted, Transform!Normalizations, Transform!MissingPolicies
<1>3. UNCHANGED <<splitVars, files, digests, schema, assignment, stored>>
  BY Zenon DEF Fit
<1> QED
  BY <1>1, <1>2, <1>3, Zenon

LEMMA MetadataStaysSound ==
  ASSUME ImportInv, RecordedInv, [ImportNext]_importVars
  PROVE  MetadataSound'
<1>a. MetadataSound /\ RowsAssigned /\ FilesDistinct /\ TableSound
  BY DEF RecordedInv, ImportInv
<1>b. given' = given
  BY <1>a, FilesGrow
<1>1. CASE Fit /\ place' = "install"
  <2>1. PICK n \in Transform!Normalizations, p \in Transform!MissingPolicies :
          metadata' = FittedMetadata(n, p)
    BY <1>1, FitDoes
  <2>2. Transform!MetadataValid(metadata')
    <3>1. Fits(metadata')
      BY <1>1, FitDoes
    <3> QED
      BY <3>1 DEF Fits
  <2>3. metadata'.version = 2 /\ metadata'.stratified = Schema!Categorical(schema)
        /\ metadata'.features = Transform!FitAll(Inputs, RowsOf("training"), n)
    BY <2>1, Zenon DEF FittedMetadata
  <2>4. place = "fit" /\ Len(table) # 0 /\ Tuple(table, Len(table))
        /\ \A i \in 1 .. Len(table) : RowTyped(table[i])
    BY <1>1, <1>a, Zenon DEF Fit, RowsAssigned, TableSound
  <2>5. 1 \in 1 .. Len(table) /\ DOMAIN table = 1 .. Len(table)
    <3>1. Len(table) \in Nat
      BY <2>4 DEF Tuple
    <3> QED
      BY <2>4, <3>1, TupleIs
  <2>6. Inputs[1] = table[1].inputs /\ Tuple(table[1].inputs, Project.inputs)
    BY <2>4, <2>5 DEF Inputs, RowTyped
  <2>7. DOMAIN Inputs[1] = 1 .. Project.inputs /\ Project.inputs \in Nat
    BY <2>6, TupleIs DEF Tuple
  <2>8. Tuple(metadata'.features, Project.inputs)
    BY <2>3, <2>7 DEF Transform!FitAll, Tuple
  <2>9. metadata'.stratified \in BOOLEAN
    BY <2>3 DEF Schema!Categorical
  <2> QED
    BY <1>b, <2>2, <2>3, <2>8, <2>9 DEF MetadataSound, Project
<1>2. CASE /\ metadata' = metadata
           /\ place' \in {"install", "done"} => place \in {"install", "done"}
  BY <1>a, <1>b, <1>2 DEF MetadataSound, Project
<1>3. CASE Fit /\ place' # "install"
  <2>1. place' = "refused"
    BY <1>3, Zenon DEF Fit
  <2> QED
    BY <2>1 DEF MetadataSound
<1>4. CASE Begin \/ DigestLine \/ DigestFiles \/ ReadSchema \/ ReadHeader \/ ReadRow
           \/ EndRows \/ BeginSplit
  BY <1>2, <1>4
  DEF Begin, DigestLine, DigestFiles, ReadSchema, ReadHeader, ReadRow, EndRows,
      BeginSplit, results, MetadataSound
<1>5. CASE Split \/ CompareFiles \/ Install
  BY <1>2, <1>5 DEF Split, CompareFiles, Install, results, MetadataSound
<1>6. CASE EditCsv \/ EditSchema \/ Stop \/ UNCHANGED importVars
  BY <1>2, <1>6 DEF EditCsv, EditSchema, Stop, importVars, results
<1> QED
  BY <1>1, <1>3, <1>4, <1>5, <1>6 DEF ImportNext, Import

LEMMA StoredStays ==
  ASSUME ImportInv, RecordedInv, [ImportNext]_importVars
  PROVE  StoredIs'
<1>a. StoredIs /\ TableSound
  BY DEF RecordedInv, ImportInv
<1>1. CASE Install
  <2>1. /\ stored' = [datasets |-> [part \in Parts |-> Dataset(part)],
                      metadata |-> Transform!WriteMetadata(metadata)]
        /\ UNCHANGED <<table, assignment, metadata>>
    BY <1>1, Zenon DEF Install, loading
  <2>2. \A part : Dataset(part)' = Dataset(part)
    BY <2>1 DEF Dataset, RowsOf
  <2> QED
    BY <2>1, <2>2, Zenon DEF StoredIs
<1>2. CASE place' # "done"
  BY <1>2 DEF StoredIs
<1>3. CASE place = "done" /\ UNCHANGED <<place, stored, table, assignment, metadata>>
  <2>1. \A part : Dataset(part)' = Dataset(part)
    BY <1>3 DEF Dataset, RowsOf
  <2> QED
    BY <1>a, <1>3, <2>1, Zenon DEF StoredIs
<1>4. CASE Begin \/ DigestLine \/ DigestFiles \/ ReadSchema \/ ReadHeader \/ ReadRow
  BY <1>2, <1>4
  DEF Begin, DigestLine, DigestFiles, ReadSchema, ReadHeader, ReadRow
<1>5. CASE EndRows \/ BeginSplit \/ CompareFiles
  BY <1>2, <1>5 DEF EndRows, BeginSplit, CompareFiles
<1>6. CASE Fit
  BY <1>2, <1>6, Zenon DEF Fit
<1>7. CASE Split
  BY <1>2, <1>7, Zenon DEF Split
<1>8. CASE EditCsv \/ EditSchema
  <2>1. place' # "done"
    BY <1>8 DEF EditCsv, EditSchema, ImportEnded
  <2> QED
    BY <1>2, <2>1
<1>9. CASE Stop \/ UNCHANGED importVars
  BY <1>2, <1>3, <1>9 DEF Stop, importVars, results, loading
<1> QED
  BY <1>1, <1>4, <1>5, <1>6, <1>7, <1>8, <1>9 DEF ImportNext, Import

-----------------------------------------------------------------------------
(* A pass over a file that is not edited reads the whole of it.             *)

LEMMA ReadsOn ==
  ASSUME ImportInv, More, Begins(read, Csv)
  PROVE  Begins(Append(read, NextCsvLine), Csv)
<1>1. /\ NextCsvLine \in Seq(STRING) /\ read \in Seq(Seq(STRING))
      /\ Len(read) \in Nat /\ Len(Csv) \in Nat /\ Len(read) + 1 <= Len(Csv)
  BY NextLineKnown DEF ImportInv, ReadSound
<1> DEFINE t == Append(read, NextCsvLine)
<1>2. /\ Len(t) = Len(read) + 1 /\ t[Len(read) + 1] = NextCsvLine
      /\ \A i \in 1 .. Len(read) : t[i] = read[i]
  BY <1>1, LongerList
<1> HIDE DEF t
<1>3. \A i \in 1 .. Len(t) : t[i] = Csv[i]
  <2> SUFFICES ASSUME NEW i \in 1 .. Len(t) PROVE t[i] = Csv[i]
    OBVIOUS
  <2>1. CASE i \in 1 .. Len(read)
    BY <1>2, <2>1 DEF Begins
  <2>2. CASE i = Len(read) + 1
    BY <1>2, <2>2 DEF NextCsvLine
  <2> QED
    BY <1>1, <1>2, <2>1, <2>2
<1> QED
  BY <1>1, <1>2, <1>3 DEF Begins, t

LEMMA ReadsAll ==
  ASSUME ImportInv, ~More, Begins(read, Csv)
  PROVE  read = Csv
<1>1. csvFile \in Seq(Csvs) /\ csvFile # <<>> /\ read \in Seq(Seq(STRING))
  BY DEF ImportInv, FilesSound, ReadSound
<1>2. csvFile[Len(csvFile)] \in Csvs
  <2> HIDE DEF Csvs
  <2> QED
    BY <1>1
<1>3. Csv \in Seq(Seq(STRING))
  BY <1>2 DEF Csv, Last, Csvs
<1>4. Len(read) = Len(Csv)
  BY <1>1, <1>3 DEF More, Begins
<1>5. Tuple(read, Len(read)) /\ Tuple(Csv, Len(read))
  BY <1>1, <1>3, <1>4, SeqIsTuple
<1> QED
  BY <1>4, <1>5 DEF Begins, Tuple

(* The present content of the file.                                         *)
LEMMA PresentIs ==
  ASSUME ImportInv
  PROVE  /\ Len(csvFile) \in Nat \ {0}
         /\ Csv = csvFile[Len(csvFile)]
         /\ \A i \in 1 .. Len(csvFile) :
              csvFile[i] \in Seq(Seq(STRING)) /\ Begins(<<>>, csvFile[i])
<1>1. csvFile \in Seq(Csvs) /\ csvFile # <<>>
  BY DEF ImportInv, FilesSound
<1>2. /\ Len(csvFile) \in Nat \ {0}
      /\ \A i \in 1 .. Len(csvFile) : csvFile[i] \in Csvs
  <2> HIDE DEF Csvs
  <2> QED
    BY <1>1
<1>3. \A i \in 1 .. Len(csvFile) : csvFile[i] \in Seq(Seq(STRING))
  BY <1>2 DEF Csvs
<1>4. ASSUME NEW s \in Seq(Seq(STRING)) PROVE Begins(<<>>, s)
  BY DEF Begins
<1> QED
  BY <1>2, <1>3, <1>4 DEF Csv, Last

LEMMA NoLinesNoRows ==
  ASSUME NEW csv, NEW s, Len(csv) \in Nat, Len(csv) <= Skipped(s)
  PROVE  RowsIn(csv, s) = <<>>
<1>1. 1 .. Len(csv) - Skipped(s) = {}
  BY DEF Skipped
<1> QED
  BY <1>1 DEF RowsIn

LEMMA AppendedIs ==
  ASSUME NEW s, NEW n, Tuple(s, n), NEW t, Tuple(t, n + 1), NEW e,
         \A i \in 1 .. n : t[i] = s[i], t[n + 1] = e
  PROVE  Append(s, e) = t
<1> DEFINE E == {t[i] : i \in 1 .. n + 1}
<1>1. n \in Nat /\ Len(s) = n /\ Len(t) = n + 1
  BY TupleIs DEF Tuple
<1>2. t \in Seq(E)
  BY TupleIs
<1>3. \A i \in 1 .. n : s[i] \in E
  BY <1>1
<1>4. e \in E
  BY <1>1
<1> HIDE DEF E
<1>5. s \in [1 .. n -> E]
  BY <1>3 DEF Tuple
<1>6. s \in Seq(E)
  BY <1>1, <1>5, SeqDef, Zenon
<1> QED
  BY <1>1, <1>2, <1>4, <1>6

LEMMA LineGivesRow ==
  ASSUME NEW csv \in Seq(Seq(STRING)), NEW line \in Seq(STRING), NEW s,
         Skipped(s) <= Len(csv)
  PROVE  RowsIn(Append(csv, line), s) =
           Append(RowsIn(csv, s), RowOf(s, Line!ParseCsvLine(line)))
<1> DEFINE t == Append(csv, line)
           h == Skipped(s)
           n == Len(csv) - h
           row(l) == RowOf(s, Line!ParseCsvLine(l))
           before == [k \in 1 .. n |-> row(csv[k + h])]
           after == [k \in 1 .. n + 1 |-> row(t[k + h])]
<1>1. /\ Len(t) = Len(csv) + 1 /\ t[Len(csv) + 1] = line /\ Len(csv) \in Nat
      /\ \A i \in 1 .. Len(csv) : t[i] = csv[i]
  BY LongerList
<1>2. h \in {0, 1} /\ n \in Nat /\ n + h = Len(csv) /\ Len(t) - h = n + 1
  BY <1>1 DEF Skipped
<1>3. RowsIn(csv, s) = before /\ RowsIn(t, s) = after
  BY <1>2 DEF RowsIn
<1> HIDE DEF row, t, h, n
<1>4. Tuple(before, n) /\ Tuple(after, n + 1)
  BY <1>2 DEF Tuple
<1>5. ASSUME NEW i \in 1 .. n PROVE after[i] = before[i]
  <2>1. i + h \in 1 .. Len(csv)
    BY <1>2
  <2> QED
    BY <1>1, <1>2, <2>1
<1>6. after[n + 1] = row(line)
  <2>1. n + 1 + h = Len(csv) + 1 /\ n + 1 \in 1 .. n + 1
    BY ONLY <1>1, <1>2
  <2> QED
    BY <1>1, <2>1
<1>7. Append(before, row(line)) = after
  <2> HIDE DEF before, after
  <2> QED
    BY <1>4, <1>5, <1>6, AppendedIs
<1> QED
  BY <1>3, <1>7 DEF row, t

-----------------------------------------------------------------------------
(* What is known while the CSV file is edited at most once.                 *)

LEMMA OneEdit ==
  ASSUME ImportInv, FilesDistinct, [ImportNext]_importVars, Len(csvFile') <= 2
  PROVE  /\ Len(csvFile) \in {1, 2} /\ Len(csvFile) <= 2
         /\ csvFile'[1] = csvFile[1]
         /\ EditCsv => Len(csvFile) = 1 /\ Len(csvFile') = 2
<1> DEFINE n == Len(csvFile)
<1>1. n \in Nat \ {0}
  BY FilesGrow
<1>2. EditCsv => Len(csvFile') = n + 1
  <2> SUFFICES ASSUME EditCsv PROVE Len(csvFile') = n + 1
    OBVIOUS
  <2>1. PICK content : csvFile' = Append(csvFile, content) /\ content \in Csvs
                       /\ csvFile \in Seq(Csvs)
    BY DEF EditCsv, ImportInv, FilesSound
  <2> HIDE DEF Csvs
  <2> QED
    BY <2>1, LongerList
<1>3. csvFile' = csvFile \/ EditCsv
  BY FilesGrow DEF files
<1>4. Len(csvFile') = n \/ Len(csvFile') = n + 1
  BY <1>2, <1>3
<1>5. n \in {1, 2} /\ n <= 2
  <2> HIDE DEF n
  <2> QED
    BY <1>1, <1>4
<1>6. csvFile'[1] = csvFile[1]
  <2>1. 1 \in 1 .. n
    <3> HIDE DEF n
    <3> QED
      BY <1>1
  <2> QED
    BY <2>1, FilesGrow
<1>7. EditCsv => n = 1 /\ Len(csvFile') = 2
  <2> SUFFICES ASSUME EditCsv PROVE n = 1 /\ Len(csvFile') = 2
    OBVIOUS
  <2>1. Len(csvFile') = n + 1
    BY <1>2
  <2> HIDE DEF n
  <2> QED
    BY <1>1, <2>1
<1> QED
  BY <1>5, <1>6, <1>7

LEMMA PassStaysSound ==
  ASSUME ImportInv, RecordedInv, [ImportNext]_importVars, Len(csvFile') <= 2
  PROVE  PassSound'
<1>a. FilesDistinct
  BY DEF RecordedInv
<1>b. /\ Len(csvFile) \in {1, 2} /\ csvFile'[1] = csvFile[1]
      /\ EditCsv => Len(csvFile) = 1 /\ Len(csvFile') = 2
  BY <1>a, OneEdit
<1>c. PassSound /\ TableSound
  BY <1>a, OneEdit DEF RecordedInv, ImportInv
<1>d. /\ Csv = csvFile[Len(csvFile)]
      /\ \A i \in 1 .. Len(csvFile) : Begins(<<>>, csvFile[i])
  BY PresentIs
<1>1. CASE EditCsv
  <2>1. UNCHANGED <<place, read, table, schema, digests>>
    BY <1>1 DEF EditCsv, loading
  <2> QED
    BY <1>1, <1>b, <1>c, <2>1 DEF PassSound
<1>2. CASE DigestLine
  <2>1. /\ place \in {"digest", "compare"} /\ More
        /\ read' = Append(read, NextCsvLine)
        /\ UNCHANGED <<place, csvFile>>
    BY <1>2 DEF DigestLine, files
  <2>2. ASSUME place = "digest", Len(csvFile) = 1
        PROVE  Begins(read', csvFile[1])
    BY <1>c, <1>d, <2>1, <2>2, ReadsOn DEF PassSound
  <2> QED
    BY <2>1, <2>2 DEF PassSound
<1>3. CASE DigestFiles
  <2>1. /\ place = "digest" /\ place' = "schema" /\ ~More /\ digests'.csv = read
        /\ read' = <<>> /\ csvFile' = csvFile
    BY <1>3 DEF DigestFiles, files
  <2>2. ASSUME Len(csvFile) = 1 PROVE read = csvFile[1]
    BY <1>c, <1>d, <2>1, <2>2, ReadsAll DEF PassSound
  <2> QED
    BY <1>b, <1>d, <2>1, <2>2 DEF PassSound
<1>4. CASE ReadSchema
  <2>1. /\ place = "schema" /\ place' \in {"refused", "rows"}
        /\ UNCHANGED <<csvFile, read, digests, table>>
    BY <1>4 DEF ReadSchema, files
  <2>2. read = <<>> /\ table = <<>>
    BY <1>c, <2>1 DEF PassSound, TableSound
  <2>3. \A s : Len(<<>>) <= Skipped(s) /\ Len(<<>>) \in Nat
    BY DEF Skipped
  <2>4. table' = RowsIn(read', schema')
    BY <2>1, <2>2, <2>3, NoLinesNoRows
  <2> QED
    BY <1>c, <2>1, <2>4 DEF PassSound
<1>5. CASE (ReadHeader \/ ReadRow) /\ place' = "rows"
  <2>1. /\ place = "rows" /\ More /\ read' = Append(read, NextCsvLine)
        /\ UNCHANGED <<csvFile, digests, schema>>
    BY <1>5 DEF ReadHeader, ReadRow, files
  <2>2. Len(csvFile) = 1 => digests.csv = csvFile[1] /\ Begins(read', csvFile[1])
    BY <1>c, <1>d, <2>1, ReadsOn DEF PassSound
  <2>3. Len(csvFile) = 2 => digests.csv = csvFile[1] \/ Begins(read', csvFile[2])
    BY <1>c, <1>d, <2>1, ReadsOn DEF PassSound
  <2>4. table = RowsIn(read, schema)
    BY <1>c, <2>1 DEF PassSound
  <2>5. /\ NextCsvLine \in Seq(STRING) /\ read \in Seq(Seq(STRING))
        /\ Len(read) \in Nat /\ Len(read') = Len(read) + 1
    BY <2>1, NextLineKnown DEF ImportInv, ReadSound
  <2>6. table' = RowsIn(read', schema')
    <3>1. CASE ReadHeader
      <4>1. Len(read) + 1 = 1 /\ Skipped(schema) = 1 /\ table' = table
        BY <3>1 DEF ReadHeader, IsHeader, Skipped
      <4>2. Len(read) = 0 /\ Len(read') = 1
        BY <2>5, <4>1
      <4>3. RowsIn(read, schema) = <<>>
        BY <4>1, <4>2, NoLinesNoRows
      <4>4. RowsIn(read', schema) = <<>>
        BY <4>1, <4>2, NoLinesNoRows
      <4> QED
        BY <2>1, <2>4, <4>1, <4>3, <4>4
    <3>2. CASE ReadRow
      <4>1. table' = Append(table, RowOf(schema, Line!ParseCsvLine(NextCsvLine)))
        BY <1>5, <3>2 DEF ReadRow
      <4>2. ~IsHeader(schema, Len(read) + 1)
        BY <3>2 DEF ReadRow
      <4>3. Skipped(schema) <= Len(read)
        BY <2>5, <4>2 DEF IsHeader, Skipped
      <4> QED
        BY <2>1, <2>4, <2>5, <4>1, <4>3, LineGivesRow
    <3> QED
      BY <1>5, <3>1, <3>2
  <2> QED
    BY <1>5, <2>1, <2>2, <2>3, <2>6 DEF PassSound
<1>6. CASE (ReadHeader \/ ReadRow) /\ place' # "rows"
  <2>1. place' = "refused"
    BY <1>6 DEF ReadHeader, ReadRow
  <2> QED
    BY <2>1 DEF PassSound
<1>7. CASE BeginSplit
  <2>1. place' \in {"split", "refused"} /\ read' = <<>>
    BY <1>7 DEF BeginSplit
  <2> QED
    BY <2>1 DEF PassSound
<1>8. CASE /\ UNCHANGED <<csvFile, read, table, schema, digests>>
           /\ \/ place' = place
              \/ place = "begin" /\ place' = "digest"
              \/ place' \notin {"begin", "digest", "schema", "rows", "split"}
  BY <1>c, <1>8 DEF PassSound
<1>9. CASE Split
  <2>1. /\ UNCHANGED <<csvFile, read, table, schema, digests>>
        /\ place' \in {place, "compare", "refused"}
    BY <1>9, Zenon DEF Split, files, loading
  <2> QED
    BY <1>8, <2>1
<1>10. CASE Begin
  <2>1. /\ UNCHANGED <<csvFile, read, table, schema, digests>>
        /\ place = "begin" /\ place' \in {"digest", "refused"}
    BY <1>10 DEF Begin, files, loading
  <2> QED
    BY <1>8, <2>1
<1>11. CASE EndRows \/ CompareFiles \/ Install
  <2>1. /\ UNCHANGED <<csvFile, read, table, schema, digests>>
        /\ place' \in {"targets", "refused", "fit", "done"}
    BY <1>11, Zenon DEF EndRows, CompareFiles, Install, files, loading
  <2> QED
    BY <1>8, <2>1
<1>12. CASE Fit
  <2>1. place' \in {"install", "refused"}
    BY <1>12, Zenon DEF Fit
  <2> QED
    BY <2>1 DEF PassSound
<1>13. CASE EditSchema \/ Stop \/ UNCHANGED importVars
  <2>1. UNCHANGED <<csvFile, read, table, schema, digests, place>>
    BY <1>13 DEF EditSchema, Stop, importVars, files, loading
  <2> QED
    BY <1>8, <2>1
<1> QED
  BY <1>1, <1>2, <1>3, <1>4, <1>5, <1>6, <1>7, <1>9, <1>10, <1>11, <1>12, <1>13
  DEF ImportNext, Import

LEMMA RowsStaySound ==
  ASSUME ImportInv, RecordedInv, [ImportNext]_importVars, Len(csvFile') <= 2
  PROVE  RowsSound'
<1>a. FilesDistinct
  BY DEF RecordedInv
<1>b. /\ Len(csvFile) \in {1, 2} /\ csvFile'[1] = csvFile[1]
      /\ EditCsv => Len(csvFile) = 1
  BY <1>a, OneEdit
<1>c. PassSound /\ RowsSound
  BY <1>a, OneEdit DEF RecordedInv
<1>d. /\ Csv = csvFile[Len(csvFile)]
      /\ \A i \in 1 .. Len(csvFile) : Begins(<<>>, csvFile[i])
  BY PresentIs
<1>1. CASE EndRows
  <2>1. /\ place = "rows" /\ ~More /\ place' \in {"targets", "refused"}
        /\ UNCHANGED <<csvFile, read, digests, schema, table>>
    BY <1>1 DEF EndRows, files, loading
  <2>2. Len(csvFile) = 1 => digests.csv = csvFile[1] /\ read = csvFile[1]
    BY <1>c, <1>d, <2>1, ReadsAll DEF PassSound
  <2>3. Len(csvFile) = 2 => digests.csv = csvFile[1] \/ read = csvFile[2]
    BY <1>c, <1>d, <2>1, ReadsAll DEF PassSound
  <2>4. table = RowsIn(read, schema)
    BY <1>c, <2>1 DEF PassSound
  <2> QED
    BY <1>b, <2>1, <2>2, <2>3, <2>4 DEF RowsSound
<1>2. CASE BeginSplit
  <2>1. /\ place = "targets" /\ place' \in {"split", "refused"} /\ read' = <<>>
        /\ UNCHANGED <<csvFile, digests, schema, table>>
    BY <1>2 DEF BeginSplit, files
  <2> QED
    BY <1>b, <1>c, <1>d, <2>1 DEF RowsSound
<1>3. CASE DigestLine
  <2>1. /\ place \in {"digest", "compare"} /\ More
        /\ read' = Append(read, NextCsvLine)
        /\ UNCHANGED <<csvFile, place, digests, schema, table>>
    BY <1>3 DEF DigestLine, files
  <2>2. Len(csvFile) = 2 /\ Begins(read, csvFile[2]) => Begins(read', csvFile[2])
    BY <1>d, <2>1, ReadsOn
  <2> QED
    BY <1>c, <2>1, <2>2 DEF RowsSound
<1>4. CASE EditCsv
  <2>1. UNCHANGED <<place, read, digests, schema, table>>
    BY <1>4 DEF EditCsv, loading
  <2> QED
    BY <1>b, <1>c, <1>4, <2>1 DEF RowsSound
<1>5. CASE /\ UNCHANGED <<csvFile, read, digests, schema, table>>
           /\ place' \in {"targets", "split", "compare"} =>
                \/ place' = place
                \/ place = "split" /\ place' = "compare"
  BY <1>c, <1>5 DEF RowsSound
<1>6. CASE Split
  <2>1. /\ UNCHANGED <<csvFile, read, digests, schema, table>>
        /\ place = "split" /\ place' \in {place, "compare", "refused"}
    BY <1>6, Zenon DEF Split, files, loading
  <2> QED
    BY <1>5, <2>1
<1>7. CASE CompareFiles \/ Fit
  <2>1. place' \in {"fit", "install", "refused"}
    BY <1>7, Zenon DEF CompareFiles, Fit
  <2> QED
    BY <2>1 DEF RowsSound
<1>8. CASE Begin \/ DigestFiles \/ ReadSchema \/ ReadHeader \/ ReadRow \/ Install
  <2>1. place' \notin {"targets", "split", "compare"}
    BY <1>8 DEF Begin, DigestFiles, ReadSchema, ReadHeader, ReadRow, Install
  <2> QED
    BY <2>1 DEF RowsSound
<1>9. CASE EditSchema \/ Stop \/ UNCHANGED importVars
  <2>1. UNCHANGED <<csvFile, read, table, schema, digests, place>>
    BY <1>9 DEF EditSchema, Stop, importVars, files, loading
  <2> QED
    BY <1>5, <2>1
<1> QED
  BY <1>1, <1>2, <1>3, <1>4, <1>6, <1>7, <1>8, <1>9 DEF ImportNext, Import

LEMMA RowsStayRecorded ==
  ASSUME ImportInv, RecordedInv, [ImportNext]_importVars, Len(csvFile') <= 2
  PROVE  RowsRecorded'
<1>a. FilesDistinct /\ SchemaRecorded
  BY DEF RecordedInv
<1>b. /\ RowsSound /\ RowsRecorded
      /\ Len(csvFile) \in {1, 2}
  BY <1>a, OneEdit DEF RecordedInv
<1>c. /\ Csv = csvFile[Len(csvFile)]
      /\ Len(csvFile) \in Nat \ {0}
  BY PresentIs
<1>d. /\ given' = given /\ Len(schemaFile) \in Nat \ {0}
      /\ \A i \in 1 .. Len(csvFile) :
           i \in 1 .. Len(csvFile') /\ csvFile'[i] = csvFile[i]
      /\ \A i \in 1 .. Len(schemaFile) :
           i \in 1 .. Len(schemaFile') /\ schemaFile'[i] = schemaFile[i]
  BY <1>a, FilesGrow
<1>1. CASE CompareFiles /\ place' = "fit"
  <2>1. /\ place = "compare" /\ ~More /\ again' = digests
        /\ again' = [csv |-> read, schema |-> Last(schemaFile)]
        /\ UNCHANGED <<given, csvFile, schemaFile, digests, schema, table>>
    BY <1>1 DEF CompareFiles, files
  <2>2. digests.csv = read /\ digests.schema = schemaFile[Len(schemaFile)]
    BY <2>1 DEF Last
  <2>3. schema = Loaded(digests.schema, Project)
    <3>1. PICK j \in 1 .. Len(schemaFile), k \in 1 .. Len(schemaFile) :
            /\ j <= k
            /\ digests.schema = schemaFile[j] /\ schema = Loaded(schemaFile[k], Project)
      BY <1>a, <2>1 DEF SchemaRecorded
    <3>2. Len(schemaFile) \in 1 .. Len(schemaFile)
      BY <1>d
    <3>3. j = Len(schemaFile)
      BY <1>a, <2>2, <3>1, <3>2 DEF FilesDistinct, Distinct
    <3>4. k = j
      BY <1>d, <3>1, <3>3
    <3> QED
      BY <3>1, <3>4
  <2>4. CsvIsIn(digests.csv) /\ table = RowsIn(digests.csv, schema)
    <3>1. CASE digests.csv = csvFile[1] /\ table = RowsIn(csvFile[1], schema)
      <4>1. 1 \in 1 .. Len(csvFile)
        BY <1>c
      <4> QED
        BY <3>1, <4>1 DEF CsvIsIn
    <3>2. CASE /\ Len(csvFile) = 2
               /\ digests.csv = csvFile[1] \/ table = RowsIn(csvFile[2], schema)
               /\ Begins(read, csvFile[2])
      <4>1. read = csvFile[2]
        BY <1>c, <2>1, <3>2, ReadsAll
      <4>2. 1 \in 1 .. Len(csvFile) /\ 2 \in 1 .. Len(csvFile)
        BY <3>2
      <4>3. csvFile[1] # csvFile[2]
        BY <1>a, <4>2 DEF FilesDistinct, Distinct
      <4> QED
        BY <2>2, <3>2, <4>1, <4>2, <4>3 DEF CsvIsIn
    <3> QED
      BY <1>b, <2>1, <3>1, <3>2 DEF RowsSound
  <2>5. SchemaIsIn(digests.schema)
    <3>1. Len(schemaFile) \in 1 .. Len(schemaFile)
      BY <1>d
    <3> QED
      BY <2>2, <3>1 DEF SchemaIsIn
  <2> QED
    BY <2>1, <2>3, <2>4, <2>5 DEF RowsRecorded, CsvIsIn, SchemaIsIn, Project
<1>2. CASE place = "fit" /\ UNCHANGED <<digests, table>>
  <2>1. Project' = Project
    BY <1>d DEF Project
  <2> QED
    BY <1>b, <1>d, <1>2, <2>1 DEF RowsRecorded, CsvIsIn, SchemaIsIn
<1>3. CASE place' # "fit"
  BY <1>3 DEF RowsRecorded
<1>4. CASE Begin \/ DigestFiles \/ ReadSchema \/ ReadHeader \/ ReadRow \/ EndRows
  BY <1>3, <1>4 DEF Begin, DigestFiles, ReadSchema, ReadHeader, ReadRow, EndRows
<1>5. CASE BeginSplit \/ Split \/ Fit \/ Install
  <2>1. place' \in {"split", "refused", "compare", "install", "done"}
    BY <1>5, Zenon DEF BeginSplit, Split, Fit, Install
  <2> QED
    BY <1>3, <2>1
<1>6. CASE CompareFiles
  BY <1>1, <1>3, <1>6
<1>7. CASE DigestLine
  <2>1. place' # "fit"
    BY <1>7 DEF DigestLine
  <2> QED
    BY <1>3, <2>1
<1>8. CASE EditCsv \/ EditSchema \/ Stop \/ UNCHANGED importVars
  <2>1. place' = place /\ UNCHANGED <<digests, table>>
    BY <1>8 DEF EditCsv, EditSchema, Stop, importVars, loading
  <2> QED
    BY <1>2, <1>3, <2>1
<1> QED
  BY <1>4, <1>5, <1>6, <1>7, <1>8 DEF ImportNext, Import

LEMMA MetadataStaysRecorded ==
  ASSUME ImportInv, RecordedInv, [ImportNext]_importVars, Len(csvFile') <= 2
  PROVE  MetadataRecorded'
<1>a. FilesDistinct /\ RowsAssigned /\ TableSound
  BY DEF RecordedInv, ImportInv
<1>b. RowsRecorded /\ MetadataRecorded
  BY <1>a, OneEdit DEF RecordedInv
<1>c. /\ given' = given
      /\ \A i \in 1 .. Len(csvFile) :
           i \in 1 .. Len(csvFile') /\ csvFile'[i] = csvFile[i]
      /\ \A i \in 1 .. Len(schemaFile) :
           i \in 1 .. Len(schemaFile') /\ schemaFile'[i] = schemaFile[i]
  BY <1>a, FilesGrow
<1>d. Project' = Project
  BY <1>c DEF Project
<1>1. CASE Fit /\ place' = "install"
  <2> DEFINE n == Len(table)
             m == metadata'
  <2>1. place = "fit"
    BY <1>1, Zenon DEF Fit
  <2>2. /\ n \in Nat \ {0} /\ Tuple(table, n) /\ DOMAIN table = 1 .. n
        /\ \A i \in 1 .. n : RowTyped(table[i])
    <3>1. n # 0 /\ Tuple(table, n) /\ \A i \in 1 .. n : RowTyped(table[i])
      BY <1>a, <2>1 DEF RowsAssigned, TableSound
    <3> QED
      BY <3>1, TupleIs DEF Tuple
  <2>3. PICK norm \in Transform!Normalizations, policy \in Transform!MissingPolicies :
          m = FittedMetadata(norm, policy)
    BY <1>1, FitDoes
  <2>4. /\ m.source = digests.csv /\ m.schema = digests.schema
        /\ m.normalization = norm
        /\ m.features = Transform!FitAll(Inputs, RowsOf("training"), norm)
    BY <2>3, Zenon DEF FittedMetadata
  <2>5. /\ Fits(m) /\ UNCHANGED <<files, assignment>>
        /\ table' = [i \in DOMAIN table |->
                       [table[i] EXCEPT !.inputs = Transform!Apply(m, @)]]
    BY <1>1, FitDoes
  <2>6. /\ CsvIsIn(digests.csv) /\ SchemaIsIn(digests.schema)
        /\ table = RowsIn(digests.csv, Loaded(digests.schema, Project))
    BY <1>b, <2>1 DEF RowsRecorded
  <2>7. Recorded' = table
    BY <1>d, <2>4, <2>6 DEF Recorded
  <2>8. Tuple(table', n) /\ Len(table') = n
    <3>1. Tuple(table', n)
      BY <2>2, <2>5 DEF Tuple
    <3> QED
      BY <3>1, TupleIs
  <2>9. \A i \in 1 .. n : Transform!CanApply(m, table[i].inputs)
    BY <2>2, <2>5 DEF Fits, Inputs
  <2>10. CsvIsIn(metadata.source)' /\ SchemaIsIn(metadata.schema)'
    BY <2>4, <2>5, <2>6 DEF CsvIsIn, SchemaIsIn, files
  <2>11. table' = [i \in 1 .. n |-> [table[i] EXCEPT !.inputs = Transform!Apply(m, @)]]
    BY <2>2, <2>5
  <2>12. m.features = Transform!FitAll([i \in 1 .. n |-> table[i].inputs],
                                       RowsOf("training")', m.normalization)
    <3>1. Inputs = [i \in 1 .. n |-> table[i].inputs]
      BY <2>2 DEF Inputs
    <3>2. DOMAIN table' = DOMAIN table
      BY <2>2, <2>8, TupleIs
    <3>3. RowsOf("training")' = RowsOf("training")
      BY <2>5, <3>2 DEF RowsOf
    <3> QED
      BY <2>4, <3>1, <3>3
  <2>13. \A i \in 1 .. n : RowTyped(table[i])
    BY <2>2
  <2>14. \A i : RowTyped(Recorded[i])' = RowTyped(table[i])
    BY <1>d, <2>7 DEF RowTyped
  <2> HIDE DEF n
  <2>15. /\ Tuple(Recorded, Len(table))' /\ Len(table') = n
         /\ table' = [i \in 1 .. n |-> WithInputs(Recorded[i])']
    BY <2>2, <2>7, <2>8, <2>11 DEF WithInputs
  <2> QED
    BY <2>7, <2>9, <2>10, <2>12, <2>13, <2>14, <2>15 DEF MetadataRecorded
<1>2. CASE /\ place \in {"install", "done"}
           /\ UNCHANGED <<table, metadata, assignment>>
  <2>1. Recorded' = Recorded
    BY <1>d, <1>2 DEF Recorded
  <2>2. \A i : RowTyped(Recorded[i])' = RowTyped(Recorded[i])
    BY <1>d, <2>1 DEF RowTyped
  <2>3. RowsOf("training")' = RowsOf("training")
    BY <1>2 DEF RowsOf
  <2>4. CsvIsIn(metadata.source)' /\ SchemaIsIn(metadata.schema)'
    BY <1>b, <1>c, <1>2 DEF MetadataRecorded, CsvIsIn, SchemaIsIn
  <2> QED
    BY <1>b, <1>2, <2>1, <2>2, <2>3, <2>4 DEF MetadataRecorded, WithInputs
<1>3. CASE place' \notin {"install", "done"}
  BY <1>3 DEF MetadataRecorded
<1>4. CASE Begin \/ DigestFiles \/ ReadSchema \/ ReadHeader \/ ReadRow \/ EndRows
  BY <1>3, <1>4 DEF Begin, DigestFiles, ReadSchema, ReadHeader, ReadRow, EndRows
<1>5. CASE BeginSplit \/ Split \/ CompareFiles \/ DigestLine
  <2>1. place' \in {"digest", "split", "refused", "compare", "fit"}
    BY <1>5, Zenon DEF BeginSplit, Split, CompareFiles, DigestLine
  <2> QED
    BY <1>3, <2>1
<1>6. CASE Fit
  <2>1. place' \in {"install", "refused"}
    BY <1>6, Zenon DEF Fit
  <2> QED
    BY <1>1, <1>3, <1>6, <2>1
<1>7. CASE Install
  <2>1. place = "install" /\ UNCHANGED <<table, metadata, assignment>>
    BY <1>7, Zenon DEF Install, loading
  <2> QED
    BY <1>2, <2>1
<1>8. CASE EditCsv \/ EditSchema \/ Stop \/ UNCHANGED importVars
  <2>1. place' = place /\ UNCHANGED <<table, metadata, assignment>>
    BY <1>8 DEF EditCsv, EditSchema, Stop, importVars, loading, results
  <2> QED
    BY <1>2, <1>3, <2>1
<1> QED
  BY <1>4, <1>5, <1>6, <1>7, <1>8 DEF ImportNext, Import

LEMMA RecordingGoesOn ==
  ImportInv /\ RecordedInv /\ [ImportNext]_importVars => RecordedInv'
<1> SUFFICES ASSUME ImportInv, RecordedInv, [ImportNext]_importVars
             PROVE  RecordedInv'
  OBVIOUS
<1>1. FilesDistinct'
  BY FilesGrow DEF RecordedInv
<1>2. Len(csvFile') <= 2 =>
        PassSound' /\ RowsSound' /\ RowsRecorded' /\ MetadataRecorded'
  BY PassStaysSound, RowsStaySound, RowsStayRecorded, MetadataStaysRecorded
<1> QED
  BY <1>1, <1>2, SchemaStaysRecorded, RowsStayAssigned, MetadataStaysSound, StoredStays
  DEF RecordedInv

LEMMA RecordingHolds == ImportSpec => [](ImportInv /\ RecordedInv)
<1>1. ImportInit => ImportInv /\ RecordedInv
  BY ImportStarts, RecordedStarts
<1>2. ImportInv /\ RecordedInv /\ [ImportNext]_importVars =>
        ImportInv' /\ RecordedInv'
  BY ImportGoesOn, RecordingGoesOn
<1> QED
  BY <1>1, <1>2, PTL DEF ImportSpec

-----------------------------------------------------------------------------
(* What is selected.                                                        *)

(* "g" are the selections of the first i positions, for i up to n.          *)
SelectedUpTo(g, positions, n) ==
  /\ g = [i \in 0 .. n |-> g[i]]
  /\ g[0] = <<>>
  /\ \A i \in 1 .. n :
       g[i] = IF i \in positions THEN Append(g[i - 1], i) ELSE g[i - 1]

LEMMA SelectionsAre ==
  ASSUME NEW positions, NEW N \in Nat
  PROVE  SelectedUpTo(Selections(positions, N), positions, N)
<1> DEFINE Read(s, i) == IF i \in positions THEN Append(s, i) ELSE s
           Step(g) == [i \in 0 .. N |-> IF i = 0 THEN <<>> ELSE Read(g[i - 1], i)]
           S == {n \in Nat : \E g : SelectedUpTo(g, positions, n)}
<1>1. 0 \in S
  <2> DEFINE g == [i \in 0 .. 0 |-> <<>>]
  <2>1. SelectedUpTo(g, positions, 0)
    BY DEF SelectedUpTo
  <2> QED
    BY <2>1
<1>2. ASSUME NEW n \in 1 .. N, n - 1 \in S PROVE n \in S
  <2>1. PICK g : SelectedUpTo(g, positions, n - 1)
    BY <1>2
  <2>2. n \in Nat /\ n # 0
    BY <1>2
  <2>3. \A i \in 1 .. n - 1 : g[i] = Read(g[i - 1], i)
    BY <2>1 DEF SelectedUpTo
  <2> HIDE DEF Read
  <2> DEFINE h == [i \in 0 .. n |-> IF i = n THEN Read(g[n - 1], n) ELSE g[i]]
  <2>4. h[0] = <<>>
    BY <2>1, <2>2 DEF SelectedUpTo
  <2>5. ASSUME NEW i \in 1 .. n PROVE h[i] = Read(h[i - 1], i)
    <3>1. h[i - 1] = g[i - 1]
      BY <2>2
    <3>2. CASE i = n
      BY <2>2, <3>1, <3>2
    <3>3. CASE i # n
      <4>1. i \in 1 .. n - 1 /\ i \in 0 .. n
        BY <2>2, <3>3
      <4>2. g[i] = Read(g[i - 1], i)
        BY <2>3, <4>1
      <4>3. h[i] = g[i]
        BY <3>3, <4>1
      <4> QED
        BY <3>1, <4>2, <4>3
    <3> QED
      BY <3>2, <3>3
  <2>6. SelectedUpTo(h, positions, n)
    <3>1. h = [i \in 0 .. n |-> h[i]]
      OBVIOUS
    <3>2. \A i \in 1 .. n : h[i] = Read(h[i - 1], i)
      BY <2>5
    <3> HIDE DEF h
    <3> QED
      BY <2>4, <3>1, <3>2 DEF SelectedUpTo, Read
  <2> QED
    BY <2>2, <2>6
<1>3. N \in S
  <2> HIDE DEF S
  <2>1. 0 .. N \subseteq S
    BY <1>1, <1>2, PrefixInduction
  <2> QED
    BY <2>1
<1>4. PICK g : SelectedUpTo(g, positions, N)
  BY <1>3
<1>5. g = Step(g)
  <2>1. /\ g = [i \in 0 .. N |-> g[i]] /\ g[0] = <<>>
        /\ \A i \in 1 .. N : g[i] = Read(g[i - 1], i)
    BY <1>4 DEF SelectedUpTo
  <2>2. \A i \in 0 .. N : i # 0 => i \in 1 .. N
    OBVIOUS
  <2> HIDE DEF Read
  <2> QED
    BY <2>1, <2>2
<1> DEFINE r == Selections(positions, N)
<1>6. r = CHOOSE h : h = Step(h)
  BY DEF Selections
<1>7. r = Step(r)
  <2> HIDE DEF Step, r
  <2> QED
    BY <1>5, <1>6
<1>8. /\ r = [i \in 0 .. N |-> r[i]] /\ r[0] = <<>>
      /\ \A i \in 1 .. N : r[i] = Read(r[i - 1], i)
  <2> HIDE DEF r, Read
  <2> QED
    BY <1>7
<1> QED
  <2> HIDE DEF r
  <2>1. SelectedUpTo(r, positions, N)
    BY <1>8 DEF SelectedUpTo
  <2> QED
    BY <2>1 DEF r

(* Only positions up to n are selected.                                     *)
LEMMA SelectedAre ==
  ASSUME NEW positions, NEW N \in Nat
  PROVE  InOrder(positions, N) \in Seq(positions \cap 1 .. N)
<1> DEFINE r == Selections(positions, N)
           E == positions \cap 1 .. N
           S == {m \in 0 .. N : r[m] \in Seq(E)}
<1>1. /\ r[0] = <<>>
      /\ \A i \in 1 .. N :
           r[i] = IF i \in positions THEN Append(r[i - 1], i) ELSE r[i - 1]
  BY SelectionsAre DEF SelectedUpTo
<1>2. \A i \in 1 .. N : i \in positions => i \in E
  OBVIOUS
<1> HIDE DEF r, E
<1>3. 0 \in S
  <2>1. <<>> \in Seq(E) /\ 0 \in 0 .. N
    OBVIOUS
  <2>2. r[0] = <<>>
    BY <1>1
  <2> QED
    BY <2>1, <2>2
<1>4. ASSUME NEW m \in 1 .. N, m - 1 \in S PROVE m \in S
  <2>1. r[m - 1] \in Seq(E)
    BY <1>4
  <2>2. r[m] \in Seq(E)
    <3>1. CASE m \in positions
      <4>1. r[m] = Append(r[m - 1], m) /\ m \in E
        BY <1>1, <1>2, <3>1
      <4>2. Append(r[m - 1], m) \in Seq(E)
        BY <2>1, <4>1
      <4> QED
        BY <4>1, <4>2, Zenon
    <3>2. CASE m \notin positions
      BY <1>1, <2>1, <3>2
    <3> QED
      BY <3>1, <3>2
  <2> QED
    BY <2>2
<1>5. 0 .. N \subseteq S
  <2> HIDE DEF S
  <2> QED
    BY <1>3, <1>4, PrefixInduction
<1> QED
  BY <1>5 DEF InOrder, r, E

-----------------------------------------------------------------------------
(* What was installed.                                                      *)

(* The rows that are read from a content, as the properties say it.         *)
LEMMA SourceIs ==
  ASSUME NEW csv \in Seq(Seq(STRING)), csv # <<>>, NEW lines
  PROVE  RowsRead(csv, lines) = RowsIn(csv, Loaded(lines, Project))
<1> DEFINE s == Loaded(lines, Project)
           body == IF s.header = "yes" THEN Tail(csv) ELSE csv
           n == Len(csv) - Skipped(s)
<1>1. /\ DOMAIN body = 1 .. n
      /\ \A k \in 1 .. n : body[k] = csv[k + Skipped(s)]
  <2> HIDE DEF s
  <2>1. CASE s.header = "yes"
    <3>1. body = Tail(csv) /\ Skipped(s) = 1
      BY <2>1 DEF Skipped
    <3>2. Len(Tail(csv)) = Len(csv) - 1 /\ Tail(csv) \in Seq(Seq(STRING))
      OBVIOUS
    <3>3. \A k \in 1 .. Len(csv) - 1 : Tail(csv)[k] = csv[k + 1]
      OBVIOUS
    <3>4. DOMAIN Tail(csv) = 1 .. Len(csv) - 1
      BY <3>2
    <3> QED
      BY <3>1, <3>3, <3>4
  <2>2. CASE s.header # "yes"
    <3>1. body = csv /\ Skipped(s) = 0 /\ Len(csv) \in Nat
      BY <2>2 DEF Skipped
    <3>2. DOMAIN csv = 1 .. Len(csv)
      OBVIOUS
    <3>3. n = Len(csv) /\ \A k \in 1 .. Len(csv) : k + 0 = k
      BY <3>1
    <3> QED
      BY <3>1, <3>2, <3>3
  <2> QED
    BY <2>1, <2>2
<1>2. RowsRead(csv, lines) =
        [k \in DOMAIN body |-> RowOf(s, Line!ParseCsvLine(body[k]))]
  BY DEF RowsRead, Loaded
<1> HIDE DEF s, body
<1>3. RowsRead(csv, lines) =
        [k \in 1 .. n |-> RowOf(s, Line!ParseCsvLine(csv[k + Skipped(s)]))]
  <2> HIDE DEF n
  <2> QED
    BY <1>1, <1>2
<1> QED
  BY <1>3 DEF RowsIn, s

(* What is known when an import has succeeded.                              *)
LEMMA DoneIs ==
  ASSUME ImportInv, RecordedInv, Len(csvFile) <= 2, place = "done"
  PROVE  /\ Source = Recorded
         /\ Len(table) \in Nat \ {0}
         /\ Tuple(Source, Len(table)) /\ DOMAIN Source = 1 .. Len(table)
         /\ Tuple(assignment, Len(table)) /\ DOMAIN assignment = 1 .. Len(table)
         /\ Len(assignment) = Len(table) /\ DOMAIN table = 1 .. Len(table)
         /\ \A i \in 1 .. Len(table) :
              /\ table[i] = WithInputs(Source[i]) /\ RowTyped(Source[i])
              /\ Transform!CanApply(metadata, Source[i].inputs)
         /\ metadata.features =
              Transform!FitAll([i \in 1 .. Len(table) |-> Source[i].inputs],
                               RowsOf("training"), metadata.normalization)
<1>1. MetadataRecorded /\ RowsAssigned /\ TableSound
  BY DEF RecordedInv, ImportInv
<1>2. /\ Len(table) # 0 /\ Tuple(table, Len(table))
      /\ Tuple(assignment, Len(table)) /\ Tuple(Recorded, Len(table))
  BY <1>1 DEF RowsAssigned, TableSound, MetadataRecorded
<1>3. /\ CsvIsIn(metadata.source)
      /\ table = [i \in 1 .. Len(table) |-> WithInputs(Recorded[i])]
      /\ \A i \in 1 .. Len(table) :
           /\ RowTyped(Recorded[i])
           /\ Transform!CanApply(metadata, Recorded[i].inputs)
      /\ metadata.features =
           Transform!FitAll([i \in 1 .. Len(table) |-> Recorded[i].inputs],
                            RowsOf("training"), metadata.normalization)
  BY <1>1 DEF MetadataRecorded
<1>4. metadata.source \in Seq(Seq(STRING))
  BY <1>3, PresentIs DEF CsvIsIn
<1>5. Len(table) \in Nat
  BY <1>2 DEF Tuple
<1>6. metadata.source # <<>>
  <2> SUFFICES ASSUME metadata.source = <<>> PROVE FALSE
    OBVIOUS
  <2>1. Len(metadata.source) = 0
    OBVIOUS
  <2>2. Recorded = <<>>
    <3>1. Len(metadata.source) <= Skipped(Loaded(metadata.schema, Project))
      BY <2>1 DEF Skipped
    <3> QED
      BY <2>1, <3>1, NoLinesNoRows DEF Recorded
  <2>3. Len(Recorded) = Len(table) /\ Len(<<>>) = 0
    BY <1>2, TupleIs
  <2> QED
    BY <1>2, <2>2, <2>3
<1>7. Source = Recorded
  BY <1>4, <1>6, SourceIs DEF Source, Recorded
<1>8. /\ DOMAIN Source = 1 .. Len(table) /\ DOMAIN assignment = 1 .. Len(table)
      /\ Len(assignment) = Len(table) /\ DOMAIN table = 1 .. Len(table)
  BY <1>2, <1>7, TupleIs
<1>9. \A i \in 1 .. Len(table) : table[i] = WithInputs(Recorded[i])
  BY <1>3
<1> QED
  BY <1>2, <1>3, <1>5, <1>7, <1>8, <1>9

(* The rows of each part are selected the same way.                         *)
LEMMA OrderIs ==
  ASSUME ImportInv, RecordedInv, Len(csvFile) <= 2, place = "done", NEW part
  PROVE  /\ OrderOf(part) = InOrder(RowsOf(part), Len(table))
         /\ \A k \in DOMAIN OrderOf(part) :
              OrderOf(part)[k] \in 1 .. Len(table)
<1>1. RowsOf(part) = {i \in DOMAIN assignment : assignment[i] = part}
  BY DoneIs DEF RowsOf
<1>2. OrderOf(part) = InOrder(RowsOf(part), Len(table))
  BY <1>1, DoneIs DEF OrderOf
<1>3. Len(table) \in Nat
  BY DoneIs
<1>4. InOrder(RowsOf(part), Len(table)) \in Seq(RowsOf(part) \cap 1 .. Len(table))
  BY <1>3, SelectedAre
<1>5. \A k \in DOMAIN OrderOf(part) :
        OrderOf(part)[k] \in RowsOf(part) \cap 1 .. Len(table)
  BY <1>2, <1>4
<1> QED
  BY <1>2, <1>5

LEMMA ReachesRecord ==
  ImportInv /\ RecordedInv => (Len(csvFile) <= 2 => InstalledIsRecorded)
<1> SUFFICES ASSUME ImportInv, RecordedInv, Len(csvFile) <= 2, place = "done"
             PROVE  /\ metadata.source \in ToSet(csvFile)
                    /\ metadata.schema \in ToSet(schemaFile)
                    /\ DOMAIN assignment = DOMAIN Source
                    /\ \A part \in Parts :
                         stored.datasets[part] =
                           [k \in DOMAIN OrderOf(part) |->
                              [inputs |-> Transform!Apply(metadata, Source[OrderOf(part)[k]].inputs),
                               outputs |-> Source[OrderOf(part)[k]].outputs]]
  BY DEF InstalledIsRecorded
<1>1. CsvIsIn(metadata.source) /\ SchemaIsIn(metadata.schema)
  BY DEF RecordedInv, MetadataRecorded
<1>2. csvFile \in Seq(Csvs) /\ schemaFile \in Seq(Schemas)
  BY DEF ImportInv, FilesSound
<1>3. metadata.source \in ToSet(csvFile) /\ metadata.schema \in ToSet(schemaFile)
  <2> HIDE DEF Csvs, Schemas
  <2>1. DOMAIN csvFile = 1 .. Len(csvFile) /\ DOMAIN schemaFile = 1 .. Len(schemaFile)
    BY <1>2
  <2> QED
    BY <1>1, <2>1 DEF CsvIsIn, SchemaIsIn, ToSet
<1>4. ASSUME NEW part \in Parts
      PROVE  stored.datasets[part] =
               [k \in DOMAIN OrderOf(part) |->
                  [inputs |-> Transform!Apply(metadata, Source[OrderOf(part)[k]].inputs),
                   outputs |-> Source[OrderOf(part)[k]].outputs]]
  <2>1. stored.datasets[part] = Dataset(part)
    BY DEF RecordedInv, StoredIs
  <2>2. Dataset(part) =
          [k \in DOMAIN OrderOf(part) |->
             [inputs |-> table[OrderOf(part)[k]].inputs,
              outputs |-> table[OrderOf(part)[k]].outputs]]
    BY OrderIs DEF Dataset
  <2>3. ASSUME NEW i \in 1 .. Len(table)
        PROVE  /\ table[i].inputs = Transform!Apply(metadata, Source[i].inputs)
               /\ table[i].outputs = Source[i].outputs
    BY DoneIs DEF WithInputs, RowTyped
  <2>4. \A k \in DOMAIN OrderOf(part) : OrderOf(part)[k] \in 1 .. Len(table)
    BY OrderIs
  <2> QED
    BY <2>1, <2>2, <2>3, <2>4
<1> QED
  BY <1>3, <1>4, DoneIs

(* While the CSV file is edited at most once during the import, and the     *)
(* schema however often, what is installed is of the contents that are      *)
(* recorded (neural_data_import_csv).                                       *)
THEOREM ImportIsRecorded == ImportSpec => [](Len(csvFile) <= 2 => InstalledIsRecorded)
  BY RecordingHolds, ReachesRecord, PTL

-----------------------------------------------------------------------------
(* What was fitted.                                                         *)

(* Statistics are those of the training rows when other rows agree in them. *)
LEMMA SameStatistics ==
  ASSUME NEW n \in Nat \ {0}, NEW a, NEW b, Tuple(a, n), Tuple(b, n),
         NEW training, \A i \in training \cap 1 .. n : a[i] = b[i],
         DOMAIN a[1] = DOMAIN b[1], NEW normalization
  PROVE  Transform!FitAll(a, training, normalization) =
           Transform!FitAll(b, training, normalization)
<1>1. Len(a) = n /\ Len(b) = n
  BY TupleIs
<1> DEFINE order == InOrder(training, n)
<1>2. \A k \in DOMAIN order : order[k] \in training \cap 1 .. n
  <2>1. order \in Seq(training \cap 1 .. n)
    BY SelectedAre
  <2> HIDE DEF order
  <2> QED
    BY <2>1
<1>3. ASSUME NEW f
      PROVE  Transform!TrainingValues(a, training, f) =
               Transform!TrainingValues(b, training, f)
  <2>1. /\ Transform!TrainingValues(a, training, f) = [k \in DOMAIN order |-> a[order[k]][f]]
        /\ Transform!TrainingValues(b, training, f) = [k \in DOMAIN order |-> b[order[k]][f]]
    BY <1>1 DEF Transform!TrainingValues, Transform!InOrder, Transform!Selections,
                InOrder, Selections
  <2> HIDE DEF order
  <2>2. \A k \in DOMAIN order : a[order[k]] = b[order[k]]
    BY <1>2
  <2> QED
    BY <2>1, <2>2
<1> QED
  BY <1>3 DEF Transform!FitAll

LEMMA FitsTraining ==
  ImportInv /\ RecordedInv => (Len(csvFile) <= 2 => HeldOutHasNoPart)
<1> SUFFICES ASSUME ImportInv, RecordedInv, Len(csvFile) <= 2, place = "done",
                    NEW other
             PROVE  LET raw == [i \in DOMAIN Source |->
                                  IF assignment[i] = "training" THEN Source[i].inputs
                                  ELSE [f \in DOMAIN Source[i].inputs |-> other]]
                    IN  Transform!FitAll(raw, RowsOf("training"),
                                         metadata.normalization) = metadata.features
  BY DEF HeldOutHasNoPart
<1> DEFINE n == Len(table)
           rawOf(i) == IF assignment[i] = "training" THEN Source[i].inputs
                       ELSE [f \in DOMAIN Source[i].inputs |-> other]
           raw == [i \in 1 .. n |-> rawOf(i)]
           known == [i \in 1 .. n |-> Source[i].inputs]
<1>1. /\ n \in Nat \ {0} /\ DOMAIN Source = 1 .. n /\ DOMAIN table = 1 .. n
      /\ metadata.features = Transform!FitAll(known, RowsOf("training"),
                                              metadata.normalization)
  BY DoneIs
<1>2. Tuple(raw, n) /\ Tuple(known, n)
  BY <1>1 DEF Tuple
<1>3. \A i \in RowsOf("training") \cap 1 .. n : raw[i] = known[i]
  BY <1>1 DEF RowsOf
<1>4. DOMAIN raw[1] = DOMAIN known[1]
  <2>1. 1 \in 1 .. n
    <3> HIDE DEF n
    <3> QED
      BY <1>1
  <2> HIDE DEF n
  <2> QED
    BY <2>1
<1>5. Transform!FitAll(raw, RowsOf("training"), metadata.normalization) =
        metadata.features
  <2> HIDE DEF raw, known, n
  <2> QED
    BY <1>1, <1>2, <1>3, <1>4, SameStatistics
<1> QED
  BY <1>1, <1>5

-----------------------------------------------------------------------------
(* Rounding.                                                                *)

LEMMA FloatIs ==
  /\ Half \in Nat \ {0} /\ One \in Powers /\ One \in Nat \ {0}
  /\ Largest \in Nat /\ Largest >= One /\ Transform!Infinity = 2 * Largest
  /\ \A s \in Powers : s \in Nat \ {0}
  /\ \A s \in Powers : s = 1 \/ (2 * (s \div 2) = s /\ s \div 2 \in Powers)
  BY FloatAssumption, Zenon DEF Transform!Infinity

LEMMA PowerDivides ==
  ASSUME NEW s \in Powers, NEW t \in Powers, s <= t
  PROVE  \E k \in Nat \ {0} : t = s * k
<1> DEFINE Told(n) == \A u, v \in Powers :
                        u <= v /\ v <= n => \E k \in Nat \ {0} : v = u * k
           S == {n \in Nat : Told(n)}
<1>1. t \in Nat
  BY FloatIs
<1>2. 0 \in S
  BY FloatIs
<1>3. ASSUME NEW n \in 1 .. t, n - 1 \in S PROVE n \in S
  <2> SUFFICES ASSUME NEW u \in Powers, NEW v \in Powers, u <= v, v <= n
               PROVE  \E k \in Nat \ {0} : v = u * k
    OBVIOUS
  <2>1. n - 1 \in Nat /\ u \in Nat \ {0} /\ v \in Nat \ {0}
    BY FloatIs
  <2>2. CASE u = 1
    <3>1. v = u * v
      BY <2>1, <2>2
    <3> QED
      BY <2>1, <3>1
  <2>3. CASE u # 1
    <3>1. v # 1
      BY <2>1, <2>3
    <3>2. PICK a \in Powers : u = 2 * a
      BY <2>3, FloatIs
    <3>3. PICK b \in Powers : v = 2 * b
      BY <3>1, FloatIs
    <3>4. a \in Nat \ {0} /\ b \in Nat \ {0}
      BY FloatIs
    <3>5. a <= b /\ b <= n - 1
      BY <2>1, <3>2, <3>3, <3>4
    <3>6. PICK k \in Nat \ {0} : b = a * k
      BY <1>3, <3>5
    <3>7. v = u * k
      BY <3>2, <3>3, <3>4, <3>6
    <3> QED
      BY <3>7
  <2> QED
    BY <2>2, <2>3
<1>4. t \in S
  <2> HIDE DEF S
  <2>1. 0 .. t \subseteq S
    BY <1>1, <1>2, <1>3, PrefixInduction
  <2> QED
    BY <1>1, <2>1
<1>5. Told(t) /\ t <= t
  BY <1>1, <1>4
<1> QED
  BY <1>5, Zenon

(* Sets of integers between bounds have extremes.                           *)
LEMMA HasLeast ==
  ASSUME NEW low \in Int, NEW high \in Int, NEW E, E \subseteq low .. high, E # {}
  PROVE  \E m \in E : \A x \in E : m <= x
<1> DEFINE N == high - low
           S == {k \in Nat : (\E x \in E : x <= low + k) =>
                               \E m \in E : \A x \in E : m <= x}
<1>1. PICK e \in E : TRUE
  OBVIOUS
<1>2. N \in Nat /\ e <= low + N
  BY <1>1
<1>3. 0 \in S
  OBVIOUS
<1>4. ASSUME NEW k \in 1 .. N, k - 1 \in S PROVE k \in S
  <2> SUFFICES ASSUME NEW x \in E, x <= low + k
               PROVE  \E m \in E : \A y \in E : m <= y
    BY <1>2
  <2>1. CASE \E y \in E : y <= low + (k - 1)
    BY <1>4, <2>1
  <2>2. CASE \A y \in E : ~(y <= low + (k - 1))
    <3>1. \A y \in E : x <= y
      BY <1>2, <2>2
    <3> QED
      BY <3>1
  <2> QED
    BY <2>1, <2>2
<1>5. N \in S
  <2> HIDE DEF S, N
  <2>1. 0 .. N \subseteq S
    BY <1>2, <1>3, <1>4, PrefixInduction
  <2> QED
    BY <1>2, <2>1
<1> QED
  BY <1>1, <1>2, <1>5

LEMMA ExtremesAre ==
  ASSUME NEW low \in Int, NEW high \in Int, NEW E, E \subseteq low .. high, E # {},
         NEW least, least = Transform!Min(E),
         NEW greatest, greatest = Transform!Max(E)
  PROVE  /\ least \in E /\ \A x \in E : least <= x
         /\ greatest \in E /\ \A x \in E : greatest >= x
<1>1. \E m \in E : \A x \in E : m <= x
  BY HasLeast
<1>2. \E m \in E : \A x \in E : m >= x
  <2> DEFINE D == {-x : x \in E}
  <2>1. D \subseteq (-high) .. (-low) /\ D # {}
    <3>1. \A x \in E : x \in Int /\ low <= x /\ x <= high
      OBVIOUS
    <3>2. \A x \in E : -x \in (-high) .. (-low)
      BY <3>1
    <3> QED
      BY <3>2
  <2>2. PICK d \in D : \A x \in D : d <= x
    <3> HIDE DEF D
    <3>1. -high \in Int /\ -low \in Int
      OBVIOUS
    <3> QED
      BY <2>1, <3>1, HasLeast
  <2>3. PICK m \in E : d = -m
    OBVIOUS
  <2>4. \A x \in E : m >= x
    BY <2>2, <2>3
  <2> QED
    BY <2>4
<1> QED
  BY <1>1, <1>2 DEF Transform!Min, Transform!Max

(* The multiple of the spacing that n / d units are rounded to, for n >= 0. *)
Nearest(n, d) ==
  LET s == Transform!Spacing(n, d)
      q == n \div (s * d)
      twice == 2 * (n % (s * d))
  IN  s * (IF twice > s * d \/ (twice = s * d /\ q % 2 = 1) THEN q + 1 ELSE q)

LEMMA SpacingIs ==
  ASSUME NEW n \in Int, NEW d \in Nat \ {0}, NEW s, s = Transform!Spacing(n, d),
         NEW m, m = Transform!Magnitude(n)
  PROVE  /\ m \in Nat
         /\ s \in Powers /\ s \in Nat \ {0}
         /\ s = 1 \/ s * Half * d <= m
         /\ \A p \in Powers : p * Half * d <= m => p <= s
<1> DEFINE E == {1} \cup {p \in Powers : p * Half * d <= m}
<1>1. m \in Nat
  BY DEF Transform!Magnitude
<1>3. s = Transform!Max(E)
  BY DEF Transform!Spacing
<1>4. ASSUME NEW p \in Powers, p * Half * d <= m PROVE p <= m
  <2>1. p \in Nat \ {0} /\ Half \in Nat \ {0}
    BY FloatIs
  <2>2. PICK h : h = Half * d
    OBVIOUS
  <2>3. h \in Nat \ {0} /\ p * Half * d = p * h
    BY <2>1, <2>2
  <2>4. p <= p * h
    BY <2>1, <2>3
  <2> QED
    BY <1>1, <1>4, <2>1, <2>3, <2>4
<1>5. E \subseteq 0 .. m + 1 /\ E # {}
  <2>1. \A p \in Powers : p \in Nat
    BY FloatIs
  <2> QED
    BY <1>1, <1>4, <2>1
<1>6. s \in E /\ \A x \in E : s >= x
  <2> HIDE DEF E
  <2>1. PICK high \in Int : high = m + 1
    BY <1>1
  <2>2. E \subseteq 0 .. high
    BY <1>5, <2>1, Zenon
  <2>3. PICK least : least = Transform!Min(E)
    OBVIOUS
  <2>4. 0 \in Int
    OBVIOUS
  <2> QED
    BY <1>3, <1>5, <2>2, <2>3, <2>4, ExtremesAre, Zenon
<1>7. 1 \in Powers
  BY FloatAssumption
<1>8. s \in Powers
  BY <1>6, <1>7
<1>9. s = 1 \/ s * Half * d <= m
  BY <1>6
<1>10. \A p \in Powers : p * Half * d <= m => p <= s
  <2>1. s \in Nat /\ \A p \in Powers : p \in Nat
    BY <1>8, FloatIs
  <2> QED
    BY <1>6, <2>1
<1> QED
  BY <1>1, <1>8, <1>9, <1>10, FloatIs

(* The multiples around a number.                                           *)
LEMMA QuotientIs ==
  ASSUME NEW n \in Nat, NEW w \in Nat \ {0}
  PROVE  /\ n \div w \in Nat /\ n % w \in 0 .. w - 1
         /\ n = w * (n \div w) + (n % w)
  OBVIOUS

LEMMA QuotientGrows ==
  ASSUME NEW n \in Nat, NEW m \in Nat, n <= m, NEW w \in Nat \ {0}
  PROVE  /\ n \div w <= m \div w
         /\ n \div w = m \div w => n % w <= m % w
<1> DEFINE q == n \div w
           p == m \div w
<1>1. /\ q \in Nat /\ p \in Nat
      /\ n % w \in 0 .. w - 1 /\ m % w \in 0 .. w - 1
      /\ n = w * q + (n % w) /\ m = w * p + (m % w)
  BY QuotientIs
<1>2. q <= p
  <2> SUFFICES ASSUME p < q PROVE FALSE
    BY <1>1
  <2> HIDE DEF q, p
  <2>1. p + 1 <= q
    BY <1>1
  <2>2. w * (p + 1) <= w * q
    BY <1>1, <2>1
  <2>3. w * (p + 1) = w * p + w
    BY <1>1
  <2>4. w * p \in Int /\ w * q \in Int
    BY <1>1
  <2> QED
    BY <1>1, <2>2, <2>3, <2>4
<1>3. q = p => n % w <= m % w
  <2> HIDE DEF q, p
  <2>1. w * p \in Int
    BY <1>1
  <2> QED
    BY <1>1, <2>1
<1> QED
  BY <1>2, <1>3

(* The parts of a rounded number.                                           *)
RoundsTo(n, d, s, q, rest, r) ==
  /\ s = Transform!Spacing(n, d) /\ q = n \div (s * d) /\ rest = n % (s * d)
  /\ r = s * (IF 2 * rest > s * d \/ (2 * rest = s * d /\ q % 2 = 1)
                THEN q + 1 ELSE q)

Rounding(n, d, s, q, rest) ==
  /\ RoundsTo(n, d, s, q, rest, Nearest(n, d))
  /\ s \in Nat \ {0} /\ s * d \in Nat \ {0}
  /\ n = (s * d) * q + rest /\ rest < s * d
  /\ s = 1 \/ s * Half * d <= n
  /\ \A p \in Powers : p * Half * d <= n => p <= s
  /\ Nearest(n, d) \in Nat
  /\ Nearest(n, d) = s * q \/ Nearest(n, d) = s * (q + 1)

LEMMA NearestIs ==
  ASSUME NEW n \in Nat, NEW d \in Nat \ {0}
  PROVE  \E s \in Powers : \E q \in Nat : \E rest \in Nat :
           Rounding(n, d, s, q, rest)
<1>1. PICK s : s = Transform!Spacing(n, d)
  OBVIOUS
<1>2. Transform!Magnitude(n) = n
  BY DEF Transform!Magnitude
<1>3. /\ s \in Powers /\ s \in Nat \ {0}
      /\ s = 1 \/ s * Half * d <= n
      /\ \A p \in Powers : p * Half * d <= n => p <= s
  BY <1>1, <1>2, SpacingIs
<1>4. PICK w : w = s * d
  OBVIOUS
<1>5. w \in Nat \ {0}
  BY <1>3, <1>4
<1>6. PICK q \in Nat : q = n \div w
  BY <1>5, QuotientIs
<1>7. PICK rest \in Nat : rest = n % w
  BY <1>5, QuotientIs
<1>8. n = w * q + rest /\ rest < w
  BY <1>5, <1>6, <1>7, QuotientIs
<1>9. RoundsTo(n, d, s, q, rest, Nearest(n, d))
  BY <1>1, <1>4, <1>6, <1>7, Zenon DEF RoundsTo, Nearest
<1>10. Nearest(n, d) = s * q \/ Nearest(n, d) = s * (q + 1)
  BY <1>9, Zenon DEF RoundsTo
<1>11. s * q \in Nat /\ s * (q + 1) \in Nat
  BY <1>3
<1>12. Rounding(n, d, s, q, rest)
  BY <1>3, <1>4, <1>5, <1>8, <1>9, <1>10, <1>11, Zenon DEF Rounding
<1> QED
  BY <1>3, <1>12, Zenon

LEMMA NearestGrows ==
  ASSUME NEW n \in Nat, NEW m \in Nat, n <= m, NEW d \in Nat \ {0}
  PROVE  Nearest(n, d) <= Nearest(m, d)
<1>a. PICK s \in Powers, q \in Nat, rest \in Nat : Rounding(n, d, s, q, rest)
  BY NearestIs, Zenon
<1>1. /\ RoundsTo(n, d, s, q, rest, Nearest(n, d))
      /\ s \in Nat \ {0} /\ s * d \in Nat \ {0}
      /\ n = (s * d) * q + rest /\ rest < s * d
      /\ s = 1 \/ s * Half * d <= n
      /\ \A p \in Powers : p * Half * d <= n => p <= s
      /\ Nearest(n, d) \in Nat
      /\ Nearest(n, d) = s * q \/ Nearest(n, d) = s * (q + 1)
  BY <1>a, Zenon DEF Rounding
<1>b. PICK t \in Powers, p \in Nat, over \in Nat : Rounding(m, d, t, p, over)
  BY NearestIs, Zenon
<1>2. /\ RoundsTo(m, d, t, p, over, Nearest(m, d))
      /\ t \in Nat \ {0} /\ t * d \in Nat \ {0}
      /\ m = (t * d) * p + over /\ over < t * d
      /\ t = 1 \/ t * Half * d <= m
      /\ \A x \in Powers : x * Half * d <= m => x <= t
      /\ Nearest(m, d) \in Nat
      /\ Nearest(m, d) = t * p \/ Nearest(m, d) = t * (p + 1)
  BY <1>b, Zenon DEF Rounding
<1>3. Half \in Nat \ {0}
  BY FloatIs
<1>4. s <= t
  <2>1. CASE s = 1
    BY <1>2, <2>1
  <2>2. CASE s * Half * d <= n
    <3>1. s * Half * d <= m
      <4>1. s * Half * d \in Int
        BY <1>1, <1>3
      <4> QED
        BY <2>2, <4>1
    <3> QED
      BY <1>2, <3>1
  <2> QED
    BY <1>1, <2>1, <2>2
<1>5. CASE s = t
  <2>1. PICK w \in Nat \ {0} : w = s * d
    BY <1>1
  <2>2. /\ q = n \div w /\ rest = n % w /\ p = m \div w /\ over = m % w
    BY <1>1, <1>2, <1>5, <2>1, Zenon DEF RoundsTo
  <2>3. q <= p /\ (q = p => rest <= over)
    BY <2>2, QuotientGrows
  <2>4. Nearest(n, d) = s * (IF 2 * rest > w \/ (2 * rest = w /\ q % 2 = 1)
                               THEN q + 1 ELSE q)
    BY <1>1, <2>1, Zenon DEF RoundsTo
  <2>5. Nearest(m, d) = s * (IF 2 * over > w \/ (2 * over = w /\ p % 2 = 1)
                               THEN p + 1 ELSE p)
    BY <1>2, <1>5, <2>1, Zenon DEF RoundsTo
  <2>6. \A i, j \in Nat : i <= j => s * i <= s * j
    BY <1>1
  <2>7. CASE q = p
    <3>1. rest <= over
      BY <2>3, <2>7
    <3>2. (2 * rest > w \/ (2 * rest = w /\ q % 2 = 1))
            => (2 * over > w \/ (2 * over = w /\ p % 2 = 1))
      BY <2>1, <2>7, <3>1
    <3>3. s * q <= s * (q + 1) /\ s * q <= s * q /\ s * (q + 1) <= s * (q + 1)
      BY <2>6
    <3> QED
      BY <2>4, <2>5, <2>7, <3>2, <3>3
  <2>8. CASE q # p
    <3>1. q + 1 <= p
      BY <2>3, <2>8
    <3>2. s * q <= s * p /\ s * (q + 1) <= s * p /\ s * p <= s * (p + 1)
      BY <2>3, <2>6, <3>1
    <3>3. s * q \in Int /\ s * (q + 1) \in Int /\ s * p \in Int /\ s * (p + 1) \in Int
      BY <1>1
    <3> QED
      BY <1>1, <1>2, <1>5, <3>2, <3>3
  <2> QED
    BY <2>7, <2>8
<1>6. CASE s # t
  <2>1. s < t /\ t # 1 /\ t * Half * d <= m
    BY <1>1, <1>2, <1>4, <1>6
  <2>2. n < t * Half * d
    <3>1. ~(t * Half * d <= n)
      BY <1>1, <1>2, <2>1
    <3>2. t * Half * d \in Int
      BY <1>2, <1>3
    <3> QED
      BY <3>1, <3>2
  <2>3. PICK k \in Nat \ {0} : t = s * k
    BY <1>4, PowerDivides, Zenon
  <2>4. q + 1 <= k * Half
    <3>1. PICK w \in Nat \ {0} : w = s * d
      BY <1>1
    <3>2. PICK h \in Nat : h = k * Half
      BY <1>3, <2>3
    <3>3. t * Half * d = w * h
      BY <1>1, <1>3, <2>3, <3>1, <3>2
    <3>4. w * q < w * h
      <4>1. w * q <= n
        BY <1>1, <3>1
      <4>2. w * q \in Int /\ w * h \in Int
        BY <3>1
      <4> QED
        BY <2>2, <3>3, <4>1, <4>2
    <3>5. q < h
      <4> SUFFICES ASSUME h <= q PROVE FALSE
        OBVIOUS
      <4>1. w * h <= w * q
        BY <3>1
      <4>2. w * q \in Int /\ w * h \in Int
        BY <3>1
      <4> QED
        BY <3>4, <4>1, <4>2
    <3> QED
      BY <3>2, <3>5
  <2>5. Half <= p
    <3>1. PICK w \in Nat \ {0} : w = t * d
      BY <1>2
    <3>2. t * Half * d = w * Half
      BY <1>2, <1>3, <3>1
    <3>3. w * Half < w * (p + 1)
      <4>1. m < w * p + w
        BY <1>2, <3>1
      <4>2. w * (p + 1) = w * p + w
        BY <3>1
      <4>3. w * p \in Int /\ w * Half \in Int
        BY <1>3, <3>1
      <4> QED
        BY <2>1, <3>2, <4>1, <4>2, <4>3
    <3> SUFFICES ASSUME p + 1 <= Half PROVE FALSE
      BY <1>3
    <3>4. w * (p + 1) <= w * Half
      BY <1>3, <3>1
    <3>5. w * (p + 1) \in Int /\ w * Half \in Int
      BY <1>3, <3>1
    <3> QED
      BY <3>3, <3>4, <3>5
  <2>6. Nearest(n, d) <= s * (q + 1)
    <3>1. s * q <= s * (q + 1) /\ s * q \in Int /\ s * (q + 1) \in Int
      BY <1>1
    <3> QED
      BY <1>1, <3>1
  <2>7. s * (q + 1) <= s * (k * Half)
    <3>1. k * Half \in Nat
      BY <1>3, <2>3
    <3> QED
      BY <1>1, <2>4, <3>1
  <2>8. s * (k * Half) = t * Half
    BY <1>1, <1>3, <2>3
  <2>9. t * Half <= t * p
    BY <1>2, <1>3, <2>5
  <2>10. t * p <= Nearest(m, d)
    <3>1. t * p <= t * (p + 1) /\ t * p \in Int /\ t * (p + 1) \in Int
      BY <1>2
    <3> QED
      BY <1>2, <3>1
  <2>11. s * (q + 1) \in Int /\ t * Half \in Int /\ t * p \in Int
    BY <1>1, <1>2, <1>3
  <2> QED
    BY <1>1, <1>2, <2>6, <2>7, <2>8, <2>9, <2>10, <2>11
<1> QED
  BY <1>5, <1>6

(* One is a number.                                                         *)
LEMMA NearestToOne ==
  ASSUME NEW d \in Nat \ {0}
  PROVE  Nearest(d * One, d) = One
<1>1. One \in Nat \ {0} /\ One \in Powers /\ Half \in Nat \ {0}
  BY FloatIs
<1>2. d * One \in Nat
  BY <1>1
<1>a. PICK n \in Nat : n = d * One
  BY <1>2
<1>b. PICK s \in Powers, q \in Nat, rest \in Nat : Rounding(n, d, s, q, rest)
  BY NearestIs, Zenon
<1>3. /\ RoundsTo(d * One, d, s, q, rest, Nearest(d * One, d))
      /\ s \in Nat \ {0} /\ s * d \in Nat \ {0}
      /\ s = 1 \/ s * Half * d <= d * One
  BY <1>a, <1>b, Zenon DEF Rounding
<1>4. s <= One
  <2>1. CASE s = 1
    BY <1>1, <2>1
  <2>2. CASE s * Half * d <= d * One
    <3> SUFFICES ASSUME One + 1 <= s PROVE FALSE
      BY <1>1, <1>3
    <3>1. PICK h \in Nat \ {0} : h = s * Half
      BY <1>1, <1>3
    <3>2. s <= h
      BY <1>1, <1>3, <3>1
    <3>3. s * Half * d = d * h
      BY <1>1, <1>3, <3>1
    <3>4. d * (One + 1) <= d * h
      BY <1>1, <1>3, <3>1, <3>2
    <3>5. d * (One + 1) = d * One + d
      BY <1>1
    <3>6. d * One \in Int /\ d * h \in Int
      BY <1>1, <3>1
    <3> QED
      BY <2>2, <3>3, <3>4, <3>5, <3>6
  <2> QED
    BY <1>3, <2>1, <2>2
<1>5. PICK k \in Nat \ {0} : One = s * k
  BY <1>1, <1>4, PowerDivides
<1>6. PICK w \in Nat \ {0} : w = s * d
  BY <1>3
<1>7. d * One = k * w + 0 /\ 0 \in 0 .. w - 1
  BY <1>3, <1>5, <1>6
<1>8. q = k /\ rest = 0
  <2>1. (d * One) \div w = k /\ (d * One) % w = 0
    BY <1>2, <1>5, <1>6, <1>7, DivUnique
  <2> QED
    BY <1>3, <1>6, <2>1, Zenon DEF RoundsTo
<1>9. ~(2 * rest > w \/ (2 * rest = w /\ q % 2 = 1))
  BY <1>6, <1>8
<1>10. Nearest(d * One, d) = s * q
  BY <1>3, <1>6, <1>9, Zenon DEF RoundsTo
<1> QED
  BY <1>5, <1>8, <1>10

LEMMA RoundIs ==
  ASSUME NEW n \in Int, NEW d
  PROVE  /\ Transform!Magnitude(n) \in Nat
         /\ Transform!Round(n, d) =
              Transform!Signed(n, Nearest(Transform!Magnitude(n), d))
<1>1. PICK m : m = Transform!Magnitude(n)
  OBVIOUS
<1>2. m \in Nat /\ Transform!Magnitude(m) = m
  BY <1>1 DEF Transform!Magnitude
<1>3. Transform!Spacing(n, d) = Transform!Spacing(m, d)
  BY <1>1, <1>2, Zenon DEF Transform!Spacing
<1> QED
  BY <1>1, <1>2, <1>3, Zenon DEF Transform!Round, Nearest

LEMMA RoundFrom ==
  ASSUME NEW n \in Nat, NEW d \in Nat \ {0}
  PROVE  /\ Nearest(n, d) \in Nat
         /\ Transform!Round(n, d) = IF Nearest(n, d) > Largest THEN Transform!Infinity
                                    ELSE Nearest(n, d)
<1>1. Nearest(n, d) \in Nat
  <2>1. PICK s \in Powers, q \in Nat, rest \in Nat : Rounding(n, d, s, q, rest)
    BY NearestIs, Zenon
  <2> QED
    BY <2>1, Zenon DEF Rounding
<1>2. n \in Int /\ ~(n < 0)
  OBVIOUS
<1>3. Transform!Magnitude(n) = n
  BY <1>2, Zenon DEF Transform!Magnitude
<1>4. Transform!Round(n, d) = Transform!Signed(n, Nearest(n, d))
  BY <1>2, <1>3, RoundIs, Zenon
<1> QED
  BY <1>1, <1>2, <1>4, Zenon DEF Transform!Signed

(* A result is a number of the format or Infinity.                          *)
Numbers == (-Largest) .. Largest

LEMMA RoundGives ==
  ASSUME NEW n \in Int, NEW d \in Nat \ {0}
  PROVE  Transform!Round(n, d) \in Numbers \cup {Transform!Infinity}
<1>1. PICK m \in Nat : m = Transform!Magnitude(n)
  BY RoundIs
<1>2. PICK r \in Nat : r = Nearest(m, d)
  BY RoundFrom
<1>3. Transform!Round(n, d) = Transform!Signed(n, r)
  BY <1>1, <1>2, RoundIs, Zenon
<1> QED
  BY <1>2, <1>3, FloatIs DEF Transform!Signed, Numbers

LEMMA NumbersFinite ==
  /\ Numbers \subseteq Int /\ 0 \in Numbers /\ One \in Numbers
  /\ \A x \in Numbers : Transform!Finite(x)
  /\ Transform!Infinity \in Int
  BY FloatIs DEF Numbers, Transform!Finite

(* Differences grow with what is subtracted from.                           *)
LEMMA SubGrows ==
  ASSUME NEW a \in Numbers, NEW v \in Numbers, NEW b \in Numbers, a <= v, v <= b,
         Transform!Finite(Transform!Sub(b, a))
  PROVE  /\ Transform!Sub(b, a) \in 0 .. Largest
         /\ Transform!Sub(v, a) \in 0 .. Transform!Sub(b, a)
<1>1. /\ Transform!Sub(b, a) = Transform!Round(b - a, 1)
      /\ Transform!Sub(v, a) = Transform!Round(v - a, 1)
  BY NumbersFinite, Zenon DEF Transform!Sub
<1>2. PICK x \in Nat : x = v - a
  BY NumbersFinite
<1>3. PICK y \in Nat : y = b - a
  BY NumbersFinite
<1>4. x <= y
  BY <1>2, <1>3, NumbersFinite
<1>5. PICK r \in Nat : r = Nearest(x, 1)
  BY RoundFrom
<1>6. PICK t \in Nat : t = Nearest(y, 1)
  BY RoundFrom
<1>7. r <= t
  <2>1. 1 \in Nat \ {0}
    OBVIOUS
  <2> QED
    BY <1>4, <1>5, <1>6, <2>1, NearestGrows, Zenon
<1>8. /\ Transform!Sub(b, a) = IF t > Largest THEN Transform!Infinity ELSE t
      /\ Transform!Sub(v, a) = IF r > Largest THEN Transform!Infinity ELSE r
  <2>1. 1 \in Nat \ {0}
    OBVIOUS
  <2> QED
    BY <1>1, <1>2, <1>3, <1>5, <1>6, <2>1, RoundFrom, Zenon
<1>9. ~(t > Largest)
  BY <1>8, Zenon DEF Transform!Finite
<1>10. Transform!Sub(b, a) = t /\ t <= Largest
  BY <1>8, <1>9, FloatIs
<1>11. Transform!Sub(v, a) = r
  BY <1>7, <1>8, <1>10, FloatIs
<1> QED
  BY <1>7, <1>10, <1>11, FloatIs

(* A part of a number is at most the whole.                                 *)
LEMMA DivAtMostOne ==
  ASSUME NEW y \in 1 .. Largest, NEW x \in 0 .. y
  PROVE  Transform!Div(x, y) \in 0 .. One
<1>1. x \in Nat /\ y \in Nat \ {0} /\ x \in Numbers /\ y \in Numbers /\ ~(y < 0) /\ y # 0
  BY FloatIs DEF Numbers
<1>2. Transform!Div(x, y) = Transform!Round(x * One, y)
  BY <1>1, NumbersFinite, Zenon DEF Transform!Div
<1>3. One \in Nat \ {0} /\ One <= Largest /\ Largest \in Nat
  BY FloatIs
<1>4. PICK n \in Nat : n = x * One
  BY <1>1, <1>3
<1>5. PICK m \in Nat : m = y * One
  BY <1>1, <1>3
<1>6. n <= m
  BY <1>1, <1>3, <1>4, <1>5
<1>7. PICK r \in Nat : r = Nearest(n, y)
  BY <1>1, RoundFrom
<1>8. r <= One
  <2>1. Nearest(m, y) = One
    BY <1>1, <1>5, NearestToOne, Zenon
  <2>2. Nearest(n, y) <= Nearest(m, y)
    BY <1>1, <1>6, NearestGrows, Zenon
  <2> QED
    BY <1>7, <2>1, <2>2, Zenon
<1>9. Transform!Round(n, y) = IF r > Largest THEN Transform!Infinity ELSE r
  BY <1>1, <1>7, RoundFrom, Zenon
<1> QED
  BY <1>2, <1>3, <1>4, <1>7, <1>8, <1>9

(* What lies between two numbers is scaled between zero and one.            *)
LEMMA ScaledBetween ==
  ASSUME NEW a \in Numbers, NEW v \in Numbers, NEW b \in Numbers, a <= v, v <= b,
         NEW c, c = Transform!OneForZero(Transform!Sub(b, a)), Transform!Finite(c)
  PROVE  Transform!Div(Transform!Sub(v, a), c) \in 0 .. One
<1>1. PICK w : w = Transform!Sub(b, a)
  OBVIOUS
<1>2. Transform!Finite(w)
  <2>1. CASE w = 0
    BY <2>1, NumbersFinite, Zenon
  <2>2. CASE w # 0
    BY <1>1, <2>2, Zenon DEF Transform!OneForZero
  <2> QED
    BY <2>1, <2>2
<1>3. w \in 0 .. Largest /\ Transform!Sub(v, a) \in 0 .. w
  BY <1>1, <1>2, SubGrows, Zenon
<1>4. CASE w = 0
  <2>1. c = One
    BY <1>1, <1>4, Zenon DEF Transform!OneForZero
  <2>2. Transform!Sub(v, a) \in 0 .. One /\ One \in 1 .. Largest
    BY <1>3, <1>4, FloatIs
  <2> QED
    BY <2>1, <2>2, DivAtMostOne, Zenon
<1>5. CASE w # 0
  <2>1. c = w
    BY <1>1, <1>5, Zenon DEF Transform!OneForZero
  <2>2. w \in 1 .. Largest
    BY <1>3, <1>5, FloatIs
  <2> QED
    BY <1>3, <2>1, <2>2, DivAtMostOne, Zenon
<1> QED
  BY <1>4, <1>5

-----------------------------------------------------------------------------
(* The mean and the extremes.                                               *)

LEMMA AddGives ==
  ASSUME NEW x \in Int, NEW y \in Int
  PROVE  Transform!Add(x, y) \in Int
<1>1. PICK s \in Int : s = x + y
  OBVIOUS
<1>2. Transform!Round(s, 1) \in Numbers \cup {Transform!Infinity}
  <2>1. 1 \in Nat \ {0}
    OBVIOUS
  <2> QED
    BY <2>1, RoundGives, Zenon
<1>3. Transform!Round(s, 1) \in Int /\ Transform!Infinity \in Int
  BY <1>2, NumbersFinite
<1> QED
  BY <1>1, <1>3, Zenon DEF Transform!Add

LEMMA DivGives ==
  ASSUME NEW x \in Int, NEW y \in Int
  PROVE  Transform!Div(x, y) \in Numbers \cup {Transform!Infinity}
<1>1. One \in Int
  BY FloatIs
<1>2. CASE y < 0
  <2>1. PICK n \in Int, d \in Nat \ {0} : n = -x * One /\ d = -y
    BY <1>1, <1>2
  <2>2. Transform!Div(x, y) \in {Transform!Round(n, d), Transform!Infinity}
    BY <1>2, <2>1, Zenon DEF Transform!Div
  <2> QED
    BY <2>2, RoundGives, Zenon
<1>3. CASE y > 0
  <2>1. PICK n \in Int, d \in Nat \ {0} : n = x * One /\ d = y
    BY <1>1, <1>3
  <2>2. ~(y < 0)
    BY <1>3
  <2>3. Transform!Div(x, y) \in {Transform!Round(n, d), Transform!Infinity}
    BY <2>1, <2>2, Zenon DEF Transform!Div
  <2> QED
    BY <2>3, RoundGives, Zenon
<1>4. CASE y = 0
  BY <1>4, Zenon DEF Transform!Div
<1> QED
  BY <1>2, <1>3, <1>4

LEMMA RealGives ==
  ASSUME NEW n \in Nat
  PROVE  Transform!Real(n) \in Int
<1>1. PICK m \in Int : m = n * One
  BY FloatIs
<1>2. Transform!Round(m, 1) \in Numbers \cup {Transform!Infinity}
  <2>1. 1 \in Nat \ {0}
    OBVIOUS
  <2> QED
    BY <2>1, RoundGives, Zenon
<1>3. Transform!Round(m, 1) \in Int
  BY <1>2, NumbersFinite
<1> QED
  BY <1>1, <1>3, Zenon DEF Transform!Real

(* "g" has the sums of the first values of f, up to n of them.              *)
AddedUpTo(g, f, n) ==
  /\ g = [i \in 0 .. n |-> g[i]]
  /\ g[0] = 0
  /\ \A i \in 1 .. n : g[i] = Transform!Add(g[i - 1], f[i])

LEMMA AddedAre ==
  ASSUME NEW f, NEW N \in Nat, N = Len(f)
  PROVE  AddedUpTo(Transform!Sums(f), f, N)
<1> DEFINE Step(g) == [n \in 0 .. N |->
                         IF n = 0 THEN 0 ELSE Transform!Add(g[n - 1], f[n])]
           S == {n \in Nat : \E g : AddedUpTo(g, f, n)}
<1>1. 0 \in S
  <2> DEFINE g == [i \in 0 .. 0 |-> 0]
  <2>1. AddedUpTo(g, f, 0)
    BY DEF AddedUpTo
  <2> QED
    BY <2>1
<1>2. ASSUME NEW n \in 1 .. N, n - 1 \in S PROVE n \in S
  <2>1. PICK g : AddedUpTo(g, f, n - 1)
    BY <1>2
  <2> DEFINE h == [i \in 0 .. n |-> IF i = n THEN Transform!Add(g[n - 1], f[n])
                                    ELSE g[i]]
  <2>2. n \in Nat /\ n # 0
    BY <1>2
  <2>3. h[0] = 0
    BY <2>1, <2>2 DEF AddedUpTo
  <2>4. ASSUME NEW i \in 1 .. n PROVE h[i] = Transform!Add(h[i - 1], f[i])
    <3>1. h[i - 1] = g[i - 1]
      BY <2>2
    <3>2. CASE i = n
      BY <2>2, <3>1, <3>2
    <3>3. CASE i # n
      <4>1. i \in 1 .. n - 1 /\ i \in 0 .. n
        BY <2>2, <3>3
      <4>2. g[i] = Transform!Add(g[i - 1], f[i])
        BY <2>1, <4>1 DEF AddedUpTo
      <4>3. h[i] = g[i]
        BY <3>3, <4>1
      <4> QED
        BY <3>1, <4>2, <4>3
    <3> QED
      BY <3>2, <3>3
  <2>5. AddedUpTo(h, f, n)
    BY <2>3, <2>4 DEF AddedUpTo
  <2> QED
    BY <2>2, <2>5
<1>3. N \in S
  <2> HIDE DEF S
  <2>1. 0 .. N \subseteq S
    BY <1>1, <1>2, PrefixInduction
  <2> QED
    BY <2>1
<1>4. PICK g : AddedUpTo(g, f, N)
  BY <1>3
<1>5. g = Step(g)
  <2>1. /\ g = [i \in 0 .. N |-> g[i]] /\ g[0] = 0
        /\ \A i \in 1 .. N : g[i] = Transform!Add(g[i - 1], f[i])
    BY <1>4 DEF AddedUpTo
  <2>2. \A i \in 0 .. N : i # 0 => i \in 1 .. N
    OBVIOUS
  <2> QED
    BY <2>1, <2>2
<1> DEFINE r == Transform!Sums(f)
<1>6. r = CHOOSE h : h = Step(h)
  BY DEF Transform!Sums
<1>7. r = Step(r)
  <2> HIDE DEF Step, r
  <2> QED
    BY <1>5, <1>6
<1> HIDE DEF r
<1>8. r = [i \in 0 .. N |-> r[i]] /\ r[0] = 0
  BY <1>7
<1>9. \A i \in 1 .. N : r[i] = Transform!Add(r[i - 1], f[i])
  BY <1>7
<1>10. AddedUpTo(r, f, N)
  BY <1>8, <1>9 DEF AddedUpTo
<1> QED
  BY <1>10 DEF r

LEMMA SumGives ==
  ASSUME NEW f, NEW n, Tuple(f, n), \A i \in 1 .. n : f[i] \in Int
  PROVE  Transform!SumOf(f) \in Int
<1>1. n \in Nat /\ Len(f) = n
  BY TupleIs DEF Tuple
<1>2. PICK g : g = Transform!Sums(f)
  OBVIOUS
<1>3. AddedUpTo(g, f, n)
  BY <1>1, <1>2, AddedAre, Zenon
<1>4. g[0] = 0 /\ \A i \in 1 .. n : g[i] = Transform!Add(g[i - 1], f[i])
  BY <1>3, Zenon DEF AddedUpTo
<1> DEFINE S == {i \in 0 .. n : g[i] \in Int}
<1>5. 0 \in S
  BY <1>1, <1>4
<1>6. ASSUME NEW i \in 1 .. n, i - 1 \in S PROVE i \in S
  <2>1. g[i] \in Int
    BY <1>4, <1>6, AddGives
  <2> QED
    BY <1>1, <2>1
<1>7. 0 .. n \subseteq S
  <2> HIDE DEF S
  <2> QED
    BY <1>1, <1>5, <1>6, PrefixInduction
<1>8. g[n] \in Int
  BY <1>1, <1>7
<1> QED
  BY <1>1, <1>2, <1>8, Zenon DEF Transform!SumOf

(* What the cells of an input column hold.                                  *)
Values == Numbers \cup {Missing}

LEMMA KnownIs ==
  ASSUME NEW values, NEW n, Tuple(values, n), \A i \in 1 .. n : values[i] \in Values
  PROVE  \E m \in Nat : /\ Tuple(Transform!Known(values), m)
                        /\ \A k \in 1 .. m : Transform!Known(values)[k] \in Numbers
<1>1. n \in Nat /\ Len(values) = n /\ DOMAIN values = 1 .. n
  BY TupleIs DEF Tuple
<1>2. PICK known : known = {i \in DOMAIN values : values[i] # Missing}
  OBVIOUS
<1>3. PICK order : order = InOrder(known, n)
  OBVIOUS
<1>4. order \in Seq(known \cap 1 .. n)
  BY <1>1, <1>3, SelectedAre
<1>5. Transform!Known(values) = [k \in DOMAIN order |-> values[order[k]]]
  <2>1. Transform!InOrder(known, n) = order
    BY <1>3 DEF Transform!InOrder, Transform!Selections, InOrder, Selections
  <2> QED
    BY <1>1, <1>2, <2>1, Zenon DEF Transform!Known
<1>6. PICK m \in Nat : DOMAIN order = 1 .. m
  BY <1>4
<1>7. \A k \in 1 .. m : order[k] \in known /\ order[k] \in 1 .. n
  BY <1>4, <1>6
<1>8. \A k \in 1 .. m : values[order[k]] \in Numbers
  BY <1>2, <1>7 DEF Values
<1>9. Tuple(Transform!Known(values), m)
  BY <1>5, <1>6, Zenon DEF Tuple
<1> QED
  BY <1>5, <1>6, <1>8, <1>9, Zenon

LEMMA MeanGives ==
  ASSUME NEW values, NEW n, Tuple(values, n), \A i \in 1 .. n : values[i] \in Values
  PROVE  Transform!Mean(values) \in Numbers \cup {Transform!Infinity}
<1>1. PICK known : known = Transform!Known(values)
  OBVIOUS
<1>2. PICK m \in Nat : Tuple(known, m) /\ \A k \in 1 .. m : known[k] \in Numbers
  BY <1>1, KnownIs, Zenon
<1>3. \A k \in 1 .. m : known[k] \in Int
  BY <1>2, NumbersFinite
<1>4. Transform!SumOf(known) \in Int
  BY <1>2, <1>3, SumGives, Zenon
<1>5. Len(known) = m
  BY <1>2, TupleIs, Zenon
<1>6. Transform!Real(m) \in Int
  BY RealGives, Zenon
<1> QED
  BY <1>1, <1>4, <1>5, <1>6, DivGives, Zenon DEF Transform!Mean

(* A value is scaled by the statistics of values among which it is.         *)
LEMMA ScaledByStatistics ==
  ASSUME NEW values, NEW n, Tuple(values, n), \A i \in 1 .. n : values[i] \in Values,
         NEW st, st = Transform!Statistics(values, "minmax"),
         Transform!Finite(st.impute), Transform!Finite(st.scale),
         NEW i \in 1 .. n, NEW v,
         v = IF values[i] = Missing THEN st.impute ELSE values[i]
  PROVE  Transform!Div(Transform!Sub(v, st.offset), st.scale) \in 0 .. One
<1>1. PICK mean : mean = Transform!Mean(values)
  OBVIOUS
<1>2. PICK imputed : imputed = Transform!Imputed(values)
  OBVIOUS
<1>3. PICK E : E = Transform!Extremes(values)
  OBVIOUS
<1>4. DOMAIN values = 1 .. n
  BY TupleIs
<1>5. imputed = [j \in 1 .. n |-> IF values[j] = Missing THEN mean ELSE values[j]]
  BY <1>1, <1>2, <1>4, Zenon DEF Transform!Imputed
<1>6. E = {imputed[j] : j \in 1 .. n} \cup {mean}
  BY <1>1, <1>2, <1>3, <1>5, Zenon DEF Transform!Extremes, Transform!ToSet
<1>7. PICK least : least = Transform!Min(E)
  OBVIOUS
<1>8. PICK greatest : greatest = Transform!Max(E)
  OBVIOUS
<1>9. /\ st.offset = least /\ st.impute = mean
      /\ st.scale = Transform!OneForZero(Transform!Sub(greatest, least))
  <2>1. "minmax" # "none" /\ "minmax" # "standardize"
    OBVIOUS
  <2>2. st = [offset |-> least, impute |-> mean,
              scale |-> Transform!OneForZero(Transform!Sub(greatest, least))]
    BY <1>1, <1>3, <1>7, <1>8, <2>1 DEF Transform!Statistics
  <2> QED
    BY <2>2
<1>10. mean \in Numbers
  <2>1. mean \in Numbers \cup {Transform!Infinity}
    BY <1>1, MeanGives, Zenon
  <2> QED
    BY <1>9, <2>1, Zenon DEF Transform!Finite
<1>11. E \subseteq Numbers /\ E # {}
  <2>1. \A j \in 1 .. n : imputed[j] \in Numbers
    BY <1>5, <1>10, Zenon DEF Values
  <2> QED
    BY <1>6, <1>10, <2>1, Zenon
<1>12. v \in E
  <2>1. v = imputed[i]
    BY <1>5, <1>9, Zenon
  <2> QED
    BY <1>6, <2>1, Zenon
<1>13. /\ least \in E /\ \A x \in E : least <= x
       /\ greatest \in E /\ \A x \in E : greatest >= x
  <2>1. Largest \in Int /\ -Largest \in Int
    BY FloatIs
  <2>2. PICK low \in Int : low = -Largest
    BY <2>1
  <2>3. E \subseteq low .. Largest
    BY <1>11, <2>2, Zenon DEF Numbers
  <2> QED
    BY <1>7, <1>8, <1>11, <2>1, <2>3, ExtremesAre, Zenon
<1>14. v \in Numbers /\ least \in Numbers /\ greatest \in Numbers
       /\ least <= v /\ greatest >= v
  BY <1>11, <1>12, <1>13, Zenon
<1>15. v <= greatest
  BY <1>14, NumbersFinite
<1> QED
  BY <1>9, <1>14, <1>15, ScaledBetween, Zenon

-----------------------------------------------------------------------------
(* The inputs that are fitted are numbers, or are not known.                *)

InputsKnown(row) == \A f \in DOMAIN row.inputs : row.inputs[f] \in Values

ValuesSound ==
  /\ place \in {"rows", "targets", "split", "compare", "fit"} =>
       \A i \in 1 .. Len(table) : InputsKnown(table[i])
  /\ place \in {"install", "done"} /\ Len(csvFile) <= 2 =>
       \A i \in 1 .. Len(table) : InputsKnown(Recorded[i])

LEMMA RowIsKnown ==
  ASSUME NEW s, NEW fields, SchemaFits(s), RowReads(s, fields)
  PROVE  InputsKnown(RowOf(s, fields))
<1> DEFINE in == [i \in DOMAIN s.inputs |-> InputOf(fields[s.inputs[i] + 1])]
<1>1. RowOf(s, fields).inputs = in
  <2>1. PICK out, k : RowOf(s, fields) = [inputs |-> in, outputs |-> out, class |-> k]
    BY Zenon DEF RowOf
  <2> HIDE DEF in
  <2> QED
    BY <2>1
<1>2. ASSUME NEW i \in DOMAIN s.inputs
      PROVE  InputOf(fields[s.inputs[i] + 1]) \in Values
  <2>1. PICK c : c = s.inputs[i]
    OBVIOUS
  <2>2. c \in ToSet(s.inputs)
    BY <2>1, Zenon DEF ToSet
  <2>3. PICK cell : cell = fields[c + 1]
    OBVIOUS
  <2>4. InputReads(cell)
    BY <2>2, <2>3, Zenon DEF RowReads
  <2>5. InputOf(cell) \in Values
    BY <2>4, WordAssumption, Zenon DEF InputReads, InputOf, Values, Numbers
  <2> QED
    BY <2>1, <2>3, <2>5, Zenon
<1> QED
  BY <1>1, <1>2, Zenon DEF InputsKnown

LEMMA ValuesStaySound ==
  ASSUME ImportInv, RecordedInv, ValuesSound, [ImportNext]_importVars
  PROVE  ValuesSound'
<1>a. TableSound /\ FilesDistinct
  BY DEF ImportInv, RecordedInv
<1>b. given' = given /\ Len(csvFile) \in Nat
      /\ (Len(csvFile') <= 2 => Len(csvFile) <= 2)
  <2>1. given' = given /\ Len(csvFile) \in Nat
    BY <1>a, FilesGrow
  <2>2. Len(csvFile') <= 2 => Len(csvFile) <= 2
    BY <1>a, OneEdit
  <2> QED
    BY <2>1, <2>2
<1>c. Project' = Project
  BY <1>b DEF Project
<1>1. CASE /\ UNCHANGED table
           /\ place' \in {"rows", "targets", "split", "compare", "fit"} =>
                place \in {"rows", "targets", "split", "compare", "fit"}
           /\ place' \notin {"install", "done"}
  BY <1>1 DEF ValuesSound, InputsKnown
<1>2. CASE Begin \/ DigestFiles
  <2>1. place' \in {"digest", "refused", "schema"}
    BY <1>2 DEF Begin, DigestFiles
  <2> QED
    BY <2>1 DEF ValuesSound
<1>3. CASE ReadSchema
  <2>1. place' \in {"refused", "rows"} /\ table' = <<>>
    BY <1>a, <1>3 DEF ReadSchema, TableSound
  <2>2. Len(table') = 0
    BY <2>1
  <2> QED
    BY <2>1, <2>2 DEF ValuesSound
<1>4. CASE ReadHeader \/ EndRows
  <2>1. UNCHANGED table /\ place = "rows" /\ place' \in {"rows", "targets", "refused"}
    BY <1>4 DEF ReadHeader, EndRows, loading
  <2> QED
    BY <1>1, <2>1
<1>5. CASE BeginSplit \/ Split \/ CompareFiles \/ DigestLine
  <2>1. /\ UNCHANGED table
        /\ place = "digest" => place' = "digest"
        /\ place \in {"targets", "split", "compare", "digest"}
        /\ place' \in {"split", "refused", "compare", "fit", "digest"}
    BY <1>5, Zenon DEF BeginSplit, Split, CompareFiles, DigestLine, loading
  <2> QED
    BY <1>1, <2>1
<1>6. CASE ReadRow
  <2>1. place = "rows"
    BY <1>6 DEF ReadRow
  <2>2. CASE UNCHANGED table /\ place' = "refused"
    BY <1>1, <2>2
  <2>3. CASE \E fields : /\ RowReads(schema, fields) /\ place' = place
                         /\ table' = Append(table, RowOf(schema, fields))
    <3>1. PICK fields : /\ RowReads(schema, fields) /\ place' = place
                        /\ table' = Append(table, RowOf(schema, fields))
      BY <2>3
    <3>2. SchemaFits(schema)
      BY <2>1 DEF ImportInv, SchemaSound
    <3>3. PICK row : row = RowOf(schema, fields)
      OBVIOUS
    <3>4. InputsKnown(row)
      BY <3>1, <3>2, <3>3, RowIsKnown, Zenon
    <3>5. PICK n : n = Len(table)
      OBVIOUS
    <3>6. Tuple(table, n) /\ n \in Nat
      BY <1>a, <3>5, Zenon DEF TableSound, Tuple
    <3>7. /\ Len(table') = n + 1 /\ table'[n + 1] = row
          /\ \A i \in 1 .. n : table'[i] = table[i]
      <4>1. /\ Tuple(table', n + 1) /\ table'[n + 1] = row
            /\ \A i \in 1 .. n : table'[i] = table[i]
        <5>1. Tuple(table, Len(table)) /\ table' = Append(table, row)
          BY <3>1, <3>3, <3>5, <3>6
        <5> QED
          BY <3>5, <5>1, AppendIs
      <4> QED
        BY <4>1, TupleIs
    <3>8. \A i \in 1 .. n : InputsKnown(table[i])
      BY <2>1, <3>5 DEF ValuesSound
    <3>9. \A i \in 1 .. n + 1 : InputsKnown(table'[i])
      <4> SUFFICES ASSUME NEW i \in 1 .. n + 1 PROVE InputsKnown(table'[i])
        OBVIOUS
      <4>1. i \in 1 .. n \/ i = n + 1
        BY <3>6
      <4> QED
        BY <3>4, <3>7, <3>8, <4>1
    <3> QED
      BY <2>1, <3>1, <3>7, <3>9 DEF ValuesSound, InputsKnown
  <2> QED
    BY <1>6, <2>2, <2>3, Zenon DEF ReadRow
<1>7. CASE Fit
  <2>1. place = "fit" /\ place' \in {"install", "refused"}
    BY <1>7, Zenon DEF Fit
  <2>2. CASE place' = "refused"
    BY <2>2 DEF ValuesSound
  <2>3. CASE place' = "install"
    <3> SUFFICES ASSUME Len(csvFile') <= 2
                 PROVE  \A i \in 1 .. Len(table') : InputsKnown(Recorded[i])'
      BY <2>3 DEF ValuesSound
    <3>1. PICK norm \in Transform!Normalizations, policy \in Transform!MissingPolicies :
            metadata' = FittedMetadata(norm, policy)
      BY <1>7, <2>3, FitDoes
    <3>2. metadata'.source = digests.csv /\ metadata'.schema = digests.schema
      BY <3>1, Zenon DEF FittedMetadata
    <3>3. table = RowsIn(digests.csv, Loaded(digests.schema, Project))
      BY <1>b, <2>1 DEF RecordedInv, RowsRecorded
    <3>4. Recorded' = table
      BY <1>c, <3>2, <3>3 DEF Recorded
    <3>5. table' = [i \in DOMAIN table |->
                      [table[i] EXCEPT !.inputs = Transform!Apply(metadata', @)]]
      BY <1>7, <2>3, FitDoes
    <3>6. PICK n : n = Len(table)
      OBVIOUS
    <3>7. Tuple(table, n) /\ n \in Nat /\ DOMAIN table = 1 .. n
      <4>1. Tuple(table, n)
        BY <1>a, <3>6 DEF TableSound
      <4> QED
        BY <4>1, TupleIs DEF Tuple
    <3>8. Tuple(table', n)
      BY <3>5, <3>7 DEF Tuple
    <3>9. Len(table') = n
      BY <3>8, TupleIs
    <3>10. \A i \in 1 .. n : InputsKnown(table[i])
      BY <2>1, <3>6 DEF ValuesSound
    <3> QED
      BY <3>4, <3>9, <3>10 DEF InputsKnown
  <2> QED
    BY <2>1, <2>2, <2>3
<1>8. CASE /\ place \in {"install", "done"} /\ place' \in {"install", "done"}
           /\ UNCHANGED <<table, metadata>>
  <2>1. Recorded' = Recorded
    BY <1>c, <1>8 DEF Recorded
  <2> QED
    BY <1>b, <1>8, <2>1 DEF ValuesSound, InputsKnown
<1>9. CASE Install
  <2>1. place = "install" /\ place' = "done" /\ UNCHANGED <<table, metadata>>
    BY <1>9, Zenon DEF Install, loading
  <2> QED
    BY <1>8, <2>1
<1>10. CASE EditCsv \/ EditSchema \/ Stop \/ UNCHANGED importVars
  <2>1. place' = place /\ UNCHANGED <<table, metadata>>
    BY <1>10 DEF EditCsv, EditSchema, Stop, importVars, loading, results
  <2> QED
    BY <1>1, <1>8, <2>1
<1> QED
  BY <1>2, <1>3, <1>4, <1>5, <1>6, <1>7, <1>9, <1>10 DEF ImportNext, Import

LEMMA ValuesHold == ImportSpec => [](ImportInv /\ RecordedInv /\ ValuesSound)
<1>1. ImportInit => ValuesSound
  BY DEF ImportInit, ValuesSound
<1>2. ImportInit => ImportInv /\ RecordedInv
  BY ImportStarts, RecordedStarts
<1>3. ImportInv /\ RecordedInv /\ [ImportNext]_importVars =>
        ImportInv' /\ RecordedInv'
  BY ImportGoesOn, RecordingGoesOn
<1>4. ImportInv /\ RecordedInv /\ ValuesSound /\ [ImportNext]_importVars =>
        ValuesSound'
  BY ValuesStaySound
<1> QED
  BY <1>1, <1>2, <1>3, <1>4, PTL DEF ImportSpec

(* The values of an input in the training rows.                             *)
OfTraining(values, f) ==
  \E n \in Nat :
    /\ Tuple(values, n) /\ DOMAIN OrderOf("training") = 1 .. n
    /\ \A k \in 1 .. n : /\ values[k] = Source[OrderOf("training")[k]].inputs[f]
                         /\ values[k] \in Values

LEMMA TrainingValuesAre ==
  ASSUME ImportInv, RecordedInv, ValuesSound, Len(csvFile) <= 2, place = "done",
         NEW f \in 1 .. Project.inputs, NEW raw,
         raw = [i \in 1 .. Len(table) |-> Source[i].inputs],
         NEW values, values = Transform!TrainingValues(raw, RowsOf("training"), f)
  PROVE  OfTraining(values, f)
<1>1. PICK order : order = OrderOf("training")
  OBVIOUS
<1>2. PICK count \in Nat : count = Len(table)
  BY DoneIs
<1>3. /\ order = InOrder(RowsOf("training"), count)
      /\ \A k \in DOMAIN order : order[k] \in 1 .. count
  BY <1>1, <1>2, OrderIs
<1>4. PICK n \in Nat : DOMAIN order = 1 .. n
  <2>1. order \in Seq(RowsOf("training") \cap 1 .. count)
    BY <1>3, SelectedAre
  <2> QED
    BY <2>1
<1>5. Len(raw) = count
  <2>1. Tuple(raw, count)
    BY <1>2 DEF Tuple
  <2> QED
    BY <2>1, TupleIs
<1>6. values = [k \in DOMAIN order |-> raw[order[k]][f]]
  <2>1. Transform!InOrder(RowsOf("training"), Len(raw)) = order
    BY <1>3, <1>5 DEF Transform!InOrder, Transform!Selections, InOrder, Selections
  <2>2. Transform!TrainingValues(raw, RowsOf("training"), f) =
          [k \in DOMAIN order |-> raw[order[k]][f]]
    BY ONLY <2>1, Zenon DEF Transform!TrainingValues
  <2> QED
    BY <2>2
<1>7. \A i \in 1 .. count : raw[i] = Source[i].inputs
  BY <1>2
<1>8. \A i \in 1 .. count : Source[i].inputs[f] \in Values
  <2> SUFFICES ASSUME NEW i \in 1 .. count PROVE Source[i].inputs[f] \in Values
    OBVIOUS
  <2>1. InputsKnown(Source[i])
    BY <1>2, DoneIs DEF ValuesSound
  <2>2. Tuple(Source[i].inputs, Project.inputs)
    BY <1>2, DoneIs DEF RowTyped
  <2>3. f \in DOMAIN Source[i].inputs
    BY <2>2, TupleIs
  <2> QED
    BY <2>1, <2>3, Zenon DEF InputsKnown
<1>9. \A k \in 1 .. n : /\ values[k] = Source[order[k]].inputs[f]
                        /\ values[k] \in Values
  <2> SUFFICES ASSUME NEW k \in 1 .. n
               PROVE  /\ values[k] = Source[order[k]].inputs[f]
                      /\ values[k] \in Values
    OBVIOUS
  <2>1. PICK i : i = order[k]
    OBVIOUS
  <2>2. i \in 1 .. count
    BY <1>3, <1>4, <2>1, Zenon
  <2>3. values[k] = raw[i][f]
    BY <1>4, <1>6, <2>1, Zenon
  <2>4. raw[i][f] = Source[i].inputs[f]
    BY <1>7, <2>2, Zenon
  <2>5. Source[i].inputs[f] \in Values
    BY <1>8, <2>2, Zenon
  <2> QED
    BY <2>1, <2>3, <2>4, <2>5, Zenon
<1>10. Tuple(values, n)
  BY <1>4, <1>6, Zenon DEF Tuple
<1> QED
  BY <1>1, <1>4, <1>9, <1>10, Zenon DEF OfTraining

LEMMA ScalesToExtremes ==
  ImportInv /\ RecordedInv /\ ValuesSound =>
    (Len(csvFile) <= 2 => ScaledToExtremes)
<1> SUFFICES ASSUME ImportInv, RecordedInv, ValuesSound, Len(csvFile) <= 2,
                    place = "done", metadata.normalization = "minmax",
                    NEW k \in DOMAIN stored.datasets["training"]
             PROVE  ToSet(stored.datasets["training"][k].inputs) \subseteq 0 .. One
  BY DEF ScaledToExtremes
<1>1. PICK order : order = OrderOf("training")
  OBVIOUS
<1>2. "training" \in Parts
  BY DEF Parts
<1>3. stored.datasets["training"] =
        [j \in DOMAIN order |->
           LET row == Source[order[j]]
           IN  [inputs |-> Transform!Apply(metadata, row.inputs),
                outputs |-> row.outputs]]
  BY <1>1, <1>2, ReachesRecord, Zenon DEF InstalledIsRecorded
<1>4. k \in DOMAIN order
  BY <1>3
<1>5. PICK row : row = Source[order[k]]
  OBVIOUS
<1>6. stored.datasets["training"][k].inputs = Transform!Apply(metadata, row.inputs)
  BY <1>3, <1>4, <1>5
<1>7. PICK n \in Nat : n = Project.inputs
  BY DEF ImportInv, FilesSound
<1>8. DOMAIN row.inputs = 1 .. n
  <2>1. order[k] \in 1 .. Len(table)
    BY <1>1, <1>4, OrderIs
  <2>2. Tuple(row.inputs, n)
    BY <1>5, <1>7, <2>1, DoneIs DEF RowTyped
  <2> QED
    BY <2>2, TupleIs
<1>9. ASSUME NEW f \in 1 .. n
      PROVE  Transform!Transformed(metadata, f, row.inputs[f]) \in 0 .. One
  <2>1. PICK raw : raw = [i \in 1 .. Len(table) |-> Source[i].inputs]
    OBVIOUS
  <2>2. PICK values : values = Transform!TrainingValues(raw, RowsOf("training"), f)
    OBVIOUS
  <2>3. PICK m \in Nat :
          /\ Tuple(values, m) /\ DOMAIN order = 1 .. m
          /\ \A j \in 1 .. m : values[j] = Source[order[j]].inputs[f] /\ values[j] \in Values
    <3>1. f \in 1 .. Project.inputs
      BY <1>7
    <3>2. OfTraining(values, f)
      BY <2>1, <2>2, <3>1, TrainingValuesAre
    <3> QED
      BY <1>1, <3>2, Zenon DEF OfTraining
  <2>4. PICK st : st = metadata.features[f]
    OBVIOUS
  <2>5. st = Transform!Statistics(values, "minmax")
    <3>1. metadata.features = Transform!FitAll(raw, RowsOf("training"), "minmax")
      BY <2>1, DoneIs
    <3>2. 1 \in 1 .. Len(table)
      BY DoneIs
    <3>3. raw[1] = Source[1].inputs /\ Tuple(Source[1].inputs, n)
      BY <1>7, <2>1, <3>2, DoneIs DEF RowTyped
    <3>4. DOMAIN raw[1] = 1 .. n
      BY <3>3, TupleIs
    <3> QED
      BY <2>2, <2>4, <3>1, <3>4, Zenon DEF Transform!FitAll
  <2>6. Transform!Finite(st.impute) /\ Transform!Finite(st.scale)
    <3>1. Transform!MetadataValid(metadata) /\ Tuple(metadata.features, n)
      BY <1>7 DEF RecordedInv, MetadataSound
    <3>2. f \in DOMAIN metadata.features
      BY <3>1, TupleIs
    <3>3. Transform!FeatureValid(st, metadata.normalization)
      BY <2>4, <3>1, <3>2, Zenon DEF Transform!MetadataValid
    <3> QED
      BY <3>3, Zenon DEF Transform!FeatureValid
  <2>7. k \in 1 .. m /\ values[k] = row.inputs[f] /\ \A j \in 1 .. m : values[j] \in Values
    BY <1>4, <1>5, <2>3
  <2>8. PICK v : v = IF values[k] = Missing THEN st.impute ELSE values[k]
    OBVIOUS
  <2>9. Transform!Transformed(metadata, f, values[k]) =
          Transform!Div(Transform!Sub(v, st.offset), st.scale)
    BY <2>4, <2>8, Zenon DEF Transform!Transformed
  <2>10. Transform!Div(Transform!Sub(v, st.offset), st.scale) \in 0 .. One
    BY <2>3, <2>5, <2>6, <2>7, <2>8, ScaledByStatistics
  <2> QED
    BY <2>7, <2>9, <2>10
<1>10. PICK scaled : scaled = Transform!Apply(metadata, row.inputs)
  OBVIOUS
<1>11. scaled = [f \in 1 .. n |-> Transform!Transformed(metadata, f, row.inputs[f])]
  BY <1>8, <1>10, Zenon DEF Transform!Apply
<1>12. ToSet(scaled) \subseteq 0 .. One
  BY <1>9, <1>11, Zenon DEF ToSet
<1> QED
  BY <1>6, <1>10, <1>12

(* While the CSV file is edited at most once, no held-out row has a part in *)
(* the statistics, and whatever is rounded, the training inputs that are    *)
(* scaled to their extremes lie between zero and one (fit_preprocessing,    *)
(* neural_preprocessing_apply).                                             *)
THEOREM ImportFitsTraining ==
  ImportSpec => [](Len(csvFile) <= 2 => FittedOnTrainingRows)
<1>1. ImportInv /\ RecordedInv /\ ValuesSound =>
        (Len(csvFile) <= 2 => FittedOnTrainingRows)
  BY FitsTraining, ScalesToExtremes DEF FittedOnTrainingRows
<1> QED
  BY <1>1, ValuesHold, PTL

-----------------------------------------------------------------------------
(* What was written of the transform is read again.                         *)

Joined(u, s, n, t, m) ==
  /\ Tuple(u, n + m)
  /\ \A i \in 1 .. n : u[i] = s[i]
  /\ \A i \in 1 .. m : u[n + i] = t[i]

LEMMA JoinedIs ==
  ASSUME NEW s, NEW n, Tuple(s, n), NEW t, NEW m, Tuple(t, m), NEW u, u = s \o t
  PROVE  Joined(u, s, n, t, m)
<1> DEFINE E == {s[i] : i \in 1 .. n} \cup {t[i] : i \in 1 .. m}
<1>1. n \in Nat /\ m \in Nat
  BY DEF Tuple
<1>2. Len(s) = n /\ Len(t) = m /\ DOMAIN s = 1 .. n /\ DOMAIN t = 1 .. m
  BY TupleIs
<1>3. \A i \in 1 .. n : s[i] \in E
  OBVIOUS
<1>4. \A i \in 1 .. m : t[i] \in E
  OBVIOUS
<1> HIDE DEF E
<1>5. s \in [1 .. n -> E]
  BY <1>3 DEF Tuple
<1>6. t \in [1 .. m -> E]
  BY <1>4 DEF Tuple
<1>7. s \in Seq(E)
  BY <1>1, <1>5, SeqDef, Zenon
<1>8. t \in Seq(E)
  BY <1>1, <1>6, SeqDef, Zenon
<1>9. /\ u \in Seq(E) /\ Len(u) = Len(s) + Len(t)
      /\ \A i \in 1 .. Len(s) + Len(t) :
           u[i] = IF i <= Len(s) THEN s[i] ELSE t[i - Len(s)]
  BY <1>7, <1>8, ConcatProperties, Zenon
<1>10. /\ u \in Seq(E) /\ Len(u) = n + m
       /\ \A i \in 1 .. n + m : u[i] = IF i <= n THEN s[i] ELSE t[i - n]
  BY <1>2, <1>9, Zenon
<1>11. Tuple(u, n + m)
  BY <1>10, SeqIsTuple, Zenon
<1>12. ASSUME NEW i \in 1 .. n PROVE u[i] = s[i]
  <2>1. i \in 1 .. n + m /\ i <= n
    BY <1>1
  <2> QED
    BY <1>10, <2>1, Zenon
<1>13. ASSUME NEW i \in 1 .. m PROVE u[n + i] = t[i]
  <2>1. PICK k : k = n + i
    OBVIOUS
  <2>2. k \in 1 .. n + m /\ ~(k <= n) /\ k - n = i
    BY <1>1, <2>1
  <2>3. u[k] = t[i]
    BY <1>10, <2>2, Zenon
  <2> QED
    BY <2>1, <2>3, Zenon
<1> QED
  BY <1>11, <1>12, <1>13 DEF Joined

(* The metadata of an import that gave n inputs.                            *)
Written(m, n) ==
  /\ n \in Nat \ {0} /\ Tuple(m.features, n)
  /\ m.version = 2 /\ Transform!MetadataValid(m) /\ m.stratified \in BOOLEAN

(* The lines that are written of it.                                        *)
LinesSay(lines, m, n) ==
  /\ Tuple(lines, n + 12)
  /\ lines[1] = <<"preprocessing", 2>> /\ lines[2] = <<"inputs", n>>
  /\ lines[3] = <<"normalization", m.normalization>>
  /\ lines[4] = <<"missing", m.missing>>
  /\ lines[5] = <<"source_digest", m.source>>
  /\ lines[6] = <<"schema_digest", m.schema>>
  /\ lines[7] = <<"split_seed", m.seed>>
  /\ lines[8] = <<"validation_ratio", m.validation>>
  /\ lines[9] = <<"test_ratio", m.test>>
  /\ lines[10] = <<"stratified", m.stratified>>
  /\ lines[11] = <<"split_algorithm", m.algorithm>>
  /\ \A i \in 1 .. n :
       lines[11 + i] = Transform!FeatureLine(m.features[i], i - 1)
  /\ lines[12 + n] = <<"end">>

LEMMA LinesAre ==
  ASSUME NEW m, NEW n, Written(m, n), NEW lines, lines = Transform!WriteMetadata(m)
  PROVE  LinesSay(lines, m, n)
<1>1. n \in Nat \ {0} /\ Len(m.features) = n /\ DOMAIN m.features = 1 .. n
  BY TupleIs DEF Written
<1> DEFINE values == <<m.version, Len(m.features), m.normalization, m.missing,
                       m.source, m.schema, m.seed, m.validation, m.test,
                       m.stratified>>
           A == [i \in DOMAIN Transform!Settings |-> <<Transform!Settings[i], values[i]>>]
           B == <<<<"split_algorithm", m.algorithm>>>>
           C == [i \in DOMAIN m.features |->
                   Transform!FeatureLine(m.features[i], i - 1)]
           D == <<<<"end">>>>
<1>2. /\ Tuple(A, 10)
      /\ A[1] = <<"preprocessing", 2>> /\ A[2] = <<"inputs", n>>
      /\ A[3] = <<"normalization", m.normalization>>
      /\ A[4] = <<"missing", m.missing>>
      /\ A[5] = <<"source_digest", m.source>>
      /\ A[6] = <<"schema_digest", m.schema>>
      /\ A[7] = <<"split_seed", m.seed>>
      /\ A[8] = <<"validation_ratio", m.validation>>
      /\ A[9] = <<"test_ratio", m.test>>
      /\ A[10] = <<"stratified", m.stratified>>
  BY <1>1 DEF Transform!Settings, Tuple, Written
<1>3. Tuple(B, 1) /\ B[1] = <<"split_algorithm", m.algorithm>>
  BY DEF Tuple
<1>4. Tuple(C, n) /\ \A i \in 1 .. n : C[i] = Transform!FeatureLine(m.features[i], i - 1)
  BY <1>1 DEF Tuple
<1>5. Tuple(D, 1) /\ D[1] = <<"end">>
  BY DEF Tuple
<1>6. lines = A \o B \o C \o D
  BY DEF Transform!WriteMetadata, Written
<1> HIDE DEF A, B, C, D
<1>7. PICK ab : ab = A \o B
  OBVIOUS
<1>8. PICK abc : abc = ab \o C
  OBVIOUS
<1>9. lines = abc \o D
  BY <1>6, <1>7, <1>8
<1>10. /\ Tuple(ab, 11) /\ \A i \in 1 .. 10 : ab[i] = A[i]
       /\ ab[11] = B[1]
  <2>1. Joined(ab, A, 10, B, 1)
    BY <1>2, <1>3, <1>7, JoinedIs, Zenon
  <2>2. Tuple(ab, 10 + 1) /\ \A i \in 1 .. 10 : ab[i] = A[i]
    BY <2>1, Zenon DEF Joined
  <2>3. \A i \in 1 .. 1 : ab[10 + i] = B[i]
    BY <2>1, Zenon DEF Joined
  <2>4. 1 \in 1 .. 1 /\ 10 + 1 = 11
    OBVIOUS
  <2> QED
    BY <2>2, <2>3, <2>4, Zenon
<1>11. /\ Tuple(abc, 11 + n) /\ \A i \in 1 .. 11 : abc[i] = ab[i]
       /\ \A i \in 1 .. n : abc[11 + i] = C[i]
  <2>1. Joined(abc, ab, 11, C, n)
    BY <1>4, <1>8, <1>10, JoinedIs, Zenon
  <2> QED
    BY <2>1, Zenon DEF Joined
<1>12. /\ Tuple(lines, 11 + n + 1) /\ \A i \in 1 .. 11 + n : lines[i] = abc[i]
       /\ \A i \in 1 .. 1 : lines[11 + n + i] = D[i]
  <2>1. Joined(lines, abc, 11 + n, D, 1)
    BY <1>5, <1>9, <1>11, JoinedIs, Zenon
  <2> QED
    BY <2>1, Zenon DEF Joined
<1>13. /\ 11 + n + 1 = n + 12 /\ 12 + n = 11 + n + 1
       /\ 1 .. 11 \subseteq 1 .. 11 + n
       /\ \A i \in 1 .. n : 11 + i \in 1 .. 11 + n
  BY <1>1
<1>14. \A i \in 1 .. 10 : lines[i] = A[i]
  BY <1>10, <1>11, <1>12, <1>13
<1>15. lines[11] = B[1]
  BY <1>10, <1>11, <1>12, <1>13
<1>16. \A i \in 1 .. n : lines[11 + i] = C[i]
  BY <1>11, <1>12, <1>13
<1>17. lines[12 + n] = D[1] /\ Tuple(lines, n + 12)
  BY <1>12, <1>13
<1> QED
  BY <1>2, <1>3, <1>4, <1>5, <1>14, <1>15, <1>16, <1>17 DEF LinesSay

LEMMA ExpectedIs ==
  ASSUME NEW n \in Nat
  PROVE  LET e == Transform!Expected(2, n)
         IN  /\ Tuple(e, n + 12)
             /\ \A i \in 1 .. 10 : e[i] = Transform!Settings[i]
             /\ e[11] = "split_algorithm"
             /\ \A i \in 1 .. n : e[11 + i] = "feature"
             /\ e[12 + n] = "end"
<1> DEFINE A == Transform!Settings
           B == <<"split_algorithm">>
           C == [i \in 1 .. n |-> "feature"]
           D == <<"end">>
<1>1. Tuple(A, 10)
  BY DEF Transform!Settings, Tuple
<1>2. /\ Tuple(B, 1) /\ B[1] = "split_algorithm"
      /\ Tuple(D, 1) /\ D[1] = "end"
      /\ Tuple(C, n) /\ \A i \in 1 .. n : C[i] = "feature"
  BY DEF Tuple
<1>3. PICK e : e = Transform!Expected(2, n)
  OBVIOUS
<1>4. e = A \o B \o C \o D
  BY <1>3 DEF Transform!Expected
<1> HIDE DEF A, B, C, D
<1>5. PICK ab : ab = A \o B
  OBVIOUS
<1>6. PICK abc : abc = ab \o C
  OBVIOUS
<1>7. e = abc \o D
  BY <1>4, <1>5, <1>6
<1>8. /\ Tuple(ab, 11) /\ \A i \in 1 .. 10 : ab[i] = A[i]
      /\ ab[11] = B[1]
  <2>1. Joined(ab, A, 10, B, 1)
    BY <1>1, <1>2, <1>5, JoinedIs, Zenon
  <2>2. Tuple(ab, 10 + 1) /\ \A i \in 1 .. 10 : ab[i] = A[i]
    BY <2>1, Zenon DEF Joined
  <2>3. \A i \in 1 .. 1 : ab[10 + i] = B[i]
    BY <2>1, Zenon DEF Joined
  <2>4. 1 \in 1 .. 1 /\ 10 + 1 = 11
    OBVIOUS
  <2> QED
    BY <2>2, <2>3, <2>4, Zenon
<1>9. /\ Tuple(abc, 11 + n) /\ \A i \in 1 .. 11 : abc[i] = ab[i]
      /\ \A i \in 1 .. n : abc[11 + i] = C[i]
  <2>1. Joined(abc, ab, 11, C, n)
    BY <1>2, <1>6, <1>8, JoinedIs, Zenon
  <2> QED
    BY <2>1, Zenon DEF Joined
<1>10. /\ Tuple(e, 11 + n + 1) /\ \A i \in 1 .. 11 + n : e[i] = abc[i]
       /\ \A i \in 1 .. 1 : e[11 + n + i] = D[i]
  <2>1. Joined(e, abc, 11 + n, D, 1)
    BY <1>2, <1>7, <1>9, JoinedIs, Zenon
  <2> QED
    BY <2>1, Zenon DEF Joined
<1>11. /\ 11 + n + 1 = n + 12 /\ 12 + n = 11 + n + 1
       /\ 1 .. 11 \subseteq 1 .. 11 + n
       /\ \A i \in 1 .. n : 11 + i \in 1 .. 11 + n
  OBVIOUS
<1>12. \A i \in 1 .. 10 : e[i] = A[i]
  BY <1>8, <1>9, <1>10, <1>11
<1>13. e[11] = B[1]
  BY <1>8, <1>9, <1>10, <1>11
<1>14. \A i \in 1 .. n : e[11 + i] = C[i]
  BY <1>9, <1>10, <1>11
<1>15. e[12 + n] = D[1] /\ Tuple(e, n + 12)
  BY <1>10, <1>11
<1>16. \A i \in 1 .. 10 : e[i] = Transform!Settings[i]
  BY <1>12 DEF A
<1> QED
  BY <1>2, <1>3, <1>13, <1>14, <1>15, <1>16

(* Every number of the transform can be read.                               *)
AllReadable(features) ==
  \A f \in DOMAIN features :
    /\ Transform!Readable(features[f].offset)
    /\ Transform!Readable(features[f].scale)
    /\ Transform!Readable(features[f].impute)

LEMMA WrittenIs ==
  ASSUME NEW m, NEW n, Written(m, n)
  PROVE  /\ n \in Nat /\ n > 0 /\ m.version = 2 /\ m.stratified \in BOOLEAN
         /\ Transform!MetadataValid(m) /\ DOMAIN m.features = 1 .. n
<1>1. n \in Nat \ {0} /\ Tuple(m.features, n)
  BY DEF Written
<1>2. m.version = 2 /\ m.stratified \in BOOLEAN /\ Transform!MetadataValid(m)
  BY Zenon DEF Written
<1>3. PICK features : features = m.features
  OBVIOUS
<1>4. DOMAIN features = 1 .. n
  BY <1>1, <1>3, TupleIs, Zenon
<1>5. n \in Nat /\ n > 0
  BY <1>1
<1> QED
  BY <1>2, <1>3, <1>4, <1>5, Zenon

(* A transform that computes what another does.                             *)
Alike(r, m, n) ==
  /\ r.version = 2 /\ r.normalization = m.normalization
  /\ r.missing = m.missing /\ r.algorithm = Transform!AlgorithmOf(2)
  /\ Tuple(r.features, n)
  /\ \A i \in 1 .. n : /\ r.features[i].offset = m.features[i].offset
                       /\ r.features[i].scale = m.features[i].scale
                       /\ r.features[i].impute = m.features[i].impute

FeaturesSay(fs, m, n) ==
  /\ DOMAIN fs = 1 .. n
  /\ \A i \in 1 .. n : fs[i] = Transform!FeatureLine(m.features[i], i - 1)

LEMMA ReadsFields ==
  ASSUME NEW m, NEW n, Written(m, n), NEW lines, lines = Transform!WriteMetadata(m),
         NEW r, r = Transform!ReadMetadata(lines),
         NEW fs, fs = Transform!FeatureLines(lines)
  PROVE  Alike(r, m, n) /\ FeaturesSay(fs, m, n)
<1>1. n \in Nat
  BY DEF Written
<1>2. /\ Tuple(lines, n + 12)
      /\ lines[1] = <<"preprocessing", 2>> /\ lines[2] = <<"inputs", n>>
      /\ lines[3] = <<"normalization", m.normalization>>
      /\ lines[4] = <<"missing", m.missing>>
      /\ \A i \in 1 .. n : lines[11 + i] = Transform!FeatureLine(m.features[i], i - 1)
  <2>1. LinesSay(lines, m, n)
    BY LinesAre, Zenon
  <2> QED
    BY <2>1, Zenon DEF LinesSay
<1>3. Len(lines) = n + 12
  BY <1>2, TupleIs, Zenon
<1>4. lines[1][2] = 2 /\ lines[2][2] = n /\ lines[3][2] = m.normalization
      /\ lines[4][2] = m.missing
  BY <1>2
<1>5. Len(Transform!Settings) + 1 = 11
  BY DEF Transform!Settings
<1>6. Transform!FeatureLines(lines) =
        [i \in 1 .. Len(lines) - 11 - 1 |-> lines[11 + i]]
  BY <1>4, <1>5, Zenon DEF Transform!FeatureLines
<1>7. Len(lines) - 11 - 1 = n
  BY <1>1, <1>3
<1>8. Transform!FeatureLines(lines) = [i \in 1 .. n |-> lines[11 + i]]
  BY <1>6, <1>7, Zenon
<1>9. \A i \in 1 .. n : Transform!FeatureLines(lines)[i] =
                          Transform!FeatureLine(m.features[i], i - 1)
  BY <1>2, <1>8, Zenon
<1>10. r.features =
         [i \in 1 .. n |-> LET line == Transform!FeatureLines(lines)[i]
                           IN  [offset |-> line[3], scale |-> line[4],
                                impute |-> line[5]]]
  BY <1>4, Zenon DEF Transform!ReadMetadata
<1>11. /\ r.version = 2 /\ r.normalization = m.normalization
       /\ r.missing = m.missing /\ r.algorithm = Transform!AlgorithmOf(2)
  BY <1>4, Zenon DEF Transform!ReadMetadata
<1>12. ASSUME NEW i \in 1 .. n
       PROVE  /\ r.features[i].offset = m.features[i].offset
              /\ r.features[i].scale = m.features[i].scale
              /\ r.features[i].impute = m.features[i].impute
  <2>1. PICK line : line = Transform!FeatureLines(lines)[i]
    OBVIOUS
  <2>2. r.features[i] = [offset |-> line[3], scale |-> line[4], impute |-> line[5]]
    BY <1>10, <2>1, Zenon
  <2>3. line = <<"feature", i - 1, m.features[i].offset, m.features[i].scale,
                 m.features[i].impute>>
    BY <1>9, <2>1, Zenon DEF Transform!FeatureLine
  <2>4. line[3] = m.features[i].offset /\ line[4] = m.features[i].scale
        /\ line[5] = m.features[i].impute
    BY <2>3
  <2> QED
    BY <2>2, <2>4
<1>13. Tuple(r.features, n)
  BY <1>1, <1>10, Zenon DEF Tuple
<1>14. DOMAIN Transform!FeatureLines(lines) = 1 .. n
  BY <1>8, Zenon
<1>15. Alike(r, m, n)
  BY <1>11, <1>12, <1>13, Zenon DEF Alike
<1>16. FeaturesSay(fs, m, n)
  BY <1>9, <1>14, Zenon DEF FeaturesSay
<1> QED
  BY <1>15, <1>16

LEMMA KeysAre ==
  ASSUME NEW m, NEW n, Written(m, n), NEW lines, lines = Transform!WriteMetadata(m)
  PROVE  [i \in DOMAIN lines |-> lines[i][1]] = Transform!Expected(2, n)
<1>1. n \in Nat
  BY DEF Written
<1>2. PICK e : e = Transform!Expected(2, n)
  OBVIOUS
<1>3. /\ Tuple(e, n + 12)
      /\ \A i \in 1 .. 10 : e[i] = Transform!Settings[i]
      /\ e[11] = "split_algorithm"
      /\ \A i \in 1 .. n : e[11 + i] = "feature"
      /\ e[12 + n] = "end"
  BY <1>1, <1>2, ExpectedIs, Zenon
<1>4. /\ Tuple(lines, n + 12)
      /\ lines[1] = <<"preprocessing", 2>> /\ lines[2] = <<"inputs", n>>
      /\ lines[3] = <<"normalization", m.normalization>>
      /\ lines[4] = <<"missing", m.missing>>
      /\ lines[5] = <<"source_digest", m.source>>
      /\ lines[6] = <<"schema_digest", m.schema>>
      /\ lines[7] = <<"split_seed", m.seed>>
      /\ lines[8] = <<"validation_ratio", m.validation>>
      /\ lines[9] = <<"test_ratio", m.test>>
      /\ lines[10] = <<"stratified", m.stratified>>
      /\ lines[11] = <<"split_algorithm", m.algorithm>>
      /\ \A i \in 1 .. n :
           lines[11 + i] = Transform!FeatureLine(m.features[i], i - 1)
      /\ lines[12 + n] = <<"end">>
  <2>1. LinesSay(lines, m, n)
    BY LinesAre, Zenon
  <2> QED
    BY <2>1, Zenon DEF LinesSay
<1>5. \A i \in 1 .. 10 : lines[i][1] = Transform!Settings[i]
  BY <1>4 DEF Transform!Settings
<1>6. lines[11][1] = "split_algorithm" /\ lines[12 + n][1] = "end"
  BY <1>4
<1>7. \A i \in 1 .. n : lines[11 + i][1] = "feature"
  BY <1>4 DEF Transform!FeatureLine
<1>8. ASSUME NEW i \in 1 .. n + 12 PROVE lines[i][1] = e[i]
  <2>1. CASE i \in 1 .. 10
    BY <1>3, <1>5, <2>1, Zenon
  <2>2. CASE i = 11
    BY <1>3, <1>6, <2>2, Zenon
  <2>3. CASE i - 11 \in 1 .. n
    <3>1. PICK j \in 1 .. n : j = i - 11
      BY <2>3
    <3>2. i = 11 + j
      BY <1>1, <3>1
    <3> QED
      BY <1>3, <1>7, <3>2, Zenon
  <2>4. CASE i = 12 + n
    BY <1>3, <1>6, <2>4, Zenon
  <2> QED
    BY <1>1, <2>1, <2>2, <2>3, <2>4
<1>9. DOMAIN lines = 1 .. n + 12
  BY <1>4, TupleIs, Zenon
<1>10. e = [i \in 1 .. n + 12 |-> e[i]]
  BY <1>3, Zenon DEF Tuple
<1> QED
  BY <1>2, <1>8, <1>9, <1>10, Zenon

LEMMA ReadsAgain ==
  ASSUME NEW m, NEW n, Written(m, n), NEW lines, lines = Transform!WriteMetadata(m)
  PROVE  Transform!MetadataReads(lines) <=> AllReadable(m.features)
<1>1. n \in Nat /\ n > 0 /\ Transform!MetadataValid(m) /\ m.version = 2
      /\ m.stratified \in BOOLEAN /\ DOMAIN m.features = 1 .. n
  BY WrittenIs, Zenon
<1>2. m.normalization \in Transform!Normalizations
      /\ m.missing \in Transform!MissingPolicies
      /\ m.algorithm = Transform!AlgorithmOf(2)
  BY <1>1, Zenon DEF Transform!MetadataValid
<1>3. LinesSay(lines, m, n)
  BY LinesAre, Zenon
<1>4. /\ lines[1][1] = "preprocessing" /\ lines[1][2] = 2
      /\ lines[2][1] = "inputs" /\ lines[2][2] = n
      /\ lines[3][2] = m.normalization /\ lines[4][2] = m.missing
      /\ lines[10][2] = m.stratified /\ lines[11][2] = m.algorithm
  BY <1>3 DEF LinesSay
<1>5. Len(lines) > 2
  <2>1. Len(lines) = n + 12
    BY <1>3, TupleIs, Zenon DEF LinesSay
  <2> QED
    BY <1>1, <2>1
<1>6. [i \in DOMAIN lines |-> lines[i][1]] = Transform!Expected(2, n)
  BY KeysAre, Zenon
<1>7. PICK fs : fs = Transform!FeatureLines(lines)
  OBVIOUS
<1>8. /\ DOMAIN fs = 1 .. n
      /\ \A i \in 1 .. n : fs[i] = Transform!FeatureLine(m.features[i], i - 1)
  <2>1. PICK r : r = Transform!ReadMetadata(lines)
    OBVIOUS
  <2>2. FeaturesSay(fs, m, n)
    BY <1>7, <2>1, ReadsFields, Zenon
  <2> QED
    BY <2>2, Zenon DEF FeaturesSay
<1>9. Transform!MetadataReads(lines) <=>
        \A i \in DOMAIN fs : Transform!FeatureReads(fs[i], i - 1)
  <2>1. 2 \in {1, 2}
    OBVIOUS
  <2> QED
    BY <1>1, <1>2, <1>4, <1>5, <1>6, <1>7, <2>1, Zenon DEF Transform!MetadataReads
<1>10. ASSUME NEW i \in 1 .. n
       PROVE  Transform!FeatureReads(fs[i], i - 1) <=>
                /\ Transform!Readable(m.features[i].offset)
                /\ Transform!Readable(m.features[i].scale)
                /\ Transform!Readable(m.features[i].impute)
  <2>1. PICK line : line = fs[i]
    OBVIOUS
  <2>2. line = <<"feature", i - 1, m.features[i].offset, m.features[i].scale,
                 m.features[i].impute>>
    BY <1>8, <2>1, Zenon DEF Transform!FeatureLine
  <2>3. /\ line[2] = i - 1 /\ line[3] = m.features[i].offset
        /\ line[4] = m.features[i].scale /\ line[5] = m.features[i].impute
    BY <2>2
  <2>4. Transform!FeatureReads(line, i - 1) <=>
          \A j \in 3 .. 5 : Transform!Readable(line[j])
    BY <2>3, Zenon DEF Transform!FeatureReads
  <2>5. 3 .. 5 = {3, 4, 5}
    OBVIOUS
  <2>6. (\A j \in 3 .. 5 : Transform!Readable(line[j])) <=>
          Transform!Readable(line[3]) /\ Transform!Readable(line[4])
            /\ Transform!Readable(line[5])
    BY <2>5, Zenon
  <2> QED
    BY <2>1, <2>3, <2>4, <2>6, Zenon
<1> QED
  BY <1>1, <1>8, <1>9, <1>10, Zenon DEF AllReadable

LEMMA LoadsAgain ==
  ASSUME NEW m, NEW n, Written(m, n), NEW lines, lines = Transform!WriteMetadata(m)
  PROVE  Transform!Loads(lines) <=> AllReadable(m.features)
<1>1. PICK r : r = Transform!ReadMetadata(lines)
  OBVIOUS
<1>2. n \in Nat /\ n > 0 /\ Transform!MetadataValid(m) /\ m.version = 2
      /\ DOMAIN m.features = 1 .. n
  BY WrittenIs, Zenon
<1>3. Alike(r, m, n)
  BY <1>1, ReadsFields, Zenon
<1>4. Len(r.features) = n /\ DOMAIN r.features = 1 .. n
  <2>1. PICK features : features = r.features
    OBVIOUS
  <2>2. Tuple(features, n)
    BY <1>3, <2>1, Zenon DEF Alike
  <2> QED
    BY <2>1, <2>2, TupleIs, Zenon
<1>5. r.features # <<>>
  BY <1>2, <1>4
<1>6. ASSUME NEW i \in 1 .. n
      PROVE  Transform!FeatureValid(r.features[i], r.normalization)
  <2>1. Transform!FeatureValid(m.features[i], m.normalization)
    BY <1>2, Zenon DEF Transform!MetadataValid
  <2> QED
    BY <1>3, <2>1, Zenon DEF Transform!FeatureValid, Alike
<1>7. Transform!MetadataValid(r)
  <2>1. r.version \in {1, 2}
    BY <1>3 DEF Alike
  <2> QED
    BY <1>2, <1>3, <1>4, <1>5, <1>6, <2>1, Zenon
    DEF Transform!MetadataValid, Alike
<1> QED
  BY <1>1, <1>7, ReadsAgain, Zenon DEF Transform!Loads

PreparesAs(r, m, row) ==
  /\ Transform!CanPrepare(<<r>>, row)
  /\ Transform!Apply(r, row) = Transform!Apply(m, row)

LEMMA AppliesAlike ==
  ASSUME NEW m, NEW n, Written(m, n), NEW r,
         r = Transform!ReadMetadata(Transform!WriteMetadata(m)),
         NEW row, Tuple(row, n), Transform!CanApply(m, row)
  PROVE  PreparesAs(r, m, row)
<1>1. Alike(r, m, n)
  BY ReadsFields, Zenon
<1>2. Len(r.features) = n /\ Len(row) = n /\ DOMAIN row = 1 .. n
  <2>1. PICK features : features = r.features
    OBVIOUS
  <2>2. Tuple(features, n)
    BY <1>1, <2>1, Zenon DEF Alike
  <2> QED
    BY <2>1, <2>2, TupleIs, Zenon
<1>3. ASSUME NEW i \in 1 .. n
      PROVE  Transform!Transformed(r, i, row[i]) = Transform!Transformed(m, i, row[i])
  BY <1>1, Zenon DEF Transform!Transformed, Alike
<1>4. Transform!CanApply(r, row)
  BY <1>1, <1>2, <1>3, Zenon DEF Transform!CanApply, Alike
<1>5. Transform!Apply(r, row) = Transform!Apply(m, row)
  BY <1>2, <1>3, Zenon DEF Transform!Apply
<1>6. <<r>> # <<>> /\ <<r>>[1] = r
  OBVIOUS
<1>7. Transform!CanPrepare(<<r>>, row)
  BY <1>2, <1>4, <1>6, Zenon DEF Transform!CanPrepare
<1> QED
  BY <1>5, <1>7, Zenon DEF PreparesAs

LEMMA MetadataIsWritten ==
  ASSUME ImportInv, RecordedInv, place = "done"
  PROVE  Written(metadata, Project.inputs)
<1>1. Project.inputs \in Nat
  BY DEF ImportInv, FilesSound
<1>2. /\ metadata.version = 2 /\ Transform!MetadataValid(metadata)
      /\ Tuple(metadata.features, Project.inputs)
      /\ metadata.stratified \in BOOLEAN
  BY Zenon DEF RecordedInv, MetadataSound
<1>3. Project.inputs # 0
  <2> SUFFICES ASSUME Project.inputs = 0 PROVE FALSE
    OBVIOUS
  <2>1. PICK features : features = metadata.features
    OBVIOUS
  <2>2. Tuple(features, 0) /\ features # <<>>
    BY <1>2, <2>1, Zenon DEF Transform!MetadataValid
  <2>3. features = [i \in 1 .. 0 |-> features[i]]
    BY <2>2, Zenon DEF Tuple
  <2>4. features = <<>>
    BY <2>3
  <2> QED
    BY <2>2, <2>4
<1>4. Project.inputs \in Nat \ {0}
  BY <1>1, <1>3
<1> QED
  BY <1>2, <1>4, Zenon DEF Written

LEMMA PreparesAlike ==
  ImportInv /\ RecordedInv => (Len(csvFile) <= 2 => PreparedAlike)
<1> SUFFICES ASSUME ImportInv, RecordedInv, Len(csvFile) <= 2 PROVE PreparedAlike
  OBVIOUS
<1>1. SUFFICES ASSUME place = "done" PROVE PreparedAlike
  BY DEF PreparedAlike
<1>2. Written(metadata, Project.inputs)
  BY <1>1, MetadataIsWritten, Zenon
<1>3. stored.metadata = Transform!WriteMetadata(metadata)
  BY <1>1 DEF RecordedInv, StoredIs
<1>4. PICK lines : lines = stored.metadata
  OBVIOUS
<1>5. PICK r : r = Transform!ReadMetadata(lines)
  OBVIOUS
<1>6. Transform!Loads(lines) <=> AllReadable(metadata.features)
  BY <1>2, <1>3, <1>4, LoadsAgain, Zenon
<1>7. Transform!Loads(lines) =
        \A f \in DOMAIN metadata.features :
          /\ Transform!Readable(metadata.features[f].offset)
          /\ Transform!Readable(metadata.features[f].scale)
          /\ Transform!Readable(metadata.features[f].impute)
  BY <1>6, Zenon DEF AllReadable, Transform!Loads
<1>8. InstalledIsRecorded
  BY ReachesRecord
<1>9. ASSUME NEW part \in Parts, NEW k \in DOMAIN OrderOf(part)
      PROVE  LET raw == Source[OrderOf(part)[k]].inputs
             IN  /\ Transform!CanPrepare(<<r>>, raw)
                 /\ stored.datasets[part][k].inputs = Transform!Apply(<<r>>[1], raw)
  <2>1. PICK i : i = OrderOf(part)[k]
    OBVIOUS
  <2>2. i \in 1 .. Len(table)
    BY <1>1, <2>1, OrderIs, Zenon
  <2>3. PICK raw : raw = Source[i].inputs
    OBVIOUS
  <2>4. RowTyped(Source[i]) /\ Transform!CanApply(metadata, Source[i].inputs)
    BY <1>1, <2>2, DoneIs, Zenon
  <2>5. Tuple(raw, Project.inputs) /\ Transform!CanApply(metadata, raw)
    BY <2>3, <2>4, Zenon DEF RowTyped
  <2>6. /\ Transform!CanPrepare(<<r>>, raw)
        /\ Transform!Apply(r, raw) = Transform!Apply(metadata, raw)
    <3>1. r = Transform!ReadMetadata(Transform!WriteMetadata(metadata))
      BY <1>3, <1>4, <1>5, Zenon
    <3>2. PreparesAs(r, metadata, raw)
      BY <1>2, <2>5, <3>1, AppliesAlike, Zenon
    <3> QED
      BY <3>2, Zenon DEF PreparesAs
  <2>7. stored.datasets[part] =
          [j \in DOMAIN OrderOf(part) |->
             [inputs |-> Transform!Apply(metadata, Source[OrderOf(part)[j]].inputs),
              outputs |-> Source[OrderOf(part)[j]].outputs]]
    BY <1>1, <1>8, Zenon DEF InstalledIsRecorded
  <2>8. stored.datasets[part][k] =
          [inputs |-> Transform!Apply(metadata, raw), outputs |-> Source[i].outputs]
    BY <2>1, <2>3, <2>7, Zenon
  <2>9. stored.datasets[part][k].inputs = Transform!Apply(metadata, raw)
    BY <2>8
  <2>10. <<r>>[1] = r
    OBVIOUS
  <2> QED
    BY <2>1, <2>3, <2>6, <2>9, <2>10, Zenon
<1> QED
  BY <1>4, <1>5, <1>7, <1>9, Zenon DEF PreparedAlike

(* A prediction prepares the raw inputs of a row as the import did, once    *)
(* it can load the file (neural_prediction_prepare_inputs).                 *)
THEOREM ImportPreparesAlike ==
  ImportSpec => [](Len(csvFile) <= 2 => PreparedAlike)
  BY RecordingHolds, PreparesAlike, PTL

-----------------------------------------------------------------------------
(* The scanner of lines.                                                    *)

ScanShape(s) ==
  s = [buffer |-> s.buffer, read |-> s.read, write |-> s.write,
       field |-> s.field, fields |-> s.fields, mode |-> s.mode]

(* Each of the fields but the first starts behind the end of the earlier.   *)
Following(b, fs, n) ==
  /\ Tuple(fs, Len(fs))
  /\ \A i \in 1 .. Len(fs) :
       /\ fs[i] \in 1 .. n
       /\ i > 1 => fs[i - 1] < fs[i] /\ b[fs[i] - 1] = Line!Nul

(* Where the field starts that is looked for or read.                       *)
Beginning(s) == IF s.mode = "start" THEN s.write ELSE s.field

Pending(s, n) ==
  /\ s.read \in 1 .. n /\ s.write \in 1 .. s.read
  /\ Beginning(s) \in 1 .. s.write
  /\ \A i \in 1 .. Len(s.fields) : s.fields[i] < Beginning(s)
  /\ Len(s.fields) # 0 => s.buffer[Beginning(s) - 1] = Line!Nul

ScanSound(s, n) ==
  /\ ScanShape(s)
  /\ s.mode \in {"start", "quoted", "plain", "closed", "done", "refused"}
  /\ Tuple(s.buffer, n) /\ s.buffer[n] = Line!Nul
  /\ Following(s.buffer, s.fields, n)
  /\ ~Line!Ended(s) => Pending(s, n)

UpTo(fs, x) == \A i \in 1 .. Len(fs) : fs[i] <= x

LEMMA MoreFields ==
  ASSUME NEW n \in Nat, NEW b, NEW fs, Following(b, fs, n), NEW x \in 1 .. n,
         \A i \in 1 .. Len(fs) : fs[i] < x,
         Len(fs) # 0 => b[x - 1] = Line!Nul, NEW gs, gs = Append(fs, x)
  PROVE  Following(b, gs, n) /\ UpTo(gs, x)
<1>1. PICK m \in Nat : m = Len(fs) /\ Tuple(fs, m)
  BY DEF Following, Tuple
<1>2. /\ Tuple(gs, m + 1) /\ gs[m + 1] = x
      /\ \A i \in 1 .. m : gs[i] = fs[i]
  BY <1>1, AppendIs
<1>3. Len(gs) = m + 1
  BY <1>2, TupleIs
<1>4. ASSUME NEW i \in 1 .. m + 1
      PROVE  /\ gs[i] \in 1 .. n /\ gs[i] <= x
             /\ i > 1 => gs[i - 1] < gs[i] /\ b[gs[i] - 1] = Line!Nul
  <2>1. CASE i \in 1 .. m
    <3>1. gs[i] = fs[i] /\ (i > 1 => gs[i - 1] = fs[i - 1])
      BY <1>1, <1>2, <2>1
    <3>2. /\ fs[i] \in 1 .. n /\ fs[i] < x
          /\ i > 1 => fs[i - 1] < fs[i] /\ b[fs[i] - 1] = Line!Nul
      BY <1>1, <2>1 DEF Following
    <3>3. gs[i] \in 1 .. n /\ gs[i] <= x
      BY <3>1, <3>2
    <3> QED
      BY <3>1, <3>2, <3>3, Zenon
  <2>2. CASE i = m + 1
    <3>1. gs[i] = x
      BY <1>2, <2>2
    <3>2. ASSUME i > 1 PROVE gs[i - 1] < gs[i] /\ b[gs[i] - 1] = Line!Nul
      <4>1. i - 1 = m /\ m \in 1 .. m /\ m # 0
        BY <1>1, <2>2, <3>2
      <4>2. gs[m] = fs[m] /\ fs[m] < x
        BY <1>1, <1>2, <4>1
      <4> QED
        BY <1>1, <3>1, <4>1, <4>2
    <3>3. gs[i] \in 1 .. n /\ gs[i] <= x
      BY <3>1
    <3> QED
      BY <3>2, <3>3, Zenon
  <2> QED
    BY <1>1, <2>1, <2>2
<1> QED
  BY <1>2, <1>3, <1>4 DEF Following, UpTo

(* What becomes of the buffer "b" and the fields when "c" is written.       *)
Wrote(d, b, n, w, c, fs) ==
  /\ Following(d, fs, n) /\ Tuple(d, n) /\ d[w] = c
  /\ \A i \in 1 .. n : i # w => d[i] = b[i]

LEMMA WrittenBehind ==
  ASSUME NEW n \in Nat, NEW b, Tuple(b, n), NEW fs, Following(b, fs, n),
         NEW w \in 1 .. n, UpTo(fs, w), NEW c, NEW d, d = [b EXCEPT ![w] = c]
  PROVE  Wrote(d, b, n, w, c, fs)
<1>1. DOMAIN b = 1 .. n
  BY TupleIs
<1>2. Tuple(d, n) /\ d[w] = c /\ \A i \in 1 .. n : i # w => d[i] = b[i]
  BY <1>1 DEF Tuple
<1>3. ASSUME NEW i \in 1 .. Len(fs), i > 1
      PROVE  fs[i - 1] < fs[i] /\ d[fs[i] - 1] = Line!Nul
  <2>1. Len(fs) \in Nat
    BY DEF Following, Tuple
  <2>2. /\ fs[i] \in 1 .. n /\ fs[i] <= w
        /\ fs[i - 1] < fs[i] /\ b[fs[i] - 1] = Line!Nul
    BY <1>3 DEF Following, UpTo
  <2>3. fs[i - 1] \in 1 .. n
    <3>1. i - 1 \in 1 .. Len(fs)
      BY <1>3, <2>1
    <3> QED
      BY <3>1 DEF Following
  <2>4. fs[i] - 1 \in 1 .. n /\ fs[i] - 1 # w
    BY <2>2, <2>3
  <2> QED
    BY <1>2, <2>2, <2>4
<1>4. Following(d, fs, n)
  BY <1>3 DEF Following
<1> QED
  BY <1>2, <1>4 DEF Wrote

LEMMA PutIs ==
  ASSUME NEW s, ScanShape(s), NEW c, NEW k, NEW t, t = Line!Put(s, c, k)
  PROVE  t = [buffer |-> [s.buffer EXCEPT ![s.write] = c], read |-> s.read + k,
              write |-> s.write + 1, field |-> s.field, fields |-> s.fields,
              mode |-> s.mode]
  BY DEF ScanShape, Line!Put

(* A character that is not the end is followed by another.                  *)
LEMMA ReadsFurther ==
  ASSUME NEW n \in Nat, NEW s, ScanSound(s, n), ~Line!Ended(s),
         Line!At(s) # Line!Nul
  PROVE  s.read + 1 \in 1 .. n
  BY DEF ScanSound, Pending, Line!At

LEMMA PutKeepsSound ==
  ASSUME NEW n \in Nat, NEW s, ScanSound(s, n), s.mode \in {"quoted", "plain"},
         NEW c, NEW k \in {1, 2}, s.read + k \in 1 .. n,
         NEW t, t = Line!Put(s, c, k)
  PROVE  ScanSound(t, n) /\ t.mode = s.mode /\ t.read = s.read + k
<1>1. /\ ScanShape(s) /\ Tuple(s.buffer, n) /\ s.buffer[n] = Line!Nul
      /\ Following(s.buffer, s.fields, n) /\ Pending(s, n)
  BY DEF ScanSound, Line!Ended
<1>2. /\ s.read \in 1 .. n /\ s.write \in 1 .. s.read /\ s.field \in 1 .. s.write
      /\ \A i \in 1 .. Len(s.fields) : s.fields[i] < s.field
      /\ Len(s.fields) # 0 => s.buffer[s.field - 1] = Line!Nul
  BY <1>1 DEF Pending, Beginning
<1>3. PICK d : d = [s.buffer EXCEPT ![s.write] = c]
  OBVIOUS
<1>4. PICK w \in 1 .. n : w = s.write /\ w # n
  BY <1>2
<1>5. UpTo(s.fields, w)
  BY <1>1, <1>2, <1>4 DEF Following, UpTo
<1>6. /\ Following(d, s.fields, n) /\ Tuple(d, n)
      /\ \A i \in 1 .. n : i # w => d[i] = s.buffer[i]
  <2>1. Wrote(d, s.buffer, n, w, c, s.fields)
    BY <1>1, <1>3, <1>4, <1>5, WrittenBehind
  <2> QED
    BY <2>1, Zenon DEF Wrote
<1>7. t = [buffer |-> d, read |-> s.read + k, write |-> w + 1, field |-> s.field,
           fields |-> s.fields, mode |-> s.mode]
  BY <1>1, <1>3, <1>4, PutIs
<1>8. /\ t.buffer = d /\ t.read = s.read + k /\ t.write = w + 1 /\ t.field = s.field
      /\ t.fields = s.fields /\ t.mode = s.mode /\ ScanShape(t)
  BY <1>7 DEF ScanShape
<1>9. d[n] = Line!Nul
  BY <1>1, <1>2, <1>4, <1>6
<1>10. Len(s.fields) # 0 => d[s.field - 1] = Line!Nul
  <2> SUFFICES ASSUME Len(s.fields) # 0 PROVE d[s.field - 1] = Line!Nul
    OBVIOUS
  <2>1. 1 \in 1 .. Len(s.fields)
    BY <1>1 DEF Following, Tuple
  <2>2. s.fields[1] \in 1 .. n /\ s.fields[1] < s.field
    BY <1>1, <1>2, <2>1 DEF Following
  <2>3. s.field - 1 \in 1 .. n /\ s.field - 1 # w
    BY <1>2, <1>4, <2>2
  <2> QED
    BY <1>2, <1>6, <2>3
<1>11. Pending(t, n)
  <2>1. Beginning(t) = s.field
    BY <1>8 DEF Beginning
  <2>2. t.read \in 1 .. n /\ t.write \in 1 .. t.read /\ s.field \in 1 .. t.write
    BY <1>2, <1>4, <1>8
  <2> QED
    BY <1>2, <1>8, <1>10, <2>1, <2>2 DEF Pending
<1> QED
  BY <1>6, <1>8, <1>9, <1>11 DEF ScanSound

LEMMA EndKeepsSound ==
  ASSUME NEW n \in Nat, NEW s, ScanSound(s, n), s.mode \in {"closed", "plain"},
         Line!At(s) \in {Line!Comma, Line!Nul}, NEW t, t = Line!EndField(s)
  PROVE  /\ ScanSound(t, n)
         /\ t.mode = "done" \/ (t.mode = "start" /\ t.read = s.read + 1)
<1>1. /\ ScanShape(s) /\ Tuple(s.buffer, n) /\ s.buffer[n] = Line!Nul
      /\ Following(s.buffer, s.fields, n) /\ Pending(s, n)
  BY DEF ScanSound, Line!Ended
<1>2. /\ s.read \in 1 .. n /\ s.write \in 1 .. s.read /\ s.field \in 1 .. s.write
      /\ \A i \in 1 .. Len(s.fields) : s.fields[i] < s.field
      /\ Len(s.fields) # 0 => s.buffer[s.field - 1] = Line!Nul
  BY <1>1 DEF Pending, Beginning
<1>3. PICK w \in 1 .. n : w = s.write
  BY <1>2
<1>4. PICK d : d = [s.buffer EXCEPT ![w] = Line!Nul]
  OBVIOUS
<1>5. PICK gs : gs = Append(s.fields, s.field)
  OBVIOUS
<1>6. Following(s.buffer, gs, n) /\ UpTo(gs, w)
  <2>1. s.field \in 1 .. n
    BY <1>2
  <2>2. Following(s.buffer, gs, n) /\ UpTo(gs, s.field)
    BY <1>1, <1>2, <1>5, <2>1, MoreFields
  <2>3. \A i \in 1 .. Len(gs) : gs[i] \in 1 .. n
    BY <2>2 DEF Following
  <2> QED
    BY <1>2, <1>3, <2>2, <2>3 DEF UpTo
<1>7. /\ Following(d, gs, n) /\ Tuple(d, n) /\ d[w] = Line!Nul
      /\ \A i \in 1 .. n : i # w => d[i] = s.buffer[i]
  <2>1. Wrote(d, s.buffer, n, w, Line!Nul, gs)
    BY <1>1, <1>4, <1>6, WrittenBehind
  <2> QED
    BY <2>1, Zenon DEF Wrote
<1>8. d[n] = Line!Nul
  BY <1>1, <1>2, <1>7
<1>9. PICK k : k = IF Line!At(s) = Line!Comma THEN 1 ELSE 0
  OBVIOUS
<1>10. PICK e :
         e = [Line!Put(s, Line!Nul, IF Line!At(s) = Line!Comma THEN 1 ELSE 0)
                EXCEPT !.fields = Append(@, s.field)]
  OBVIOUS
<1>11. e = [buffer |-> d, read |-> s.read + k, write |-> w + 1, field |-> s.field,
            fields |-> gs, mode |-> s.mode]
  <2>1. PICK p : p = Line!Put(s, Line!Nul, IF Line!At(s) = Line!Comma THEN 1 ELSE 0)
    OBVIOUS
  <2>2. p = [buffer |-> d, read |-> s.read + k, write |-> w + 1, field |-> s.field,
             fields |-> s.fields, mode |-> s.mode]
    BY <1>1, <1>3, <1>4, <1>9, <2>1, PutIs
  <2>3. e = [p EXCEPT !.fields = Append(@, s.field)]
    BY <1>10, <2>1, Zenon
  <2>4. Append(p.fields, s.field) = gs
    BY <1>5, <2>2
  <2>5. e = [p EXCEPT !.fields = gs]
    BY <2>3, <2>4, Zenon
  <2> QED
    BY <2>2, <2>5
<1>12. t = IF ~(Line!At(s) = Line!Comma) THEN [e EXCEPT !.mode = "done"]
           ELSE IF Line!At(e) = Line!Nul
             THEN [e EXCEPT !.mode = "done", !.fields = Append(@, e.write),
                            !.buffer[e.write] = Line!Nul]
           ELSE [e EXCEPT !.mode = "start"]
  BY <1>10 DEF Line!EndField
<1>13. CASE Line!At(s) # Line!Comma
  <2>1. t = [buffer |-> d, read |-> s.read + k, write |-> w + 1, field |-> s.field,
             fields |-> gs, mode |-> "done"]
    BY <1>11, <1>12, <1>13
  <2> QED
    BY <1>7, <1>8, <2>1 DEF ScanSound, ScanShape, Line!Ended
<1>14. CASE Line!At(s) = Line!Comma
  <2>1. k = 1 /\ s.read + 1 \in 1 .. n
    <3>1. Line!At(s) # Line!Nul
      BY <1>14 DEF Line!Comma, Line!Nul
    <3> QED
      BY <1>9, <1>14, <3>1, ReadsFurther DEF Line!Ended
  <2>2. CASE Line!At(e) # Line!Nul
    <3>1. t = [buffer |-> d, read |-> s.read + 1, write |-> w + 1, field |-> s.field,
               fields |-> gs, mode |-> "start"]
      BY <1>11, <1>12, <1>14, <2>1, <2>2
    <3>2. /\ t.buffer = d /\ t.read = s.read + 1 /\ t.write = w + 1
          /\ t.fields = gs /\ t.mode = "start" /\ ScanShape(t)
      BY <3>1 DEF ScanShape
    <3>3. Beginning(t) = w + 1
      BY <3>2 DEF Beginning
    <3>4. \A i \in 1 .. Len(gs) : gs[i] < w + 1
      BY <1>6 DEF Following, UpTo
    <3>5. t.read \in 1 .. n /\ t.write \in 1 .. t.read /\ w + 1 \in 1 .. t.write
          /\ w + 1 - 1 = w
      BY <1>2, <1>3, <2>1, <3>2
    <3>6. Pending(t, n)
      BY <1>7, <3>2, <3>3, <3>4, <3>5 DEF Pending
    <3> QED
      BY <1>7, <1>8, <3>2, <3>6 DEF ScanSound
  <2>3. CASE Line!At(e) = Line!Nul
    <3>1. PICK x \in 1 .. n : x = w + 1
      BY <1>2, <1>3, <2>1
    <3>2. PICK hs : hs = Append(gs, x)
      OBVIOUS
    <3>3. Following(d, hs, n) /\ UpTo(hs, x)
      <4>1. \A i \in 1 .. Len(gs) : gs[i] < x
        BY <1>6, <3>1 DEF Following, UpTo
      <4>2. d[x - 1] = Line!Nul
        BY <1>7, <3>1
      <4> QED
        BY <1>7, <3>2, <4>1, <4>2, MoreFields
    <3>4. PICK c : c = [d EXCEPT ![x] = Line!Nul]
      OBVIOUS
    <3>5. /\ Following(c, hs, n) /\ Tuple(c, n) /\ c[x] = Line!Nul
          /\ \A i \in 1 .. n : i # x => c[i] = d[i]
      <4>1. Wrote(c, d, n, x, Line!Nul, hs)
        BY <1>7, <3>3, <3>4, WrittenBehind
      <4> QED
        BY <4>1, Zenon DEF Wrote
    <3>6. c[n] = Line!Nul
      BY <1>2, <1>8, <3>5
    <3>7. t = [buffer |-> c, read |-> s.read + 1, write |-> x, field |-> s.field,
               fields |-> hs, mode |-> "done"]
      BY <1>11, <1>12, <1>14, <2>1, <2>3, <3>1, <3>2, <3>4
    <3> QED
      BY <3>5, <3>6, <3>7 DEF ScanSound, ScanShape, Line!Ended
  <2> QED
    BY <2>2, <2>3
<1> QED
  BY <1>13, <1>14

(* At least every other step has read on.                                   *)
Counted(s, i) ==
  ~Line!Ended(s) => i <= 2 * (s.read - 1) + (IF s.mode = "start" THEN 0 ELSE 1)

(* A step that only reads on or says what is read.                          *)
LEMMA ModeKeepsSound ==
  ASSUME NEW n \in Nat, NEW s, ScanSound(s, n), ~Line!Ended(s),
         NEW t, ScanShape(t), t.buffer = s.buffer, t.fields = s.fields,
         t.write = s.write, t.field = Beginning(s),
         t.mode \in {"quoted", "plain", "closed"},
         t.read \in {s.read, s.read + 1}, t.read \in 1 .. n
  PROVE  ScanSound(t, n)
<1>1. /\ Tuple(s.buffer, n) /\ s.buffer[n] = Line!Nul
      /\ Following(s.buffer, s.fields, n) /\ Pending(s, n)
  BY DEF ScanSound
<1>2. Beginning(t) = Beginning(s)
  BY DEF Beginning
<1>3. PICK b \in 1 .. n : b = Beginning(s)
  BY <1>1 DEF Pending
<1>4. t.read \in 1 .. n /\ t.write \in 1 .. t.read /\ b \in 1 .. t.write
  BY <1>1, <1>3 DEF Pending
<1>5. Pending(t, n)
  BY <1>1, <1>2, <1>3, <1>4 DEF Pending
<1> QED
  BY <1>1, <1>5 DEF ScanSound

LEMMA ScanKeepsSound ==
  ASSUME NEW n \in Nat, NEW s, ScanSound(s, n), NEW i \in Nat, Counted(s, i),
         NEW t, t = Line!Scan(s)
  PROVE  ScanSound(t, n) /\ Counted(t, i + 1)
<1>1. ScanShape(s)
  BY DEF ScanSound
<1>2. PICK r : r = s.read
  OBVIOUS
<1>3. ~Line!Ended(s) => r \in 1 .. n /\ s.read \in 1 .. n
  BY <1>2 DEF ScanSound, Pending
<1>4. CASE s.mode = "start"
  <2>1. t = IF Line!At(s) = Line!Quote
              THEN [s EXCEPT !.field = s.write, !.read = @ + 1, !.mode = "quoted"]
              ELSE [s EXCEPT !.field = s.write, !.mode = "plain"]
    BY <1>4, Zenon DEF Line!Scan, Line!Start
  <2>2. /\ ~Line!Ended(s) /\ Beginning(s) = s.write /\ i <= 2 * (r - 1)
        /\ r \in 1 .. n
    BY <1>2, <1>3, <1>4 DEF Line!Ended, Beginning, Counted
  <2>3. CASE Line!At(s) = Line!Quote
    <3>1. t = [buffer |-> s.buffer, read |-> s.read + 1, write |-> s.write,
               field |-> s.write, fields |-> s.fields, mode |-> "quoted"]
      BY <1>1, <2>1, <2>3 DEF ScanShape
    <3>2. s.read + 1 \in 1 .. n
      BY <2>2, <2>3, ReadsFurther DEF Line!Quote, Line!Nul
    <3>3. ScanSound(t, n)
      BY <2>2, <3>1, <3>2, ModeKeepsSound DEF ScanShape
    <3> QED
      BY <1>2, <2>2, <3>1, <3>3 DEF Counted
  <2>4. CASE Line!At(s) # Line!Quote
    <3>1. t = [buffer |-> s.buffer, read |-> s.read, write |-> s.write,
               field |-> s.write, fields |-> s.fields, mode |-> "plain"]
      BY <1>1, <2>1, <2>4 DEF ScanShape
    <3>2. ScanSound(t, n)
      BY <1>2, <2>2, <3>1, ModeKeepsSound DEF ScanShape
    <3> QED
      BY <1>2, <2>2, <3>1, <3>2 DEF Counted
  <2> QED
    BY <2>3, <2>4
<1>5. CASE s.mode \in {"quoted", "plain", "closed"}
  <2>1. ~Line!Ended(s) /\ i <= 2 * (r - 1) + 1 /\ r \in 1 .. n
        /\ Beginning(s) = s.field
    BY <1>2, <1>3, <1>5 DEF Line!Ended, Counted, Beginning
  <2>2. CASE t = Line!Refuse(s)
    <3>1. t = [buffer |-> s.buffer, read |-> s.read, write |-> s.write,
               field |-> s.field, fields |-> s.fields, mode |-> "refused"]
      BY <1>1, <2>2 DEF ScanShape, Line!Refuse
    <3> QED
      BY <3>1 DEF ScanSound, ScanShape, Line!Ended, Counted
  <2>3. CASE \E k \in {1, 2} : \E c :
               /\ t = Line!Put(s, c, k) /\ s.mode \in {"quoted", "plain"}
               /\ s.read + k \in 1 .. n
    <3>1. PICK k \in {1, 2} : \E c :
            /\ t = Line!Put(s, c, k) /\ s.mode \in {"quoted", "plain"}
            /\ s.read + k \in 1 .. n
      BY <2>3
    <3>2. ScanSound(t, n) /\ t.mode = s.mode /\ t.read = s.read + k
      BY <3>1, PutKeepsSound
    <3> QED
      BY <1>2, <2>1, <3>1, <3>2 DEF Counted
  <2>4. CASE /\ t = Line!EndField(s) /\ s.mode \in {"plain", "closed"}
             /\ Line!At(s) \in {Line!Comma, Line!Nul}
    <3>1. /\ ScanSound(t, n)
          /\ t.mode = "done" \/ (t.mode = "start" /\ t.read = s.read + 1)
      BY <2>4, EndKeepsSound
    <3> QED
      BY <1>2, <2>1, <3>1 DEF Counted, Line!Ended
  <2>5. CASE s.mode = "quoted"
    <3>1. t = Line!Quoted(s)
      BY <2>5, Zenon DEF Line!Scan
    <3>2. CASE Line!At(s) = Line!Nul
      <4>1. t = Line!Refuse(s)
        BY <3>1, <3>2 DEF Line!Quoted, Line!Quote, Line!Nul
      <4> QED
        BY <2>2, <4>1
    <3>3. CASE Line!At(s) # Line!Nul
      <4>1. s.read + 1 \in 1 .. n
        BY <2>1, <3>3, ReadsFurther
      <4>2. CASE Line!At(s) = Line!Quote /\ s.buffer[s.read + 1] = Line!Quote
        <5>1. t = Line!Put(s, Line!Quote, 2)
          BY <3>1, <3>3, <4>2 DEF Line!Quoted
        <5>2. s.read + 1 # n
          BY <4>2 DEF ScanSound, Line!Quote, Line!Nul
        <5>3. s.read + 2 \in 1 .. n
          BY <1>2, <2>1, <4>1, <5>2
        <5> QED
          BY <2>3, <2>5, <5>1, <5>3
      <4>3. CASE Line!At(s) = Line!Quote /\ s.buffer[s.read + 1] # Line!Quote
        <5>1. t = [s EXCEPT !.read = @ + 1, !.mode = "closed"]
          BY <3>1, <3>3, <4>3 DEF Line!Quoted
        <5>2. t = [buffer |-> s.buffer, read |-> s.read + 1, write |-> s.write,
                   field |-> s.field, fields |-> s.fields, mode |-> "closed"]
          BY <1>1, <5>1 DEF ScanShape
        <5>3. ScanSound(t, n)
          BY <2>1, <4>1, <5>2, ModeKeepsSound DEF ScanShape
        <5> QED
          BY <1>2, <2>1, <5>2, <5>3 DEF Counted
      <4>4. CASE Line!At(s) # Line!Quote
        <5>1. t = Line!Put(s, Line!At(s), 1)
          BY <3>1, <3>3, <4>4 DEF Line!Quoted
        <5> QED
          BY <2>3, <2>5, <4>1, <5>1
      <4> QED
        BY <4>2, <4>3, <4>4
    <3> QED
      BY <3>2, <3>3
  <2>6. CASE s.mode = "plain"
    <3>1. t = Line!Plain(s)
      BY <2>6 DEF Line!Scan
    <3>2. CASE Line!At(s) \in {Line!Comma, Line!Nul}
      <4>1. t = Line!EndField(s)
        BY <3>1, <3>2 DEF Line!Plain, Line!Quote, Line!Comma, Line!Nul
      <4> QED
        BY <2>4, <2>6, <3>2, <4>1
    <3>3. CASE Line!At(s) \notin {Line!Comma, Line!Nul} /\ Line!At(s) = Line!Quote
      <4>1. t = Line!Refuse(s)
        BY <3>1, <3>3 DEF Line!Plain
      <4> QED
        BY <2>2, <4>1
    <3>4. CASE Line!At(s) \notin {Line!Comma, Line!Nul} /\ Line!At(s) # Line!Quote
      <4>1. t = Line!Put(s, Line!At(s), 1)
        BY <3>1, <3>4 DEF Line!Plain
      <4>2. s.read + 1 \in 1 .. n
        BY <2>1, <3>4, ReadsFurther
      <4> QED
        BY <2>3, <2>6, <4>1, <4>2
    <3> QED
      BY <3>2, <3>3, <3>4
  <2>7. CASE s.mode = "closed"
    <3>1. t = Line!Closed(s)
      BY <2>7 DEF Line!Scan
    <3>2. CASE Line!At(s) \in {Line!Comma, Line!Nul}
      <4>1. t = Line!EndField(s)
        BY <3>1, <3>2, Zenon DEF Line!Closed
      <4> QED
        BY <2>4, <2>7, <3>2, <4>1
    <3>3. CASE Line!At(s) \notin {Line!Comma, Line!Nul}
      <4>1. t = Line!Refuse(s)
        BY <3>1, <3>3, Zenon DEF Line!Closed
      <4> QED
        BY <2>2, <4>1
    <3> QED
      BY <3>2, <3>3
  <2> QED
    BY <1>5, <2>5, <2>6, <2>7
<1>6. CASE s.mode \in {"done", "refused"}
  <2>1. t = s
    BY <1>6 DEF Line!Scan
  <2> QED
    BY <1>6, <2>1 DEF Counted, Line!Ended
<1> QED
  BY <1>4, <1>5, <1>6 DEF ScanSound


(* "g" are the states of the scanner after up to n steps.                   *)
ScannedUpTo(g, line, n) ==
  /\ g = [i \in 0 .. n |-> g[i]]
  /\ g[0] = Line!Started(line)
  /\ \A i \in 1 .. n : g[i] = Line!Scan(g[i - 1])

LEMMA ScannedAre ==
  ASSUME NEW line, NEW N \in Nat, N = Line!Steps(line)
  PROVE  ScannedUpTo(Line!Scanning(line), line, N)
<1> DEFINE Step(g) == [n \in 0 .. N |-> IF n = 0 THEN Line!Started(line)
                                        ELSE Line!Scan(g[n - 1])]
           S == {n \in Nat : \E g : ScannedUpTo(g, line, n)}
<1>1. 0 \in S
  <2> DEFINE g == [i \in 0 .. 0 |-> Line!Started(line)]
  <2>1. ScannedUpTo(g, line, 0)
    BY DEF ScannedUpTo
  <2> QED
    BY <2>1
<1>2. ASSUME NEW n \in 1 .. N, n - 1 \in S PROVE n \in S
  <2>1. PICK g : ScannedUpTo(g, line, n - 1)
    BY <1>2
  <2> DEFINE h == [i \in 0 .. n |-> IF i = n THEN Line!Scan(g[n - 1]) ELSE g[i]]
  <2>2. n \in Nat /\ n # 0
    BY <1>2
  <2>3. h[0] = Line!Started(line)
    BY <2>1, <2>2 DEF ScannedUpTo
  <2>4. ASSUME NEW i \in 1 .. n PROVE h[i] = Line!Scan(h[i - 1])
    <3>1. h[i - 1] = g[i - 1]
      BY <2>2
    <3>2. CASE i = n
      BY <2>2, <3>1, <3>2
    <3>3. CASE i # n
      <4>1. i \in 1 .. n - 1 /\ i \in 0 .. n
        BY <2>2, <3>3
      <4>2. g[i] = Line!Scan(g[i - 1])
        BY <2>1, <4>1 DEF ScannedUpTo
      <4>3. h[i] = g[i]
        BY <3>3, <4>1
      <4> QED
        BY <3>1, <4>2, <4>3
    <3> QED
      BY <3>2, <3>3
  <2>5. ScannedUpTo(h, line, n)
    BY <2>3, <2>4 DEF ScannedUpTo
  <2> QED
    BY <2>2, <2>5
<1>3. N \in S
  <2> HIDE DEF S
  <2>1. 0 .. N \subseteq S
    BY <1>1, <1>2, PrefixInduction
  <2> QED
    BY <2>1
<1>4. PICK g : ScannedUpTo(g, line, N)
  BY <1>3
<1>5. g = Step(g)
  <2>1. /\ g = [i \in 0 .. N |-> g[i]] /\ g[0] = Line!Started(line)
        /\ \A i \in 1 .. N : g[i] = Line!Scan(g[i - 1])
    BY <1>4 DEF ScannedUpTo
  <2>2. \A i \in 0 .. N : i # 0 => i \in 1 .. N
    OBVIOUS
  <2> QED
    BY <2>1, <2>2
<1> DEFINE r == Line!Scanning(line)
<1>6. r = CHOOSE h : h = Step(h)
  BY DEF Line!Scanning
<1>7. r = Step(r)
  <2> HIDE DEF Step, r
  <2> QED
    BY <1>5, <1>6
<1> HIDE DEF r
<1>8. r = [i \in 0 .. N |-> r[i]] /\ r[0] = Line!Started(line)
  BY <1>7
<1>9. \A i \in 1 .. N : r[i] = Line!Scan(r[i - 1])
  BY <1>7
<1>10. ScannedUpTo(r, line, N)
  BY <1>8, <1>9 DEF ScannedUpTo
<1> QED
  BY <1>10 DEF r

Longer(t, m, e) == Tuple(t, m + 1) /\ t[m + 1] = e

LEMMA LongerIs ==
  ASSUME NEW s, NEW m, Tuple(s, m), NEW e, NEW t, t = Append(s, e)
  PROVE  Longer(t, m, e)
  BY AppendIs DEF Longer

(* The scanner of every line comes to its end in place.                     *)
LEMMA ScanIsInPlace ==
  ASSUME NEW line \in Seq(STRING)
  PROVE  Line!ScansInPlace(line)
<1>1. PICK n \in Nat : n = Len(line) + 1
  OBVIOUS
<1>2. PICK N \in Nat : N = Line!Steps(line) /\ N = 2 * n
  BY <1>1 DEF Line!Steps
<1>3. PICK g : g = Line!Scanning(line)
  OBVIOUS
<1>4. g[0] = Line!Started(line) /\ \A i \in 1 .. N : g[i] = Line!Scan(g[i - 1])
  BY <1>2, <1>3, ScannedAre DEF ScannedUpTo
<1> DEFINE S == {i \in Nat : ScanSound(g[i], n) /\ Counted(g[i], i)}
<1>5. 0 \in S
  <2>1. PICK b : b = Append(line, Line!Nul)
    OBVIOUS
  <2>2. PICK m \in Nat : m = Len(line) /\ n = m + 1
    BY <1>1
  <2>3. Tuple(b, n) /\ b[n] = Line!Nul
    <3>1. Tuple(line, m)
      BY <2>2 DEF Tuple
    <3>2. Longer(b, m, Line!Nul)
      BY <2>1, <3>1, LongerIs, Zenon
    <3>3. Tuple(b, m + 1) /\ b[m + 1] = Line!Nul
      BY <3>2, Zenon DEF Longer
    <3> QED
      BY <2>2, <3>3
  <2>4. g[0] = [buffer |-> b, read |-> 1, write |-> 1, field |-> 1,
                fields |-> <<>>, mode |-> "start"]
    BY <1>4, <2>1 DEF Line!Started
  <2>5. 1 \in 1 .. n
    BY <1>1
  <2>6. Following(b, <<>>, n)
    BY DEF Following, Tuple
  <2>7. Pending(g[0], n)
    BY <2>4, <2>5 DEF Pending, Beginning
  <2>8. ScanSound(g[0], n)
    BY <2>3, <2>4, <2>6, <2>7 DEF ScanSound, ScanShape
  <2>9. Counted(g[0], 0)
    BY <2>4 DEF Counted
  <2> QED
    BY <2>8, <2>9
<1>6. ASSUME NEW i \in 1 .. N, i - 1 \in S PROVE i \in S
  <2>1. PICK s, t : s = g[i - 1] /\ t = g[i]
    OBVIOUS
  <2>2. PICK j \in Nat : j = i - 1 /\ i = j + 1
    OBVIOUS
  <2>3. ScanSound(s, n) /\ Counted(s, j) /\ t = Line!Scan(s)
    BY <1>4, <1>6, <2>1, <2>2
  <2>4. ScanSound(t, n) /\ Counted(t, j + 1)
    BY <2>3, ScanKeepsSound
  <2> QED
    BY <2>1, <2>2, <2>4
<1>7. \A i \in 0 .. N : ScanSound(g[i], n) /\ Counted(g[i], i)
  <2>1. 0 .. N \subseteq S
    <3> HIDE DEF S
    <3> QED
      BY <1>5, <1>6, PrefixInduction
  <2> QED
    BY <2>1
<1>8. PICK s : s = g[N]
  OBVIOUS
<1>9. ScanSound(s, n) /\ Counted(s, N)
  BY <1>7, <1>8
<1>10. Line!ScanOf(line) = s
  BY <1>2, <1>3, <1>8, Zenon DEF Line!ScanOf
<1>11. Line!Ended(s)
  <2> SUFFICES ASSUME ~Line!Ended(s) PROVE FALSE
    OBVIOUS
  <2>1. s.read \in 1 .. n
    BY <1>9 DEF ScanSound, Pending
  <2>2. N <= 2 * (s.read - 1) + 1
    BY <1>9, <2>1 DEF Counted
  <2> QED
    BY <1>2, <2>1, <2>2
<1>12. ASSUME NEW i \in 0 .. N, ~Line!Ended(g[i])
       PROVE  g[i].write <= g[i].read /\ g[i].read <= n
  BY <1>7, <1>12 DEF ScanSound, Pending
<1>13. ASSUME NEW i \in 1 .. Len(s.fields)
       PROVE  /\ s.fields[i] \in 1 .. n
              /\ i > 1 => /\ s.fields[i - 1] < s.fields[i]
                          /\ s.buffer[s.fields[i] - 1] = Line!Nul
  BY <1>9 DEF ScanSound, Following
<1> QED
  BY <1>1, <1>2, <1>3, <1>9, <1>10, <1>11, <1>12, <1>13
  DEF Line!ScansInPlace, ScanSound

(* However the lines of a CSV file are quoted, cut off or edited, each that *)
(* is read is scanned to an end within its buffer, writing behind what was  *)
(* read, and its fields do not overlap (parse_csv_line).                    *)
THEOREM ImportScansInPlace ==
  ImportSpec => [](place = "rows" /\ More => Line!ScansInPlace(NextCsvLine))
<1>1. ImportInv => (place = "rows" /\ More => Line!ScansInPlace(NextCsvLine))
  BY NextLineKnown, ScanIsInPlace DEF ImportInv
<1> QED
  BY <1>1, ImportHolds, PTL
=============================================================================
