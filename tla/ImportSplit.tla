------------------------------- MODULE ImportSplit -------------------------------
(***************************************************************************)
(* How import-csv divides the rows of a CSV file into training, validation *)
(* and test samples (create_split of src/data_import.c): the division of a *)
(* quota bit by bit in size_t arithmetic, and the allocation of what is    *)
(* left to the largest remainders, first for the test and then for the     *)
(* validation samples.                                                     *)
(*                                                                         *)
(* A class is its position in the schema; numeric targets are one class.   *)
(* A ratio is abstracted to the count that floor(rows * ratio) gives.      *)
(***************************************************************************)
EXTENDS Integers, Sequences

CONSTANTS
  Bits,        \* the values of the bits of a size_t
  TopBit,      \* the greatest of them
  MaxClasses,  \* bound on the classes
  MaxRows      \* bound on the rows

Modulus == 2 * TopBit

ASSUME BitAssumption ==
  /\ Bits \subseteq Nat \ {0}
  /\ TopBit \in Bits
  /\ \A b \in Bits : b = 1 \/ (2 * (b \div 2) = b /\ b \div 2 \in Bits)

ASSUME BoundAssumption ==
  MaxClasses \in Nat /\ MaxRows \in Nat /\ MaxRows < Modulus

Size == 0 .. Modulus - 1

Wrap(n) == n % Modulus

Subsets == {"test", "validation"}

VARIABLES
  rows,        \* rows of the CSV file
  sizes,       \* rows of each class
  target,      \* samples wanted in each held-out subset
  requested,   \* whether its ratio was positive
  phase,       \* "check", "divide", "share", "split" or how it ended
  subset,      \* the subset that is allocated
  reserved,    \* samples of each class that are already held out
  counts,      \* samples of each class in the subset
  remainders,  \* remainder of each class' quota
  used,        \* classes that got a place in this round
  allocated,   \* samples in the subset so far
  class,       \* the class whose quota is divided
  bit,         \* the next bit of the target, 0 when it is divided
  result,      \* quotient so far
  residual     \* remainder so far

input == <<rows, sizes, target, requested>>
division == <<class, bit, result, residual>>
quotas == <<remainders, reserved, subset>>
vars == <<input, phase, quotas, counts, used, allocated, division>>

Classes == DOMAIN sizes

None == [c \in Classes |-> 0]

(* The sums of f over the first classes, and over all of them.              *)
Sums(f) ==
  LET sum[n \in 0 .. Len(sizes)] == IF n = 0 THEN 0 ELSE sum[n - 1] + f[n]
  IN  sum

Total(f) == Sums(f)[Len(sizes)]

(* The start of a multiplication and division for class c.                  *)
Dividing(c, wanted) ==
  IF sizes[c] = rows
    THEN [class |-> c, bit |-> 0, result |-> wanted]
    ELSE [class |-> c, bit |-> TopBit, result |-> 0]

Divide(c, wanted) ==
  /\ class' = Dividing(c, wanted).class
  /\ bit' = Dividing(c, wanted).bit
  /\ result' = Dividing(c, wanted).result
  /\ residual' = 0

Init ==
  /\ rows \in 1 .. MaxRows
  /\ sizes \in UNION {[1 .. n -> 0 .. rows] : n \in 1 .. MaxClasses}
  /\ Total(sizes) = rows
  /\ target \in [Subsets -> 0 .. rows - 1]
  /\ target["test"] + target["validation"] < rows
  /\ requested \in [Subsets -> BOOLEAN]
  /\ \A s \in Subsets : target[s] # 0 => requested[s]
  /\ phase = "check"
  /\ subset = "test"
  /\ reserved = None
  /\ counts = None
  /\ remainders = None
  /\ used = {}
  /\ allocated = 0
  /\ class = 1
  /\ bit = 0
  /\ result = 0
  /\ residual = 0

-----------------------------------------------------------------------------

Acceptable ==
  /\ \A s \in Subsets : requested[s] => target[s] # 0
  /\ Len(sizes) <= rows
  /\ target["test"] <= rows - Len(sizes)
  /\ target["validation"] <= rows - Len(sizes) - target["test"]
  /\ \A c \in Classes : sizes[c] # 0

Check ==
  /\ phase = "check"
  /\ IF Acceptable
       THEN phase' = "divide" /\ Divide(1, target["test"])
       ELSE phase' = "refused" /\ UNCHANGED division
  /\ UNCHANGED <<input, quotas, counts, used, allocated>>

Wanted == target[subset]

(* Unsigned "r + n" modulo rows without an intermediate above rows, and the *)
(* carry.                                                                   *)
AddModulo(r, n) ==
  LET gap == Wrap(rows - n)
  IN  IF r >= gap THEN [rest |-> Wrap(r - gap), carry |-> 1]
      ELSE [rest |-> Wrap(r + n), carry |-> 0]

(* Mutant: the carry of the second addition is forgotten.                   *)
DivideBitCarryless ==
  /\ phase = "divide"
  /\ bit # 0
  /\ LET twice == AddModulo(residual, residual)
         sum == IF (Wanted \div bit) % 2 = 1
                  THEN AddModulo(twice.rest, sizes[class])
                  ELSE [rest |-> twice.rest, carry |-> 0]
     IN  /\ result' = Wrap(2 * result + twice.carry)
         /\ residual' = sum.rest
  /\ bit' = bit \div 2
  /\ UNCHANGED <<input, phase, quotas, counts, used, allocated, class>>

(* One bit of sizes[class] * Wanted / rows.                                 *)
DivideBit ==
  /\ phase = "divide"
  /\ bit # 0
  /\ LET twice == AddModulo(residual, residual)
         sum == IF (Wanted \div bit) % 2 = 1
                  THEN AddModulo(twice.rest, sizes[class])
                  ELSE [rest |-> twice.rest, carry |-> 0]
     IN  /\ result' = Wrap(2 * result + twice.carry + sum.carry)
         /\ residual' = sum.rest
  /\ bit' = bit \div 2
  /\ UNCHANGED <<input, phase, quotas, counts, used, allocated, class>>

(* Mutant: the last sample of a class may be held out.                      *)
CapacityOfAll(c) == Wrap(sizes[c] - reserved[c])

Capacity(c) == Wrap(sizes[c] - 1 - reserved[c])

Least(a, b) == IF a < b THEN a ELSE b

(* The quota of a class, capped to leave one training sample.               *)
Quota ==
  /\ phase = "divide"
  /\ bit = 0
  /\ LET count == Least(result, Capacity(class))
     IN  /\ counts' = [counts EXCEPT ![class] = count]
         /\ remainders' = [remainders EXCEPT ![class] = residual]
         /\ IF allocated > Wrap(Wanted - count)
              THEN phase' = "overflow" /\ UNCHANGED <<allocated, division>>
            ELSE /\ allocated' = Wrap(allocated + count)
                 /\ IF class = Len(sizes)
                      THEN phase' = "share" /\ UNCHANGED division
                      ELSE /\ phase' = phase
                           /\ Divide(class + 1, Wanted)
  /\ UNCHANGED <<input, reserved, subset, used>>

Eligible == {c \in Classes : c \notin used /\ counts[c] < Capacity(c)}

(* Mutant: the remainders are not compared.                                 *)
PrecedesByHoldout(c, d) ==
  LET held(x) == reserved[x] + counts[x]
  IN  held(c) < held(d) \/ (held(c) = held(d) /\ c <= d)

(* The greater remainder, then the fewer samples held out, then the order.  *)
Precedes(c, d) ==
  LET held(x) == reserved[x] + counts[x]
  IN  \/ remainders[c] > remainders[d]
      \/ /\ remainders[c] = remainders[d]
         /\ held(c) < held(d) \/ (held(c) = held(d) /\ c <= d)

Place ==
  /\ phase = "share"
  /\ allocated < Wanted
  /\ \E c \in Eligible :
       /\ \A d \in Eligible : Precedes(c, d)
       /\ counts' = [counts EXCEPT ![c] = @ + 1]
       /\ used' = used \cup {c}
  /\ allocated' = allocated + 1
  /\ UNCHANGED <<input, phase, quotas, division>>

(* When every class with capacity got a place, all may get another.         *)
NextRound ==
  /\ phase = "share"
  /\ allocated < Wanted
  /\ Eligible = {}
  /\ used' = {}
  /\ phase' = IF \E c \in Classes : counts[c] < Capacity(c)
                THEN phase ELSE "stuck"
  /\ UNCHANGED <<input, quotas, counts, allocated, division>>

(* Mutant: the test samples are allocated again.                            *)
NextSubsetAgain ==
  /\ phase = "share"
  /\ allocated >= Wanted
  /\ subset = "test"
  /\ phase' = "divide"
  /\ reserved' = None
  /\ counts' = None
  /\ remainders' = None
  /\ used' = {}
  /\ allocated' = 0
  /\ Divide(1, target["test"])
  /\ UNCHANGED <<input, subset>>

(* Validation samples are taken from what the test samples leave.           *)
NextSubset ==
  /\ phase = "share"
  /\ allocated >= Wanted
  /\ subset = "test"
  /\ phase' = "divide"
  /\ subset' = "validation"
  /\ reserved' = counts
  /\ counts' = None
  /\ remainders' = None
  /\ used' = {}
  /\ allocated' = 0
  /\ Divide(1, target["validation"])
  /\ UNCHANGED input

(* The shuffled rows of a class are assigned and counted.                   *)
Assign ==
  /\ phase = "share"
  /\ allocated >= Wanted
  /\ subset = "validation"
  /\ phase' = IF /\ Total(reserved) = target["test"]
                 /\ Total(counts) = target["validation"]
                 /\ Total(reserved) + Total(counts) < rows
                THEN "split" ELSE "inconsistent"
  /\ UNCHANGED <<input, quotas, counts, used, allocated, division>>

Next ==
  \/ Check \/ DivideBit \/ Quota \/ Place \/ NextRound \/ NextSubset
  \/ Assign

Spec == Init /\ [][Next]_vars /\ WF_vars(Next)

-----------------------------------------------------------------------------

Ended == phase \in {"split", "refused", "overflow", "stuck", "inconsistent"}

(* Type invariant; a class never has more samples held out than it can      *)
(* spare, so that the unsigned subtraction in its capacity never wraps.     *)
TypeOK ==
  /\ Ended \/ phase \in {"check", "divide", "share"}
  /\ subset \in Subsets
  /\ reserved \in [Classes -> Size]
  /\ counts \in [Classes -> Size]
  /\ remainders \in [Classes -> Size]
  /\ used \subseteq Classes
  /\ allocated \in Size
  /\ class \in Classes
  /\ bit \in Bits \cup {0}
  /\ result \in Size
  /\ residual \in Size
  /\ phase \in {"divide", "share", "split"} =>
       \A c \in Classes : reserved[c] + counts[c] < sizes[c]

(* The bitwise division gives the exact quotient and remainder of a product *)
(* that itself need not fit into a size_t.                                  *)
QuotaIsExact ==
  phase = "divide" /\ bit = 0 =>
    /\ result = (sizes[class] * Wanted) \div rows
    /\ residual = (sizes[class] * Wanted) % rows

Floor(c) == Least((sizes[c] * Wanted) \div rows, Capacity(c))

Extra(c) == counts[c] - Floor(c)

(* When a subset is allocated no class had an advantage over one that could *)
(* have given another sample: it has at most one place more beyond its      *)
(* quota, and that one by a greater remainder or fewer samples held out     *)
(* before (allocate_stratified_counts).                                     *)
PlacesFair ==
  phase = "share" /\ allocated = Wanted =>
    \A c, d \in Classes :
      counts[d] < Capacity(d) /\ Extra(c) > Extra(d) =>
        /\ Extra(c) = Extra(d) + 1
        /\ \/ remainders[c] > remainders[d]
           \/ /\ remainders[c] = remainders[d]
              /\ reserved[c] + counts[c] - 1 <= reserved[d] + counts[d]

(* Every split that is not refused at the start succeeds: the held-out      *)
(* subsets have exactly the counts asked for, every class is trained on,    *)
(* and the places are fair (allocate_stratified_counts, create_split).      *)
SplitAsDocumented ==
  /\ Ended /\ phase # "refused" =>
       /\ phase = "split"
       /\ Total(reserved) = target["test"]
       /\ Total(counts) = target["validation"]
       /\ \A c \in Classes : reserved[c] + counts[c] < sizes[c]
  /\ phase = "share" /\ allocated = Wanted => Total(counts) = Wanted
  /\ PlacesFair
===============================================================================
