---------------------- MODULE ConcurrentImportsProofs -----------------------
(***************************************************************************)
(* What several imports at work on one database promise, for any number of *)
(* them, any files and any batch sizes, whoever is killed or chosen by the *)
(* deadlock detector: what is reported is stored, no row is counted twice  *)
(* or by nobody, no foreign key fails, and imports whose batches offer     *)
(* their keys in one order never wait in a ring.                           *)
(***************************************************************************)
EXTENDS ConcurrentImports, Integers, FiniteSetTheorems, WellFoundedInduction, TLAPS

-----------------------------------------------------------------------------
(* Numbers.                                                                *)

\* A set of numbers that is not empty has a least element.
LEMMA Least ==
    ASSUME NEW S \in SUBSET Nat, S # {}
    PROVE  \E n \in S : \A k \in S : n <= k
<1> DEFINE R == OpToRel(<, Nat)
<1>1. IsWellFoundedOn(R, Nat)
  BY NatLessThanWellFounded
<1>2. \E x \in S : \A y \in S : <<y, x>> \notin R
  <2> HIDE DEF R
  <2> QED  BY <1>1, WFMin
<1>3. \A x, y \in Nat : <<y, x>> \notin R => x <= y
  BY DEF OpToRel
<1> QED  BY <1>2, <1>3

\* A batch that is full ends on a multiple of its size.
LEMMA NextMultiple ==
    ASSUME NEW n \in Nat, NEW s \in Nat \ {0}, n % s = 0
    PROVE  (n + s) % s = 0
<1> DEFINE q == n \div s
           k == (n + s) \div s
           rest == (n + s) % s
           d == q + 1 - k
<1>1. n = s * q /\ q \in Int /\ k \in Int
  OBVIOUS
<1>2. n + s = s * k + rest /\ rest \in 0..s - 1
  OBVIOUS
<1>3. d \in Int /\ s * d = s * q + s - s * k
  <2> HIDE DEF q, k
  <2> QED  BY <1>1 DEF d
<1>4. s * d = rest
  <2> HIDE DEF q, k, rest
  <2> QED  BY <1>1, <1>2, <1>3
<1>5. \A e \in Int : (e >= 1 => s * e >= s) /\ (e <= -1 => s * e < 0)
  OBVIOUS
<1> HIDE DEF q, k, d, rest
<1>6. d = 0
  BY <1>2, <1>3, <1>4, <1>5
<1>7. rest = 0
  BY <1>2, <1>4, <1>6
<1> QED  BY <1>7 DEF rest

\* The keys are finite in number.
LEMMA KeysAreFinite ==
    /\ IsFiniteSet(Keys) /\ Cardinality(Keys) \in Nat
    /\ \A K \in SUBSET Keys :
        /\ IsFiniteSet(K) /\ Cardinality(K) \in Nat /\ Cardinality(K) <= Cardinality(Keys)
<1>1. IsFiniteSet(Keys)
  BY ImportsAssumption, FS_Union DEF Keys
<1>2. \A K \in SUBSET Keys : IsFiniteSet(K) /\ Cardinality(K) <= Cardinality(Keys)
  BY <1>1, FS_Subset
<1> QED  BY <1>1, <1>2, FS_CardinalityType

-----------------------------------------------------------------------------
(* The rows of a batch.                                                    *)

Given(p) == file[p] \in Files /\ size[p] \in BatchSizes

\* A file is a sequence of different tasks.
LEMMA FileType ==
    ASSUME NEW p, Given(p)
    PROVE  /\ Len(file[p]) \in Nat /\ size[p] \in Nat \ {0}
           /\ \A i \in 1..Len(file[p]) :
                file[p][i] \in Tasks /\ OwnerOf[file[p][i]] \in Owners
           /\ \A i, j \in 1..Len(file[p]) : file[p][i] = file[p][j] => i = j
<1>1. file[p] \in Seq(Tasks) /\ size[p] \in Nat \ {0}
  BY ImportsAssumption DEF Given
<1>2. \A i \in 1..Len(file[p]) : file[p][i] \in Tasks
  BY <1>1
<1> QED  BY <1>1, <1>2, ImportsAssumption DEF Given

\* Where a batch ends.
LEMMA BatchEnds ==
    ASSUME NEW p, Given(p), NEW n \in 0..Len(file[p])
    PROVE  /\ EndAfter(p, n) \in n..Len(file[p])
           /\ n # Len(file[p]) => n < EndAfter(p, n)
           /\ n % size[p] = 0 =>
                EndAfter(p, n) = Len(file[p]) \/ EndAfter(p, n) % size[p] = 0
<1>1. Len(file[p]) \in Nat /\ size[p] \in Nat \ {0}
  BY FileType
<1>2. n % size[p] = 0 => (n + size[p]) % size[p] = 0
  BY <1>1, NextMultiple
<1> QED  BY <1>1, <1>2 DEF EndAfter

\* The tasks of the lines of a batch are rows of it, and their owners are before them.
LEMMA RowsOfLines ==
    ASSUME NEW p, Given(p), NEW n \in 0..Len(file[p]), NEW i \in (n + 1)..EndAfter(p, n)
    PROVE  /\ i \in 1..Len(file[p])
           /\ Len(file[p]) + i \in RowsAfter(p, n)
           /\ Key(p, Len(file[p]) + i) = file[p][i]
           /\ \E r \in RowsAfter(p, n) :
                r <= Len(file[p]) /\ Key(p, r) = OwnerOf[file[p][i]]
<1> DEFINE lines == (n + 1)..EndAfter(p, n)
           S == {j \in lines : OwnerOf[file[p][j]] = OwnerOf[file[p][i]]}
<1>1. Len(file[p]) \in Nat /\ EndAfter(p, n) \in n..Len(file[p])
  BY FileType, BatchEnds
<1>2. lines \subseteq 1..Len(file[p])
  BY <1>1
<1>3. PICK f \in S : \A j \in S : f <= j
  <2>1. S \in SUBSET Nat /\ S # {}
    BY <1>2
  <2> HIDE DEF S
  <2> QED  BY <2>1, Least
<1>4. f \in RowsAfter(p, n)
  BY <1>3 DEF RowsAfter
<1>5. Len(file[p]) + i \in RowsAfter(p, n)
  BY DEF RowsAfter
<1>6. Key(p, Len(file[p]) + i) = file[p][i]
  <2>1. ~(Len(file[p]) + i <= Len(file[p])) /\ Len(file[p]) + i - Len(file[p]) = i
    BY <1>1, <1>2
  <2> QED  BY <2>1 DEF Key
<1>7. f <= Len(file[p]) /\ Key(p, f) = OwnerOf[file[p][f]]
  BY <1>1, <1>2, <1>3 DEF Key
<1> QED  BY <1>2, <1>3, <1>4, <1>5, <1>6, <1>7

\* A row is an owner, by the first line that mentions it, or a task.
LEMMA RowShape ==
    ASSUME NEW p, Given(p), NEW n \in 0..Len(file[p]), NEW r \in RowsAfter(p, n)
    PROVE  /\ r \in 1..(2 * Len(file[p])) /\ Key(p, r) \in Keys
           /\ \/ /\ r \in (n + 1)..EndAfter(p, n) /\ r <= Len(file[p])
                 /\ Key(p, r) = OwnerOf[file[p][r]] /\ Key(p, r) \notin Tasks
                 /\ \A j \in (n + 1)..EndAfter(p, n) :
                        OwnerOf[file[p][j]] = OwnerOf[file[p][r]] => r <= j
              \/ \E i \in (n + 1)..EndAfter(p, n) :
                    r = Len(file[p]) + i /\ Key(p, r) = file[p][i] /\ Key(p, r) \in Tasks
<1> DEFINE lines == (n + 1)..EndAfter(p, n)
<1>1. Len(file[p]) \in Nat /\ EndAfter(p, n) \in n..Len(file[p])
  BY FileType, BatchEnds
<1>2. lines \subseteq 1..Len(file[p])
  BY <1>1
<1>3. \A j \in lines : file[p][j] \in Tasks /\ OwnerOf[file[p][j]] \in Owners
  BY <1>2, FileType
<1>4. CASE /\ r \in lines
           /\ \A j \in lines : OwnerOf[file[p][j]] = OwnerOf[file[p][r]] => r <= j
  <2>1. r <= Len(file[p]) /\ r \in 1..(2 * Len(file[p]))
    BY <1>1, <1>2, <1>4
  <2>2. Key(p, r) = OwnerOf[file[p][r]]
    BY <2>1 DEF Key
  <2> QED  BY <1>3, <1>4, <2>1, <2>2, ImportsAssumption DEF Keys
<1>5. ASSUME NEW i \in lines, r = Len(file[p]) + i
      PROVE  r \in 1..(2 * Len(file[p])) /\ Key(p, r) = file[p][i]
  BY <1>1, <1>2, <1>5, RowsOfLines
<1> QED  BY <1>3, <1>4, <1>5 DEF RowsAfter, Keys

\* No key is offered twice by a batch.
LEMMA RowsDiffer ==
    ASSUME NEW p, Given(p), NEW n \in 0..Len(file[p]),
           NEW r \in RowsAfter(p, n), NEW s \in RowsAfter(p, n), Key(p, r) = Key(p, s)
    PROVE  r = s
<1> DEFINE lines == (n + 1)..EndAfter(p, n)
<1>1. /\ Len(file[p]) \in Nat
      /\ EndAfter(p, n) \in n..Len(file[p])
      /\ lines \subseteq 1..Len(file[p])
  BY FileType, BatchEnds
<1>2. CASE Key(p, r) \notin Tasks
  <2>1. /\ r \in lines /\ s \in lines /\ OwnerOf[file[p][r]] = OwnerOf[file[p][s]]
        /\ r <= s /\ s <= r
    BY <1>2, RowShape
  <2> QED  BY <1>1, <2>1
<1>3. CASE Key(p, r) \in Tasks
  <2>1. PICK i \in lines : r = Len(file[p]) + i /\ Key(p, r) = file[p][i]
    BY <1>3, RowShape
  <2>2. PICK j \in lines : s = Len(file[p]) + j /\ Key(p, s) = file[p][j]
    BY <1>3, RowShape
  <2>3. i = j
    BY <1>1, <2>1, <2>2, FileType
  <2> QED  BY <2>1, <2>2, <2>3
<1> QED  BY <1>2, <1>3

-----------------------------------------------------------------------------
(* The invariant.                                                          *)

Statuses == {"running", "reported", "killed", "deadlock"}

Typed ==
    /\ file \in [Imports -> Files] /\ size \in [Imports -> BatchSizes]
    /\ already \subseteq stored /\ stored \subseteq Keys
    /\ mine \in [Imports -> SUBSET Keys]
    /\ consumed \in [Imports -> Nat]
    /\ left \in [Imports -> SUBSET Nat]
    /\ status \in [Imports -> Statuses]
    /\ inserted \in [Imports -> Nat]
    /\ \A p \in Imports :
        /\ consumed[p] \in 0..Len(file[p])
        /\ left[p] \subseteq RowsAfter(p, consumed[p])
        /\ inserted[p] <= Cardinality(Keys)

\* A key is committed, or of one open transaction.
Exclusive ==
    \A p \in Imports :
        /\ mine[p] \intersect stored = {}
        /\ status[p] # "running" => mine[p] = {}
        /\ \A q \in Imports : mine[p] \intersect mine[q] # {} => p = q

Offered(p) == RowsAfter(p, consumed[p]) \ left[p]

\* An import offers the rows of its batch in order; what it has offered it sees, and
\* it has inserted nothing else.
Progress ==
    \A p \in Imports :
        /\ consumed[p] = Len(file[p]) \/ consumed[p] % size[p] = 0
        /\ status[p] = "reported" => consumed[p] = Len(file[p])
        /\ status[p] = "running" =>
            /\ \A r \in Offered(p) : Key(p, r) \in Visible(p)
            /\ \A r \in Offered(p), s \in left[p] : r < s
            /\ \A k \in mine[p] : \E r \in Offered(p) : Key(p, r) = k

\* Lines behind are stored with their owners.
Behind ==
    \A p \in Imports : \A i \in 1..consumed[p] :
        file[p][i] \in stored /\ OwnerOf[file[p][i]] \in stored

\* Of the keys that were not there each import that goes on or has reported counts
\* those it has committed and those it is about to.
Credited ==
    \E share \in [Imports -> SUBSET Keys] :
        /\ UNION {share[p] : p \in Imports} = stored \ already
        /\ \A p, q \in Imports : share[p] \intersect share[q] # {} => p = q
        /\ \A p \in Imports : status[p] \in {"running", "reported"} =>
            inserted[p] = Cardinality(share[p]) + Cardinality(mine[p])

\* The detector finds no ring when the batches offer keys in one order.
Unhindered == (\E p \in Imports : status[p] = "deadlock") => ~OneOrder

ImportsInv == Typed /\ Exclusive /\ Progress /\ Behind

\* What is there at first.
LEMMA InitImports == Init => ImportsInv
<1> SUFFICES ASSUME Init PROVE ImportsInv
  OBVIOUS
<1>1. \A p \in Imports :
        Given(p) /\ Len(file[p]) \in Nat /\ 0 \in 0..Len(file[p]) /\ size[p] \in Nat \ {0}
  BY FileType DEF Init, Given
<1>2. already \subseteq Keys /\ stored = already
  BY ImportsAssumption DEF Init, Keys
<1>3. \A p \in Imports : RowsAfter(p, 0) \subseteq Nat
  <2> SUFFICES ASSUME NEW p \in Imports, NEW r \in RowsAfter(p, 0) PROVE r \in Nat
    OBVIOUS
  <2>1. r \in 1..(2 * Len(file[p]))
    BY <1>1, RowShape
  <2> QED  BY <1>1, <2>1
<1>4. Cardinality(Keys) \in Nat
  BY KeysAreFinite
<1>5. Typed
  BY <1>1, <1>2, <1>3, <1>4 DEF Init, Typed, Statuses
<1>6. Exclusive
  BY DEF Init, Exclusive
<1>7. Progress
  BY <1>1 DEF Init, Progress, Offered
<1>8. Behind
  BY DEF Init, Behind
<1> QED  BY <1>5, <1>6, <1>7, <1>8 DEF ImportsInv

\* Rows depend on the file and the batch size.
LEMMA SameRows ==
    ASSUME UNCHANGED <<file, size>>
    PROVE  /\ \A p, n : RowsAfter(p, n)' = RowsAfter(p, n)
           /\ \A p, r : Key(p, r)' = Key(p, r)
           /\ OneOrder' <=> OneOrder
BY DEF RowsAfter, EndAfter, Key, OneOrder

\* Whoever stops leaves nothing behind but what it has committed.
LEMMA StopsKeeps ==
    ASSUME ImportsInv, NEW p \in Imports, NEW outcome \in {"killed", "deadlock"},
           Stops(p, outcome)
    PROVE  ImportsInv'
<1> USE DEF ImportsInv
<1>1. /\ UNCHANGED <<file, size, already, stored, consumed, left, inserted>>
      /\ status' = [status EXCEPT ![p] = outcome] /\ mine' = [mine EXCEPT ![p] = {}]
  BY DEF Stops
<1>2. Typed'
  <2>1. /\ mine' \in [Imports -> SUBSET Keys] /\ status' \in [Imports -> Statuses]
    BY <1>1 DEF Typed, Statuses
  <2>2. \A q \in Imports : left'[q] \subseteq RowsAfter(q, consumed[q])'
    BY <1>1, SameRows DEF Typed
  <2> QED  BY <1>1, <2>1, <2>2 DEF Typed
<1>3. Exclusive'
  BY <1>1 DEF Typed, Exclusive
<1>4. Behind'
  BY <1>1 DEF Behind
<1>5. Progress'
  <2> SUFFICES ASSUME NEW q \in Imports
               PROVE  /\ consumed[q] = Len(file[q]) \/ consumed[q] % size[q] = 0
                      /\ status'[q] = "reported" => consumed[q] = Len(file[q])
                      /\ status'[q] = "running" =>
                        /\ \A r \in Offered(q)' : Key(q, r) \in Visible(q)'
                        /\ \A r \in Offered(q)', s \in left[q] : r < s
                        /\ \A k \in mine'[q] : \E r \in Offered(q)' : Key(q, r) = k
    BY <1>1, SameRows DEF Progress
  <2>1. Offered(q)' = Offered(q)
    BY <1>1, SameRows DEF Offered
  <2>2. CASE q = p
    BY <1>1, <2>2 DEF Progress, Typed
  <2>3. CASE q # p
    <3>1. Visible(q)' = Visible(q) /\ mine'[q] = mine[q] /\ status'[q] = status[q]
      BY <1>1, <2>3 DEF Visible, Typed
    <3> QED  BY <2>1, <3>1 DEF Progress
  <2> QED  BY <2>2, <2>3
<1> QED  BY <1>2, <1>3, <1>4, <1>5

\* The owner of a task is offered before it, so its foreign key does not fail.
LEMMA OwnerFirst ==
    ASSUME ImportsInv, NEW p \in Imports, NEW r \in left[p], Offer(p, r)
    PROVE  ~(Key(p, r) \in Tasks \ stored /\ OwnerOf[Key(p, r)] \notin Visible(p))
<1> DEFINE n == consumed[p]
<1>1. /\ Given(p) /\ n \in 0..Len(file[p]) /\ r \in RowsAfter(p, n) /\ Len(file[p]) \in Nat
      /\ status[p] = "running" /\ \A s \in left[p] : r <= s
  BY FileType DEF ImportsInv, Typed, Given, Offer, NextRow
<1> SUFFICES ASSUME Key(p, r) \in Tasks PROVE OwnerOf[Key(p, r)] \in Visible(p)
  OBVIOUS
<1>2. PICK i \in (n + 1)..EndAfter(p, n) : r = Len(file[p]) + i /\ Key(p, r) = file[p][i]
  BY <1>1, RowShape
<1>3. PICK s \in RowsAfter(p, n) : s <= Len(file[p]) /\ Key(p, s) = OwnerOf[file[p][i]]
  BY <1>1, RowsOfLines
<1>4. s \in Nat /\ i \in 1..Len(file[p])
  BY <1>1, RowShape, RowsOfLines
<1>5. s < r
  BY <1>1, <1>2, <1>3, <1>4
<1>6. s \notin left[p]
  BY <1>1, <1>2, <1>4, <1>5
<1> QED  BY <1>1, <1>2, <1>3, <1>6 DEF ImportsInv, Progress, Offered

\* What offering a row does.
LEMMA OfferDoes ==
    ASSUME ImportsInv, NEW p \in Imports, NEW r \in left[p], Offer(p, r)
    PROVE  /\ UNCHANGED <<file, size, already, stored, consumed, status>>
           /\ status[p] = "running"
           /\ \A s \in left[p] : r <= s
           /\ left' = [left EXCEPT ![p] = @ \ {r}]
           /\ Key(p, r) \in Keys /\ Key(p, r) \notin mine[p]
           /\ \A q \in Imports : Key(p, r) \notin mine[q]
           /\ \/ /\ Key(p, r) \in stored /\ mine' = mine /\ inserted' = inserted
              \/ /\ Key(p, r) \notin stored
                 /\ mine' = [mine EXCEPT ![p] = @ \union {Key(p, r)}]
                 /\ inserted' = [inserted EXCEPT ![p] = @ + 1]
<1>1. /\ UNCHANGED <<file, size, already, stored, consumed, status>>
      /\ status[p] = "running"
      /\ \A s \in left[p] : r <= s
      /\ left' = [left EXCEPT ![p] = @ \ {r}]
      /\ \A q \in Imports \ {p} : Key(p, r) \notin mine[q]
      /\ mine' = [mine EXCEPT ![p] = IF Key(p, r) \in stored THEN @ ELSE @ \union {Key(p, r)}]
      /\ inserted' = [inserted EXCEPT ![p] = IF Key(p, r) \in stored THEN @ ELSE @ + 1]
  BY OwnerFirst DEF Offer, NextRow
<1>2. /\ Given(p) /\ consumed[p] \in 0..Len(file[p]) /\ r \in RowsAfter(p, consumed[p])
      /\ mine \in [Imports -> SUBSET Keys] /\ inserted \in [Imports -> Nat]
  BY DEF ImportsInv, Typed, Given
<1>3. Key(p, r) \in Keys
  BY <1>2, RowShape
<1>4. ASSUME Key(p, r) \in mine[p] PROVE FALSE
  <2>1. PICK s \in Offered(p) : Key(p, s) = Key(p, r)
    BY <1>1, <1>4 DEF ImportsInv, Progress
  <2>2. s = r
    BY <1>2, <2>1, RowsDiffer DEF Offered
  <2> QED  BY <2>1, <2>2 DEF Offered
<1>5. CASE Key(p, r) \in stored
  <2>1. mine' = mine /\ inserted' = inserted
    BY <1>1, <1>2, <1>5
  <2> QED  BY <1>1, <1>3, <1>4, <1>5, <2>1
<1>6. CASE Key(p, r) \notin stored
  <2>1. /\ mine' = [mine EXCEPT ![p] = @ \union {Key(p, r)}]
        /\ inserted' = [inserted EXCEPT ![p] = @ + 1]
    BY <1>1, <1>6
  <2> QED  BY <1>1, <1>3, <1>4, <1>6, <2>1
<1> QED  BY <1>5, <1>6

\* Cardinalities of disjoint sets of keys add up.
LEMMA DisjointKeys ==
    ASSUME NEW A \in SUBSET Keys, NEW B \in SUBSET Keys, A \intersect B = {}
    PROVE  /\ Cardinality(A \union B) = Cardinality(A) + Cardinality(B)
           /\ Cardinality(A) \in Nat /\ Cardinality(B) \in Nat
           /\ Cardinality(A) + Cardinality(B) <= Cardinality(Keys)
<1>1. IsFiniteSet(A) /\ IsFiniteSet(B) /\ Cardinality(A) \in Nat /\ Cardinality(B) \in Nat
  BY KeysAreFinite
<1>2. Cardinality(A \union B) = Cardinality(A) + Cardinality(B) - Cardinality(A \intersect B)
  BY <1>1, FS_Union
<1>3. Cardinality(A \intersect B) = 0
  BY FS_EmptySet
<1>4. Cardinality(A \union B) <= Cardinality(Keys)
  <2>1. A \union B \in SUBSET Keys
    OBVIOUS
  <2> HIDE DEF Keys
  <2> QED  BY <2>1, KeysAreFinite
<1> DEFINE a == Cardinality(A)
           b == Cardinality(B)
           c == Cardinality(A \union B)
           d == Cardinality(A \intersect B)
<1>5. a \in Nat /\ b \in Nat /\ c = a + b - d /\ d = 0 /\ c <= Cardinality(Keys)
  BY <1>1, <1>2, <1>3, <1>4
<1> HIDE DEF a, b, c, d
<1>6. c = a + b /\ a + b <= Cardinality(Keys)
  BY <1>5, KeysAreFinite
<1> QED  BY <1>1, <1>6 DEF a, b, c

\* Offering a row: what is inserted is counted.
LEMMA OfferCredits ==
    ASSUME ImportsInv, Credited, NEW p \in Imports, NEW r \in left[p], Offer(p, r)
    PROVE  /\ Credited'
           /\ inserted' \in [Imports -> Nat]
           /\ \A q \in Imports : inserted'[q] <= Cardinality(Keys)
<1> DEFINE k == Key(p, r)
<1>1. /\ UNCHANGED <<file, size, already, stored, consumed, status>>
      /\ status[p] = "running" /\ k \in Keys /\ k \notin mine[p]
      /\ \/ /\ k \in stored /\ mine' = mine /\ inserted' = inserted
         \/ /\ k \notin stored
            /\ mine' = [mine EXCEPT ![p] = @ \union {k}]
            /\ inserted' = [inserted EXCEPT ![p] = @ + 1]
  BY OfferDoes
<1>2. /\ mine \in [Imports -> SUBSET Keys] /\ inserted \in [Imports -> Nat]
      /\ \A q \in Imports : inserted[q] <= Cardinality(Keys)
  BY DEF ImportsInv, Typed
<1>3. PICK share \in [Imports -> SUBSET Keys] :
        /\ UNION {share[q] : q \in Imports} = stored \ already
        /\ \A q, s \in Imports : share[q] \intersect share[s] # {} => q = s
        /\ \A q \in Imports : status[q] \in {"running", "reported"} =>
            inserted[q] = Cardinality(share[q]) + Cardinality(mine[q])
  BY DEF Credited
<1> HIDE DEF k
<1>4. CASE mine' = mine /\ inserted' = inserted
  BY <1>1, <1>2, <1>3, <1>4 DEF Credited
<1>5. CASE /\ k \notin stored
           /\ mine' = [mine EXCEPT ![p] = @ \union {k}]
           /\ inserted' = [inserted EXCEPT ![p] = @ + 1]
  <2>1. mine'[p] = mine[p] \union {k} /\ inserted'[p] = inserted[p] + 1
    BY <1>2, <1>5
  <2>2. \A q \in Imports : q # p => mine'[q] = mine[q] /\ inserted'[q] = inserted[q]
    BY <1>2, <1>5
  <2>3. Cardinality(mine'[p]) = Cardinality(mine[p]) + 1
    <3>1. IsFiniteSet(mine[p])
      BY <1>2, KeysAreFinite
    <3> QED  BY <1>1, <2>1, <3>1, FS_AddElement
  <2>4. Cardinality(share[p]) \in Nat /\ Cardinality(mine[p]) \in Nat
    BY <1>2, <1>3, KeysAreFinite
  <2>5. inserted'[p] = Cardinality(share[p]) + Cardinality(mine'[p])
    <3> DEFINE a == Cardinality(share[p])
               b == Cardinality(mine[p])
               c == Cardinality(mine'[p])
    <3>1. inserted[p] = a + b /\ c = b + 1 /\ a \in Nat /\ b \in Nat
      BY <1>1, <1>3, <2>3, <2>4
    <3> HIDE DEF a, b, c
    <3>2. inserted'[p] = a + c
      BY <2>1, <3>1
    <3> QED  BY <3>2 DEF a, c
  <2>6. ASSUME NEW q \in Imports, status'[q] \in {"running", "reported"}
        PROVE  inserted'[q] = Cardinality(share[q]) + Cardinality(mine'[q])
    BY <1>1, <1>3, <2>2, <2>5, <2>6
  <2>7. Credited'
    BY <1>1, <1>3, <2>6 DEF Credited
  <2>8. inserted'[p] <= Cardinality(Keys)
    <3>1. share[p] \subseteq stored
      BY <1>3
    <3>2. /\ share[p] \intersect mine'[p] = {}
          /\ share[p] \in SUBSET Keys
          /\ mine'[p] \in SUBSET Keys
      <4>1. mine[p] \intersect stored = {}
        BY DEF ImportsInv, Exclusive
      <4> QED  BY <1>1, <1>2, <1>3, <1>5, <2>1, <3>1, <4>1
    <3> QED  BY <2>5, <3>2, DisjointKeys
  <2>9. inserted' \in [Imports -> Nat]
    BY <1>2, <1>5
  <2> QED  BY <1>2, <2>2, <2>7, <2>8, <2>9
<1> QED  BY <1>1, <1>4, <1>5

\* Offering a row, in order, of a key that nobody holds.
LEMMA OfferKeeps ==
    ASSUME ImportsInv, Credited, NEW p \in Imports, NEW r \in left[p], Offer(p, r)
    PROVE  ImportsInv'
<1> DEFINE k == Key(p, r)
<1>1. /\ UNCHANGED <<file, size, already, stored, consumed, status>>
      /\ status[p] = "running"
      /\ \A s \in left[p] : r <= s
      /\ left' = [left EXCEPT ![p] = @ \ {r}]
      /\ k \in Keys
      /\ \A q \in Imports : k \notin mine[q]
      /\ \/ k \in stored /\ mine' = mine
         \/ k \notin stored /\ mine' = [mine EXCEPT ![p] = @ \union {k}]
  BY OfferDoes
<1>2. Typed /\ Exclusive /\ Progress /\ Behind
  BY DEF ImportsInv
<1>3. /\ mine \in [Imports -> SUBSET Keys] /\ left \in [Imports -> SUBSET Nat]
      /\ left[p] \subseteq RowsAfter(p, consumed[p])
  BY <1>2 DEF Typed
<1>4. /\ left'[p] = left[p] \ {r}
      /\ \A q \in Imports : q # p => left'[q] = left[q] /\ mine'[q] = mine[q]
      /\ mine'[p] = (IF k \in stored THEN mine[p] ELSE mine[p] \union {k})
  <2> HIDE DEF k
  <2> QED  BY <1>1, <1>3
<1>5. Typed'
  <2>1. mine' \in [Imports -> SUBSET Keys] /\ left' \in [Imports -> SUBSET Nat]
    <3> HIDE DEF k
    <3> QED  BY <1>1, <1>3
  <2>2. \A q \in Imports : left'[q] \subseteq RowsAfter(q, consumed[q])'
    BY <1>1, <1>2, <1>4, SameRows DEF Typed
  <2>3. inserted' \in [Imports -> Nat] /\ \A q \in Imports : inserted'[q] <= Cardinality(Keys)
    BY OfferCredits
  <2>4. /\ file' = file /\ size' = size /\ already' = already /\ stored' = stored
        /\ consumed' = consumed /\ status' = status
    BY <1>1
  <2> QED  BY <1>2, <2>1, <2>2, <2>3, <2>4 DEF Typed
<1>6. Exclusive'
  <2> HIDE DEF k
  <2>1. \A q \in Imports :
            mine'[q] \subseteq mine[q] \union {k} /\ (q # p => mine'[q] = mine[q])
    BY <1>1, <1>4
  <2>2. ASSUME NEW q \in Imports PROVE mine'[q] \intersect stored = {}
    BY <1>1, <1>2, <1>4 DEF Exclusive
  <2>3. ASSUME NEW q \in Imports, NEW s \in Imports, mine'[q] \intersect mine'[s] # {}
        PROVE  q = s
    BY <1>1, <1>2, <2>1, <2>3 DEF Exclusive
  <2>4. ASSUME NEW q \in Imports, status[q] # "running" PROVE mine'[q] = {}
    BY <1>1, <1>2, <2>1, <2>4 DEF Exclusive
  <2> QED  BY <1>1, <2>2, <2>3, <2>4 DEF Exclusive
<1>7. Behind'
  BY <1>1, <1>2 DEF Behind
<1>8. Progress'
  <2> SUFFICES ASSUME NEW q \in Imports, status[q] = "running"
               PROVE  /\ \A s \in Offered(q)' : Key(q, s) \in Visible(q)'
                      /\ \A s \in Offered(q)', u \in left'[q] : s < u
                      /\ \A m \in mine'[q] : \E s \in Offered(q)' : Key(q, s) = m
    BY <1>1, <1>2, SameRows DEF Progress
  <2>1. CASE q # p
    <3>1. /\ Offered(q)' = Offered(q)
          /\ Visible(q)' = Visible(q)
          /\ mine'[q] = mine[q]
          /\ left'[q] = left[q]
      BY <1>1, <1>4, <2>1, SameRows DEF Offered, Visible
    <3> QED  BY <1>2, <3>1 DEF Progress
  <2>2. CASE q = p
    <3>1. Offered(p)' = Offered(p) \union {r}
      BY <1>1, <1>3, <1>4, SameRows DEF Offered
    <3>2. Visible(p)' = Visible(p) \union {k}
      BY <1>1, <1>4 DEF Visible
    <3>3. \A s \in Offered(p) : Key(p, s) \in Visible(p)
      BY <1>1, <1>2 DEF Progress
    <3>4. \A s \in Offered(p), u \in left[p] : s < u
      BY <1>1, <1>2 DEF Progress
    <3>5. \A m \in mine[p] : \E s \in Offered(p) : Key(p, s) = m
      BY <1>1, <1>2 DEF Progress
    <3>6. \A u \in left'[p] : r < u
      BY <1>1, <1>3, <1>4
    <3> QED  BY <1>4, <2>2, <3>1, <3>2, <3>3, <3>4, <3>5, <3>6
  <2> QED  BY <2>1, <2>2
<1> QED  BY <1>5, <1>6, <1>7, <1>8 DEF ImportsInv

\* A commit: all rows of the batch have been offered, so all its lines are stored.
LEMMA CommitKeeps == ASSUME ImportsInv, NEW p \in Imports, Commit(p) PROVE ImportsInv'
<1> DEFINE c == consumed[p]
           n == EndAfter(p, c)
<1>1. /\ UNCHANGED <<file, size, already, inserted>>
      /\ status[p] = "running" /\ left[p] = {}
      /\ stored' = stored \union mine[p]
      /\ mine' = [mine EXCEPT ![p] = {}]
      /\ consumed' = [consumed EXCEPT ![p] = n]
      /\ left' = [left EXCEPT ![p] = RowsAfter(p, n)]
      /\ status' = [status EXCEPT ![p] = IF n = Len(file[p]) THEN "reported" ELSE @]
  BY DEF Commit
<1>2. Typed /\ Exclusive /\ Progress /\ Behind
  BY DEF ImportsInv
<1>3. \A q \in Imports : Given(q) /\ consumed[q] \in 0..Len(file[q]) /\ Len(file[q]) \in Nat
  BY <1>2, FileType DEF Typed, Given
<1>4. /\ n \in c..Len(file[p]) /\ c \in 0..Len(file[p]) /\ n \in 0..Len(file[p])
      /\ c % size[p] = 0 => n = Len(file[p]) \/ n % size[p] = 0
      /\ c = Len(file[p]) => n = Len(file[p])
  BY <1>3, BatchEnds
<1>5. RowsAfter(p, n) \subseteq Nat
  <2> SUFFICES ASSUME NEW r \in RowsAfter(p, n) PROVE r \in Nat
    OBVIOUS
  <2>1. r \in 1..(2 * Len(file[p]))
    BY <1>3, <1>4, RowShape
  <2> QED  BY <1>3, <2>1
<1> HIDE DEF c, n
<1>6. /\ consumed'[p] = n /\ mine'[p] = {} /\ left'[p] = RowsAfter(p, n)
      /\ status'[p] = (IF n = Len(file[p]) THEN "reported" ELSE "running")
      /\ \A q \in Imports : q # p =>
            /\ consumed'[q] = consumed[q] /\ mine'[q] = mine[q]
            /\ left'[q] = left[q] /\ status'[q] = status[q]
  BY <1>1, <1>2 DEF Typed
<1>7. Typed'
  <2>1. /\ stored' \subseteq Keys /\ already' \subseteq stored'
        /\ mine' \in [Imports -> SUBSET Keys]
        /\ consumed' \in [Imports -> Nat] /\ left' \in [Imports -> SUBSET Nat]
        /\ status' \in [Imports -> Statuses]
    BY <1>1, <1>2, <1>3, <1>4, <1>5 DEF Typed, Statuses
  <2>2. ASSUME NEW q \in Imports
        PROVE  /\ consumed'[q] \in 0..Len(file[q])
               /\ left'[q] \subseteq RowsAfter(q, consumed'[q])
               /\ inserted[q] <= Cardinality(Keys)
    BY <1>2, <1>4, <1>6 DEF Typed
  <2>3. \A q \in Imports : RowsAfter(q, consumed[q])' = RowsAfter(q, consumed'[q])
    BY <1>1 DEF RowsAfter, EndAfter
  <2> QED  BY <1>1, <1>2, <2>1, <2>2, <2>3 DEF Typed
<1>8. Exclusive'
  BY <1>1, <1>2, <1>6 DEF Exclusive
<1>9. \A q \in Imports : stored \subseteq stored' /\ (q # p => Visible(q) \subseteq Visible(q)')
  BY <1>1, <1>6 DEF Visible
<1>10. Progress'
  <2>1. \A q \in Imports : RowsAfter(q, consumed[q])' = RowsAfter(q, consumed'[q])
    BY <1>1 DEF RowsAfter, EndAfter
  <2>2. Offered(p)' = {} /\ \A q \in Imports : q # p => Offered(q)' = Offered(q)
    BY <1>6, <2>1 DEF Offered
  <2> SUFFICES ASSUME NEW q \in Imports
               PROVE  /\ consumed'[q] = Len(file[q]) \/ consumed'[q] % size[q] = 0
                      /\ status'[q] = "reported" => consumed'[q] = Len(file[q])
                      /\ status'[q] = "running" =>
                        /\ \A r \in Offered(q)' : Key(q, r) \in Visible(q)'
                        /\ \A r \in Offered(q)', s \in left'[q] : r < s
                        /\ \A k \in mine'[q] : \E r \in Offered(q)' : Key(q, r) = k
    BY <1>1, SameRows DEF Progress
  <2>3. CASE q = p
    <3>1. n = Len(file[p]) \/ n % size[p] = 0
      BY <1>2, <1>4 DEF Progress, c
    <3> QED  BY <1>6, <2>2, <2>3, <3>1
  <2>4. CASE q # p
    BY <1>2, <1>6, <1>9, <2>2, <2>4 DEF Progress
  <2> QED  BY <2>3, <2>4
<1>11. Behind'
  <2> SUFFICES ASSUME NEW q \in Imports, NEW i \in 1..consumed'[q]
               PROVE  file[q][i] \in stored' /\ OwnerOf[file[q][i]] \in stored'
    BY <1>1 DEF Behind
  <2>1. CASE i \in 1..consumed[q]
    BY <1>2, <1>9, <2>1 DEF Behind
  <2>2. CASE q = p /\ i \notin 1..consumed[q]
    <3>1. i \in (c + 1)..n
      BY <1>4, <1>6, <2>2 DEF c
    <3>2. /\ Len(file[p]) + i \in RowsAfter(p, c) /\ Key(p, Len(file[p]) + i) = file[p][i]
          /\ \E r \in RowsAfter(p, c) : Key(p, r) = OwnerOf[file[p][i]]
      BY <1>3, <1>4, <3>1, RowsOfLines DEF n
    <3>3. \A r \in RowsAfter(p, c) : Key(p, r) \in stored'
      BY <1>1, <1>2 DEF Progress, Offered, Visible, c
    <3> QED  BY <2>2, <3>2, <3>3
  <2> QED  BY <1>6, <2>1, <2>2
<1> QED  BY <1>7, <1>8, <1>10, <1>11 DEF ImportsInv

\* A commit hands what was inserted to the one that has counted it.
LEMMA CommitCredits == ASSUME ImportsInv, Credited, NEW p \in Imports, Commit(p) PROVE Credited'
<1>1. /\ UNCHANGED <<already, inserted>>
      /\ status[p] = "running"
      /\ stored' = stored \union mine[p]
      /\ mine' = [mine EXCEPT ![p] = {}]
      /\ \A q \in Imports : q # p => status'[q] = status[q]
  BY DEF Commit, ImportsInv, Typed
<1>2. Typed /\ Exclusive
  BY DEF ImportsInv
<1>3. PICK share \in [Imports -> SUBSET Keys] :
        /\ UNION {share[q] : q \in Imports} = stored \ already
        /\ \A q, s \in Imports : share[q] \intersect share[s] # {} => q = s
        /\ \A q \in Imports : status[q] \in {"running", "reported"} =>
            inserted[q] = Cardinality(share[q]) + Cardinality(mine[q])
  BY DEF Credited
<1> DEFINE new == [share EXCEPT ![p] = @ \union mine[p]]
<1>4. /\ new \in [Imports -> SUBSET Keys]
      /\ new[p] = share[p] \union mine[p]
      /\ \A q \in Imports : q # p => new[q] = share[q]
  BY <1>2, <1>3 DEF Typed
<1> HIDE DEF new
<1>5. \A q \in Imports : share[q] \subseteq stored \ already
  BY <1>3
<1>6. mine[p] \intersect stored = {} /\ already \subseteq stored /\ mine[p] \in SUBSET Keys
  BY <1>2 DEF Exclusive, Typed
<1>7. UNION {new[q] : q \in Imports} = stored' \ already'
  <2>1. UNION {new[q] : q \in Imports} = (UNION {share[q] : q \in Imports}) \union mine[p]
    BY <1>4
  <2> QED  BY <1>1, <1>3, <1>6, <2>1
<1>8. ASSUME NEW q \in Imports, NEW s \in Imports, new[q] \intersect new[s] # {} PROVE q = s
  BY <1>3, <1>4, <1>5, <1>6, <1>8
<1>9. ASSUME NEW q \in Imports, status'[q] \in {"running", "reported"}
      PROVE  inserted'[q] = Cardinality(new[q]) + Cardinality(mine'[q])
  <2>1. CASE q # p
    BY <1>1, <1>2, <1>3, <1>4, <1>9, <2>1 DEF Typed
  <2>2. CASE q = p
    <3>1. share[p] \in SUBSET Keys /\ share[p] \intersect mine[p] = {}
      BY <1>3, <1>5, <1>6
    <3>2. /\ Cardinality(new[p]) = Cardinality(share[p]) + Cardinality(mine[p])
          /\ Cardinality(share[p]) \in Nat /\ Cardinality(mine[p]) \in Nat
      BY <1>4, <1>6, <3>1, DisjointKeys
    <3>3. mine'[p] = {} /\ Cardinality({}) = 0
      BY <1>1, <1>2, FS_EmptySet DEF Typed
    <3>4. inserted'[p] = Cardinality(share[p]) + Cardinality(mine[p])
      BY <1>1, <1>3
    <3>5. Cardinality(mine'[p]) = 0
      BY <3>3
    <3>6. inserted'[p] = Cardinality(new[p])
      BY <3>2, <3>4
    <3>7. Cardinality(new[p]) \in Nat
      BY <3>2
    <3> QED  BY <2>2, <3>5, <3>6, <3>7
  <2> QED  BY <2>1, <2>2
<1> QED  BY <1>4, <1>7, <1>8, <1>9 DEF Credited

\* What stops counts no longer.
LEMMA StopsCredits ==
    ASSUME ImportsInv, Credited, NEW p \in Imports, NEW outcome \in {"killed", "deadlock"},
           Stops(p, outcome)
    PROVE  Credited'
<1>1. /\ UNCHANGED <<already, stored, inserted>>
      /\ status'[p] = outcome
      /\ \A q \in Imports : q # p => status'[q] = status[q] /\ mine'[q] = mine[q]
  BY DEF Stops, ImportsInv, Typed
<1> QED  BY <1>1 DEF Credited

\* A ring of imports has offered keys in crossed orders: in one order, each would wait
\* for a greater key than the one before.
LEMMA RingsAreCrossed ==
    ASSUME ImportsInv, NEW ring \in SUBSET Imports, Ring(ring)
    PROVE  ~OneOrder
<1> SUFFICES ASSUME OneOrder PROVE FALSE
  OBVIOUS
<1>1. PICK rank \in [Keys -> 1..Cardinality(Keys)] :
        \A p \in Imports : \A n \in 0..(Len(file[p]) - 1) : n % size[p] = 0 =>
            \A r, s \in RowsAfter(p, n) : r < s => rank[Key(p, r)] < rank[Key(p, s)]
  BY DEF OneOrder
<1> DEFINE top == Cardinality(Keys)
           Wants(p, r) == NextRow(p, r) /\ \E q \in ring : Key(p, r) \in mine[q]
<1>2. \A p \in ring : \E r \in Nat : Wants(p, r) /\ status[p] = "running"
  BY DEF Ring, WaitsFor, NextRow, ImportsInv, Typed
<1>3. \A p \in Imports :
        /\ Given(p) /\ consumed[p] \in 0..Len(file[p]) /\ Len(file[p]) \in Nat
        /\ left[p] \subseteq RowsAfter(p, consumed[p])
  BY FileType DEF ImportsInv, Typed, Given
<1>4. \A p \in Imports : \A r \in RowsAfter(p, consumed[p]) :
        Key(p, r) \in Keys /\ r \in Nat /\ rank[Key(p, r)] \in 1..top
  BY <1>1, <1>3, RowShape
<1>5. top \in Nat
  BY KeysAreFinite
<1>6. ASSUME NEW p \in ring, NEW r \in Nat, Wants(p, r)
      PROVE  \E q \in ring, s \in Nat :
                /\ Wants(q, s)
                /\ top - rank[Key(q, s)] < top - rank[Key(p, r)]
                /\ top - rank[Key(q, s)] \in Nat
  <2>1. PICK q \in ring : Key(p, r) \in mine[q]
    BY <1>6
  <2>2. PICK s \in Nat : Wants(q, s) /\ status[q] = "running"
    BY <1>2
  <2>3. PICK u \in Offered(q) : Key(q, u) = Key(p, r)
    BY <2>1, <2>2 DEF ImportsInv, Progress
  <2>4. /\ s \in left[q]
        /\ u \in RowsAfter(q, consumed[q])
        /\ s \in RowsAfter(q, consumed[q])
        /\ u < s
    BY <1>3, <2>2, <2>3 DEF ImportsInv, Progress, Offered, NextRow
  <2>5. consumed[q] # Len(file[q])
    <3>1. EndAfter(q, consumed[q]) \in consumed[q]..Len(file[q])
      BY <1>3, BatchEnds
    <3>2. (consumed[q] + 1)..EndAfter(q, consumed[q]) # {}
      BY <1>3, <2>4, RowShape
    <3> QED  BY <1>3, <3>1, <3>2
  <2>6. consumed[q] \in 0..(Len(file[q]) - 1) /\ consumed[q] % size[q] = 0
    BY <1>3, <2>5 DEF ImportsInv, Progress
  <2>7. rank[Key(q, u)] < rank[Key(q, s)]
    BY <1>1, <2>4, <2>6
  <2>8. rank[Key(q, u)] \in 1..top /\ rank[Key(q, s)] \in 1..top
    BY <1>4, <2>4
  <2> HIDE DEF top
  <2>9. top - rank[Key(q, s)] < top - rank[Key(q, u)] /\ top - rank[Key(q, s)] \in Nat
    BY <1>5, <2>7, <2>8
  <2> QED  BY <2>2, <2>3, <2>9
<1> DEFINE D == {d \in Nat : \E p \in ring, r \in Nat :
                    Wants(p, r) /\ d = top - rank[Key(p, r)]}
<1>7. D # {}
  <2>1. PICK p \in ring : TRUE
    BY DEF Ring
  <2>2. PICK r \in Nat : Wants(p, r)
    BY <1>2
  <2> HIDE DEF Wants, top
  <2> QED  BY <1>6, <2>2
<1>8. PICK d \in D : \A e \in D : d <= e
  <2>1. D \in SUBSET Nat
    OBVIOUS
  <2> HIDE DEF D
  <2> QED  BY <1>7, <2>1, Least
<1>9. PICK p \in ring, r \in Nat : Wants(p, r) /\ d = top - rank[Key(p, r)]
  BY <1>8
<1>10. PICK q \in ring, s \in Nat :
                /\ Wants(q, s)
                /\ top - rank[Key(q, s)] < top - rank[Key(p, r)]
                /\ top - rank[Key(q, s)] \in Nat
  <2> HIDE DEF Wants, top
  <2> QED  BY <1>6, <1>9
<1>11. top - rank[Key(q, s)] \in D
  <2> HIDE DEF Wants, top
  <2> QED  BY <1>10
<1>12. d <= top - rank[Key(q, s)] /\ top - rank[Key(q, s)] < d /\ d \in Nat
  BY <1>8, <1>9, <1>10, <1>11
<1> QED  BY <1>10, <1>12

\* Every step of an import.
LEMMA NextImports ==
    ImportsInv /\ Credited /\ Unhindered /\ [Next]_vars
        => ImportsInv' /\ Credited' /\ Unhindered'
<1> SUFFICES ASSUME ImportsInv, Credited, Unhindered, [Next]_vars
             PROVE  ImportsInv' /\ Credited' /\ Unhindered'
  OBVIOUS
<1>1. ASSUME NEW p \in Imports, NEW r \in left[p], Offer(p, r)
      PROVE  ImportsInv' /\ Credited' /\ Unhindered'
  <2>1. Unhindered'
    BY <1>1, OfferDoes, SameRows DEF Unhindered
  <2> QED  BY <1>1, <2>1, OfferKeeps, OfferCredits
<1>2. ASSUME NEW p \in Imports, Commit(p) PROVE ImportsInv' /\ Credited' /\ Unhindered'
  <2>1. \A q \in Imports : status'[q] = "deadlock" => status[q] = "deadlock"
    BY <1>2 DEF Commit, ImportsInv, Typed
  <2>2. Unhindered'
    BY <1>2, <2>1, SameRows DEF Unhindered, Commit
  <2> QED  BY <1>2, <2>2, CommitKeeps, CommitCredits
<1>3. ASSUME NEW p \in Imports, Detect(p) PROVE ImportsInv' /\ Credited' /\ Unhindered'
  <2>1. Stops(p, "deadlock") /\ \E ring \in SUBSET Imports : Ring(ring)
    BY <1>3 DEF Detect
  <2>2. ~OneOrder
    BY <2>1, RingsAreCrossed
  <2>3. Unhindered'
    BY <2>1, <2>2, SameRows DEF Unhindered, Stops
  <2> QED  BY <2>1, <2>3, StopsKeeps, StopsCredits
<1>4. ASSUME NEW p \in Imports, Kill(p) PROVE ImportsInv' /\ Credited' /\ Unhindered'
  <2>1. Stops(p, "killed")
    BY <1>4 DEF Kill
  <2>2. \A q \in Imports : status'[q] = "deadlock" => status[q] = "deadlock"
    BY <2>1 DEF Stops, ImportsInv, Typed
  <2>3. Unhindered'
    BY <2>1, <2>2, SameRows DEF Unhindered, Stops
  <2> QED  BY <2>1, <2>3, StopsKeeps, StopsCredits
<1>5. CASE UNCHANGED vars
  <2>1. UNCHANGED <<file, size, already, stored, mine, consumed, left, status, inserted>>
    BY <1>5 DEF vars
  <2>2. Credited' /\ Unhindered'
    BY <2>1, SameRows DEF Credited, Unhindered
  <2>3. Typed'
    BY <2>1, SameRows DEF ImportsInv, Typed
  <2>4. \A q \in Imports : Offered(q)' = Offered(q) /\ Visible(q)' = Visible(q)
    BY <2>1, SameRows DEF Offered, Visible
  <2>5. Progress'
    BY <2>1, <2>4, SameRows DEF ImportsInv, Progress
  <2>6. Exclusive' /\ Behind'
    BY <2>1 DEF ImportsInv, Exclusive, Behind
  <2> QED  BY <2>2, <2>3, <2>5, <2>6 DEF ImportsInv
<1> QED  BY <1>1, <1>2, <1>3, <1>4, <1>5 DEF Next, Step

\* The invariant of imports that run at the same time.
THEOREM ImportsInvariant == Spec => [](ImportsInv /\ Credited /\ Unhindered)
<1>1. Init => Credited /\ Unhindered
  <2> SUFFICES ASSUME Init PROVE Credited /\ Unhindered
    OBVIOUS
  <2>1. Unhindered
    BY DEF Init, Unhindered
  <2> DEFINE share == [p \in Imports |-> {}]
  <2>2. share \in [Imports -> SUBSET Keys] /\ \A p \in Imports : share[p] = {}
    OBVIOUS
  <2>3. UNION {share[p] : p \in Imports} = stored \ already
    BY <2>2 DEF Init
  <2>4. \A p \in Imports : inserted[p] = Cardinality(share[p]) + Cardinality(mine[p])
    BY <2>2, FS_EmptySet DEF Init
  <2>5. \A p, q \in Imports : share[p] \intersect share[q] # {} => p = q
    BY <2>2
  <2>6. Credited
    <3> HIDE DEF share
    <3> QED  BY <2>2, <2>3, <2>4, <2>5 DEF Credited
  <2> QED  BY <2>1, <2>6
<1> QED  BY <1>1, InitImports, NextImports, PTL DEF Spec

\* Every variable keeps its type, and nobody counts more rows than there are keys.
THEOREM ImportsTypeCorrect == Spec => []TypeOK
<1>1. ASSUME ImportsInv PROVE TypeOK
  <2> SUFFICES ASSUME NEW p \in Imports
               PROVE  /\ left[p] \subseteq 1..(2 * Len(file[p]))
                      /\ inserted[p] \in 0..Cardinality(Keys)
    BY <1>1 DEF TypeOK, ImportsInv, Typed, Statuses
  <2>1. /\ Given(p)
        /\ consumed[p] \in 0..Len(file[p])
        /\ left[p] \subseteq RowsAfter(p, consumed[p])
    BY <1>1 DEF ImportsInv, Typed, Given
  <2>2. left[p] \subseteq 1..(2 * Len(file[p]))
    BY <2>1, RowShape
  <2>3. inserted[p] \in Nat /\ inserted[p] <= Cardinality(Keys) /\ Cardinality(Keys) \in Nat
    BY <1>1, KeysAreFinite DEF ImportsInv, Typed
  <2> QED  BY <2>2, <2>3
<1> QED  BY <1>1, ImportsInvariant, PTL

\* What an import reports as imported or already there is stored with its owners,
\* whoever it had to wait for.
THEOREM ReportedFilesStay == Spec => []ReportedFilesAreStored
<1>1. ImportsInv => ReportedFilesAreStored
  BY DEF ImportsInv, Progress, Behind, ReportedFilesAreStored
<1> QED  BY <1>1, ImportsInvariant, PTL

\* When all imports report, their counts add up to the rows that are new.
THEOREM CreditsAddUp == Spec => []RowsCreditedOnce
<1>1. ASSUME ImportsInv, Credited, \A p \in Imports : status[p] = "reported"
      PROVE  SharedOut(stored \ already)
  <2>1. PICK share \in [Imports -> SUBSET Keys] :
        /\ UNION {share[q] : q \in Imports} = stored \ already
        /\ \A q, s \in Imports : share[q] \intersect share[s] # {} => q = s
        /\ \A q \in Imports : status[q] \in {"running", "reported"} =>
            inserted[q] = Cardinality(share[q]) + Cardinality(mine[q])
    BY <1>1 DEF Credited
  <2>2. ASSUME NEW p \in Imports PROVE inserted[p] = Cardinality(share[p])
    <3>1. Cardinality(mine[p]) = 0
      BY <1>1, FS_EmptySet DEF ImportsInv, Exclusive
    <3>2. Cardinality(share[p]) \in Nat
      BY <2>1, KeysAreFinite
    <3>3. inserted[p] = Cardinality(share[p]) + Cardinality(mine[p])
      BY <1>1, <2>1
    <3> QED  BY <3>1, <3>2, <3>3
  <2>3. share \in [Imports -> SUBSET (stored \ already)]
    BY <2>1
  <2> QED  BY <2>1, <2>2, <2>3 DEF SharedOut
<1>2. ImportsInv /\ Credited => RowsCreditedOnce
  BY <1>1 DEF RowsCreditedOnce
<1> QED  BY <1>2, ImportsInvariant, PTL

\* Imports whose batches offer their keys in one order never deadlock, and no foreign
\* key ever fails.
THEOREM OneOrderSuffices == Spec => []OnlyCrossedOrdersDeadlock
<1>1. ImportsInv /\ Unhindered => OnlyCrossedOrdersDeadlock
  BY DEF ImportsInv, Typed, Statuses, Unhindered, OnlyCrossedOrdersDeadlock
<1> QED  BY <1>1, ImportsInvariant, PTL
=============================================================================
