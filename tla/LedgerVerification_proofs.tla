--------------------- MODULE LedgerVerification_proofs ---------------------
(***************************************************************************)
(* The verification loop reports exactly the bad rows, for every table, and*)
(* a table of written blocks without bad rows is a run of the chain.       *)
(***************************************************************************)
EXTENDS LedgerVerification, TLAPS, WellFoundedInduction

\* The bad rows of a longer part of the table are those of the shorter part
\* and the row in which the two differ, if it is bad.
LEMMA BadRowsNext ==
    ASSUME NEW table, NEW n \in Nat \ {0}
    PROVE  BadRows(table, n) = BadRows(table, n - 1)
               \cup (IF WrongHash(table, n) \/ WrongLink(table, n) THEN {table[n].index} ELSE {})
  <1>1. 1 .. n = (1 .. n - 1) \cup {n}
    OBVIOUS
  <1> QED
    BY <1>1 DEF BadRows

\* The types and the loop invariant hold in every reachable state.
LEMMA LoopCorrect == Spec => [](TypeOK /\ LoopInv)
  <1>1. Init => TypeOK /\ LoopInv
    <2> SUFFICES ASSUME Init PROVE TypeOK /\ LoopInv
      OBVIOUS
    <2>1. Len(rows) \in Nat
      BY TablesAssumption DEF Init
    <2>2. BadRows(rows, 0) = {}
      BY DEF BadRows
    <2> QED
      BY <2>1, <2>2, TablesAssumption DEF Init, TypeOK, LoopInv
  <1>2. TypeOK /\ LoopInv /\ [Next]_vars => (TypeOK /\ LoopInv)'
    <2> SUFFICES ASSUME TypeOK, LoopInv, [Next]_vars PROVE (TypeOK /\ LoopInv)'
      OBVIOUS
    <2>1. Len(rows) \in Nat /\ k \in Nat /\ rows \in Tables
      BY TablesAssumption DEF TypeOK
    <2>2. ASSUME rows' = rows, k' = k + 1, k <= Len(rows),
                 corrupted' = corrupted \cup (IF WrongHash(rows, k) \/ WrongLink(rows, k)
                                             THEN {rows[k].index} ELSE {}),
                 expected_prev_hash' = rows[k].hash, verdict' = verdict, verdict = "checking"
          PROVE  (TypeOK /\ LoopInv)'
      <3>1. k \in 1 .. Len(rows) /\ k' - 1 = k
        BY <2>1, <2>2 DEF TypeOK
      <3>2. corrupted' = BadRows(rows, k)
        BY <2>1, <2>2, <3>1, BadRowsNext DEF LoopInv
      <3> QED
        BY <2>1, <2>2, <3>1, <3>2 DEF TypeOK, LoopInv
    <2>3. CASE BrokenLink
      <3>1. k > 1 /\ rows # << >>
        BY <2>1, <2>3 DEF BrokenLink, LoopInv, TypeOK
      <3>2. WrongLink(rows, k)
        BY <2>3, <3>1 DEF BrokenLink, LoopInv, WrongLink
      <3> QED
        BY <2>2, <2>3, <3>2 DEF BrokenLink
    <2>4. CASE CheckHash
      <3>1. rows # << >>
        BY <2>1, <2>4 DEF CheckHash, TypeOK
      <3>2. ~WrongLink(rows, k)
        BY <2>1, <2>4, <3>1 DEF CheckHash, LoopInv, WrongLink
      <3> QED
        BY <2>2, <2>4, <3>2 DEF CheckHash, WrongHash
    <2>7. CASE GetBlocks
      <3>1. k = 1 /\ BadRows(rows, 0) = BadRows(rows, k - 1)
        BY <2>7 DEF GetBlocks, LoopInv
      <3> QED
        BY <2>1, <2>7, <3>1 DEF GetBlocks, TypeOK, LoopInv
    <2>5. CASE Finish
      BY <2>1, <2>5 DEF Finish, TypeOK, LoopInv
    <2>6. CASE UNCHANGED vars
      BY <2>6 DEF vars, TypeOK, LoopInv
    <2> QED
      BY <2>3, <2>4, <2>5, <2>6, <2>7 DEF Next
  <1> QED
    BY <1>1, <1>2, PTL DEF Spec

\* Whatever the table, the indices reported are exactly those of the rows that
\* do not carry their own hash or are not linked to the row before, the verdict
\* is valid exactly if there are none, and only a table with an event that does
\* not parse ends without a report.
THEOREM VerificationExact == Spec => []ReportExact
  <1>1. TypeOK /\ LoopInv => ReportExact
    <2>1. BadRows(rows, 0) = {}
      BY DEF BadRows
    <2> QED
      BY <2>1, TablesAssumption DEF TypeOK, LoopInv, ReportExact
  <1> QED
    BY <1>1, LoopCorrect, PTL

---------------------------------------------------------------------------
(* What a valid verdict is worth *)

\* Every set of numbers has a least one.
LEMMA LeastNumber ==
    ASSUME NEW S \in SUBSET Nat, S # {}
    PROVE  \E n \in S : \A m \in S : n <= m
  <1>1. PICK less : less = OpToRel(<, Nat)
    OBVIOUS
  <1>2. IsWellFoundedOn(less, Nat)
    BY <1>1, NatLessThanWellFounded
  <1>3. less = {pair \in Nat \X Nat : pair[1] < pair[2]}
    BY <1>1 DEF OpToRel
  <1>4. PICK n \in S : \A m \in S : << m, n >> \notin less
    BY <1>2, WFMin
  <1>5. ASSUME NEW m \in S PROVE n <= m
    <2>1. m \in Nat /\ n \in Nat /\ << m, n >> \in Nat \X Nat
      OBVIOUS
    <2>2. << m, n >>[1] = m /\ << m, n >>[2] = n
      OBVIOUS
    <2>3. ~(m < n)
      BY <1>3, <1>4, <2>1, <2>2
    <2> QED
      BY <2>1, <2>3
  <1> QED
    BY <1>5

\* A row with one column changed and its own hash is the block as written:
\* a changed hash is not the digest, and a digest belongs to one block.
LEMMA RightHashIsWritten ==
    ASSUME NEW table \in Tables, NEW j \in DOMAIN table, OneColumnOff(table[j]),
           ~WrongHash(table, j)
    PROVE  \E m \in DOMAIN Chain : table[j] = Chain[m]
  <1>1. PICK m \in DOMAIN Chain, c \in Columns :
           \A d \in Columns \ {c} : table[j][d] = Chain[m][d]
    BY DEF OneColumnOff
  <1>2. /\ table[j].hash = Recalculated(table[j]) /\ Chain[m].hash = Recalculated(Chain[m])
        /\ IsRow(table[j]) /\ IsRow(Chain[m])
    BY TablesAssumption, ChainAssumption DEF WrongHash
  <1>3. Recalculated(table[j]) = Recalculated(Chain[m])
    <2>1. CASE c = "hash"
      BY <1>1, <2>1 DEF Columns, Recalculated
    <2>2. CASE c # "hash"
      BY <1>1, <1>2, <2>2 DEF Columns
    <2> QED
      BY <2>1, <2>2
  <1>4. /\ table[j].index = Chain[m].index /\ table[j].event = Chain[m].event
        /\ table[j].previous_hash = Chain[m].previous_hash
    BY <1>3, CollisionAssumption
  <1> QED
    BY <1>2, <1>3, <1>4 DEF IsRow

\* A row that continues the one before it is the next block.
LEMMA LinkedIsNext ==
    ASSUME NEW table \in Tables, NEW j \in DOMAIN table, j > 1, ~WrongLink(table, j),
           NEW m \in DOMAIN Chain, NEW l \in DOMAIN Chain,
           table[j - 1] = Chain[m], table[j] = Chain[l]
    PROVE  l = m + 1
  <1>1. /\ Chain[l].previous_hash = Chain[m].hash
        /\ m \in Nat /\ l \in Nat /\ l >= 1 /\ m <= Len(Chain) /\ l <= Len(Chain)
        /\ Len(Chain) \in Nat /\ DOMAIN Chain = 1 .. Len(Chain)
    BY ChainAssumption DEF WrongLink
  <1>2. l > 1
    BY <1>1, ChainAssumption
  <1>3. l - 1 \in DOMAIN Chain /\ Chain[l - 1].hash = Chain[m].hash
    BY <1>1, <1>2, ChainAssumption
  <1>4. j - 1 \in DOMAIN table
    BY TablesAssumption
  <1>5. Recalculated(table[j - 1]) = Recalculated(Chain[l - 1])
    BY <1>3, ChainAssumption
  <1>6. Chain[m].index = Chain[l - 1].index
    BY <1>3, <1>4, <1>5, CollisionAssumption
  <1>7. Chain[m].index = m - 1 /\ Chain[l - 1].index = (l - 1) - 1
    BY <1>3, ChainAssumption
  <1>8. m - 1 = (l - 1) - 1
    BY <1>6, <1>7
  <1> QED
    BY <1>1, <1>8

\* A table of written blocks, each linked to the one before, is a run of the
\* chain: if it were not, it would leave the chain at some first row.
LEMMA LinkedIsRun ==
    ASSUME NEW table \in Tables,
           \A j \in DOMAIN table : /\ ~WrongLink(table, j)
                                   /\ \E m \in DOMAIN Chain : table[j] = Chain[m]
    PROVE  \E m \in 0 .. Len(Chain) - Len(table) : \A j \in DOMAIN table : table[j] = Chain[m + j]
  <1>1. /\ DOMAIN table = 1 .. Len(table) /\ Len(table) \in Nat
        /\ DOMAIN Chain = 1 .. Len(Chain) /\ Len(Chain) \in Nat
    BY TablesAssumption, ChainAssumption
  <1>2. CASE Len(table) = 0
    <2>1. DOMAIN table = {} /\ 0 \in 0 .. Len(Chain) - Len(table)
      BY <1>1, <1>2
    <2> QED
      BY <2>1
  <1>3. CASE Len(table) > 0
    <2>1. PICK first \in DOMAIN Chain : table[1] = Chain[first]
      BY <1>1, <1>3
    <2>2. PICK m \in Nat : m = first - 1
      BY <1>1
    <2>3. PICK astray : astray = {j \in DOMAIN table : ~(m + j \in DOMAIN Chain /\ table[j] = Chain[m + j])}
      OBVIOUS
    <2>4. astray = {}
      <3> SUFFICES ASSUME astray # {}
                   PROVE  FALSE
        OBVIOUS
      <3>1. astray \in SUBSET Nat
        BY <1>1, <2>3
      <3>2. PICK j \in astray : \A i \in astray : j <= i
        BY <3>1, LeastNumber
      <3>3. j \in DOMAIN table /\ j > 1
        BY <1>1, <2>1, <2>2, <2>3
      <3>4. j - 1 \in DOMAIN table /\ j - 1 \notin astray
        BY <1>1, <3>1, <3>2, <3>3
      <3>5. m + (j - 1) \in DOMAIN Chain /\ table[j - 1] = Chain[m + (j - 1)]
        BY <2>3, <3>4
      <3>6. PICK l \in DOMAIN Chain : table[j] = Chain[l]
        BY <3>3
      <3>7. l = (m + (j - 1)) + 1
        BY <3>3, <3>5, <3>6, LinkedIsNext
      <3>8. l = m + j
        BY <1>1, <3>3, <3>7
      <3> QED
        BY <2>3, <3>2, <3>6, <3>8
    <2>5. \A j \in DOMAIN table : m + j \in DOMAIN Chain /\ table[j] = Chain[m + j]
      BY <2>3, <2>4
    <2>6. Len(table) \in DOMAIN table
      BY <1>1, <1>3
    <2>7. m \in 0 .. Len(Chain) - Len(table)
      BY <1>1, <2>5, <2>6
    <2> QED
      BY <2>5, <2>7
  <1> QED
    BY <1>1, <1>2, <1>3

\* A table that verifies has lost no block but at its ends, and none of its
\* blocks has one changed column.
THEOREM UndamagedIfValid == Spec => []ValidMeansUndamaged
  <1>1. TypeOK /\ LoopInv => ValidMeansUndamaged
    <2> SUFFICES ASSUME TypeOK, LoopInv, verdict = "valid",
                        \A j \in DOMAIN rows : OneColumnOff(rows[j])
                 PROVE  \E m \in 0 .. Len(Chain) - Len(rows) :
                           \A j \in DOMAIN rows : rows[j] = Chain[m + j]
      BY DEF ValidMeansUndamaged
    <2>1. rows \in Tables /\ DOMAIN rows = 1 .. Len(rows) /\ Len(rows) \in Nat
      BY TablesAssumption DEF TypeOK
    <2>2. BadRows(rows, Len(rows)) = {}
      BY <2>1 DEF LoopInv, TypeOK
    <2>3. \A j \in DOMAIN rows : ~WrongHash(rows, j) /\ ~WrongLink(rows, j)
      BY <2>1, <2>2 DEF BadRows
    <2>4. \A j \in DOMAIN rows : \E m \in DOMAIN Chain : rows[j] = Chain[m]
      BY <2>1, <2>3, RightHashIsWritten
    <2> QED
      BY <2>1, <2>3, <2>4, LinkedIsRun
  <1> QED
    BY <1>1, LoopCorrect, PTL
=============================================================================
