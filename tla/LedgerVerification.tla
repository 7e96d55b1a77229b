------------------------- MODULE LedgerVerification -------------------------
(***************************************************************************)
(* backend/ledger_manager.py, verify_ledger_chain: it reads the blocks,    *)
(* which fails when the text of an event does not parse, and then walks    *)
(* the rows of ledger_blocks in index order and collects the indices of    *)
(* the corrupted ones.  The table is any sequence of rows SQLite can       *)
(* return, damaged ones included: the loop exists to be run on a damaged   *)
(* file.                                                                   *)
(***************************************************************************)
EXTENDS Naturals, Sequences, FiniteSets

CONSTANTS Tables,          \* the tables to verify, sequences of rows
          Unparsable,      \* the events whose text json.loads rejects
          Chain,           \* the blocks that had been written
          Digest(_, _, _)  \* SHA-256 of a row's index, event and previous_hash

\* The event stands for the columns timestamp, event_id and event.
Row(index, event, prev, hash) ==
    [index |-> index, event |-> event, previous_hash |-> prev, hash |-> hash]

IsRow(row) == row = Row(row.index, row.event, row.previous_hash, row.hash)

Recalculated(row) == Digest(row.index, row.event, row.previous_hash)

\* Rows come in primary-key order, so no index occurs twice.
ASSUME TablesAssumption ==
    \A table \in Tables :
        /\ DOMAIN table = 1 .. Len(table) /\ Len(table) \in Nat
        /\ \A j \in DOMAIN table : IsRow(table[j])
        /\ \A i, j \in DOMAIN table : table[i].index = table[j].index => i = j

\* Blocks carry the hash of their fields and that of the block before; the
\* genesis block's predecessor, 64 zeros, is no block's hash.
ASSUME ChainAssumption ==
    /\ DOMAIN Chain = 1 .. Len(Chain) /\ Len(Chain) \in Nat
    /\ \A m \in DOMAIN Chain :
          /\ IsRow(Chain[m]) /\ Chain[m].index = m - 1
          /\ Chain[m].hash = Recalculated(Chain[m])
          /\ m > 1 => Chain[m].previous_hash = Chain[m - 1].hash
          /\ Chain[1].previous_hash # Chain[m].hash

\* SHA-256: no row of a damaged table has the digest of another block.
ASSUME CollisionAssumption ==
    \A table \in Tables : \A j \in DOMAIN table, m \in DOMAIN Chain :
        Recalculated(table[j]) = Recalculated(Chain[m]) =>
            /\ table[j].index = Chain[m].index /\ table[j].event = Chain[m].event
            /\ table[j].previous_hash = Chain[m].previous_hash

VARIABLES rows,               \* what get_ledger_blocks returned
          k,                  \* position of the block being looked at
          expected_prev_hash,
          corrupted,          \* corrupted_indices
          verdict             \* how far it is: "reading", "checking", then
                              \* is_valid or the "error" it ended with

vars == << rows, k, expected_prev_hash, corrupted, verdict >>

Init ==
    /\ rows \in Tables
    /\ k = 1
    /\ expected_prev_hash = << >>
    /\ corrupted = {}
    /\ verdict = "reading"

Parses(row) == row.event \notin Unparsable

\* Mutant: what does not parse is left to the loop.
GetBlocksUnread ==
    /\ verdict = "reading"
    /\ verdict' = "checking"
    /\ expected_prev_hash' = IF rows = << >> THEN << >> ELSE rows[1].previous_hash
    /\ UNCHANGED << rows, k, corrupted >>

\* get_ledger_blocks: every event is parsed before the first block is checked,
\* and nothing catches the exception
GetBlocks ==
    /\ verdict = "reading"
    /\ IF \A j \in DOMAIN rows : Parses(rows[j])
       THEN /\ verdict' = "checking"
            /\ expected_prev_hash' = IF rows = << >> THEN << >> ELSE rows[1].previous_hash
       ELSE verdict' = "error" /\ UNCHANGED expected_prev_hash
    /\ UNCHANGED << rows, k, corrupted >>

\* the block does not continue the chain: reported, and not hashed again
BrokenLink ==
    /\ verdict = "checking" /\ k <= Len(rows)
    /\ rows[k].previous_hash # expected_prev_hash
    /\ corrupted' = corrupted \cup {rows[k].index}
    /\ expected_prev_hash' = rows[k].hash
    /\ k' = k + 1
    /\ UNCHANGED << rows, verdict >>

\* Mutants of CheckHash: the expected hash is the recalculated one; the block's
\* hash is trusted.
CheckHashRecalculated ==
    /\ verdict = "checking" /\ k <= Len(rows)
    /\ rows[k].previous_hash = expected_prev_hash
    /\ corrupted' = IF rows[k].hash # Recalculated(rows[k])
                    THEN corrupted \cup {rows[k].index} ELSE corrupted
    /\ expected_prev_hash' = Recalculated(rows[k])
    /\ k' = k + 1
    /\ UNCHANGED << rows, verdict >>
CheckHashTrusting ==
    /\ verdict = "checking" /\ k <= Len(rows)
    /\ rows[k].previous_hash = expected_prev_hash
    /\ expected_prev_hash' = rows[k].hash
    /\ k' = k + 1
    /\ UNCHANGED << rows, corrupted, verdict >>

\* the block continues the chain: its own hash is recalculated
CheckHash ==
    /\ verdict = "checking" /\ k <= Len(rows)
    /\ rows[k].previous_hash = expected_prev_hash
    /\ corrupted' = IF rows[k].hash # Recalculated(rows[k])
                    THEN corrupted \cup {rows[k].index} ELSE corrupted
    /\ expected_prev_hash' = rows[k].hash
    /\ k' = k + 1
    /\ UNCHANGED << rows, verdict >>

\* is_valid = len(corrupted_indices) == 0; an empty table is valid too
Finish ==
    /\ verdict = "checking" /\ k > Len(rows)
    /\ verdict' = IF corrupted = {} THEN "valid" ELSE "corrupt"
    /\ UNCHANGED << rows, k, expected_prev_hash, corrupted >>

Next == GetBlocks \/ BrokenLink \/ CheckHash \/ Finish

Spec == Init /\ [][Next]_vars

---------------------------------------------------------------------------
(* What the loop should report, stated without a loop *)

\* Row j does not carry the hash of its own fields.
WrongHash(table, j) == table[j].hash # Recalculated(table[j])

\* Row j is not linked to the row before it.
WrongLink(table, j) == j > 1 /\ table[j].previous_hash # table[j - 1].hash

\* The indices of the bad ones among the first n rows.
BadRows(table, n) ==
    {table[j].index : j \in {i \in 1 .. n : WrongHash(table, i) \/ WrongLink(table, i)}}

\* Types; the loop stops right behind the last row.
TypeOK ==
    /\ rows \in Tables
    /\ k \in 1 .. Len(rows) + 1
    /\ verdict \in {"reading", "checking", "error", "valid", "corrupt"}

\* Behind the loop lie exactly the bad rows, and the hash it expects next is
\* the stored hash of the row before.
LoopInv ==
    /\ corrupted = BadRows(rows, k - 1)
    /\ rows # << >> /\ verdict = "checking" => expected_prev_hash =
           (IF k = 1 THEN rows[1].previous_hash ELSE rows[k - 1].hash)
    /\ IF verdict \in {"reading", "error"} THEN k = 1
       ELSE \A j \in DOMAIN rows : Parses(rows[j])
    /\ verdict = "error" => \E j \in DOMAIN rows : ~ Parses(rows[j])
    /\ verdict \in {"valid", "corrupt"} => /\ k = Len(rows) + 1
                                           /\ verdict = "valid" <=> corrupted = {}

\* The report is exact: an index is reported if and only if its row does not
\* carry its own hash or is not linked to its predecessor (a broken link that
\* is reported without rehashing hides no other row, one bad row does not make
\* the rows after it look bad), and the table is valid if none is reported.
\* There is no report, and no row is named, if and only if some event does not
\* parse (backend/ledger_manager.py:165, 171-212).
ReportExact ==
    /\ verdict \in {"valid", "corrupt"} =>
          /\ corrupted = BadRows(rows, Len(rows))
          /\ verdict = "valid" <=> corrupted = {}
          /\ \A j \in DOMAIN rows : Parses(rows[j])
    /\ verdict = "error" =>
          /\ corrupted = {}
          /\ \E j \in DOMAIN rows : ~ Parses(rows[j])

\* The row is one of the blocks written, in which at most one column was changed.
Columns == {"index", "event", "previous_hash", "hash"}
OneColumnOff(row) ==
    \E m \in DOMAIN Chain, c \in Columns : \A d \in Columns \ {c} : row[d] = Chain[m][d]

\* If nothing is reported, no surviving row is damaged and no row is missing
\* between two others: the table is a contiguous run of the chain written, as
\* long as no row was changed in two columns.
ValidMeansUndamaged ==
    verdict = "valid" /\ (\A j \in DOMAIN rows : OneColumnOff(rows[j])) =>
        \E m \in 0 .. Len(Chain) - Len(rows) : \A j \in DOMAIN rows : rows[j] = Chain[m + j]
=============================================================================
