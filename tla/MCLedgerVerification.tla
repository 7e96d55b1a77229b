----------------------- MODULE MCLedgerVerification -----------------------
(***************************************************************************)
(* A chain of four blocks as add_event_to_ledger writes it, from which any *)
(* rows are missing and in which at most one field of one row is damaged,  *)
(* an event also so that its text no longer parses.                        *)
(***************************************************************************)
EXTENDS LedgerVerification, SequencesExt

Digested(idx, event, prev) == << idx, event, prev >>

Written(idx, event, prev) == Row(idx, event, prev, Digested(idx, event, prev))

Zero == << >>
B0 == Written(0, "genesis", Zero)
B1 == Written(1, "a", B0.hash)
B2 == Written(2, "b", B1.hash)
B3 == Written(3, "c", B2.hash)
MCChain == << B0, B1, B2, B3 >>

Hashes == {Zero, << "junk" >>} \cup {MCChain[i].hash : i \in 1 .. 4}

Damaged(row) ==
    {row} \cup {[row EXCEPT !.event = e] : e \in {"damaged", "cut off"}}
          \cup {[row EXCEPT !.index = 9]}
          \cup {[row EXCEPT !.previous_hash = h] : h \in Hashes}
          \cup {[row EXCEPT !.hash = h] : h \in Hashes}

\* the rows of the chain at the positions in S
Kept(S) == [n \in 1 .. Cardinality(S) |-> MCChain[SetToSortSeq(S, <)[n]]]

OneDamaged(t) == {t} \cup UNION {{[t EXCEPT ![n] = row] : row \in Damaged(t[n])} : n \in DOMAIN t}

MCTables == UNION {OneDamaged(Kept(S)) : S \in SUBSET (1 .. 4)}
=============================================================================
