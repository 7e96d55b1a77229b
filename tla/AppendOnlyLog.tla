--------------------------- MODULE AppendOnlyLog ---------------------------
(***************************************************************************)
(* What the swarm's action ledger promises its readers: an append-only     *)
(* sequence of events that starts with the genesis event and in which an   *)
(* event id occurs at most once.  It says nothing of who appends: every    *)
(* call of add_event_to_ledger is one Append step or a stutter.            *)
(***************************************************************************)
EXTENDS Naturals, Sequences

CONSTANTS Event,    \* the events callers may log
          EventId,  \* the values of the event_id column
          IdOf,     \* the id of every event, the genesis event included
          Genesis   \* the event of the block init_db writes

VARIABLE log        \* the events, in ledger order

Used(id) == \E i \in DOMAIN log : IdOf[log[i]] = id

Init == log = << >>

Found == log = << >> /\ log' = << Genesis >>

Record(e) == /\ log # << >>
             /\ ~Used(IdOf[e])
             /\ log' = Append(log, e)

Next == Found \/ \E e \in Event : Record(e)

Spec == Init /\ [][Next]_log
=============================================================================
