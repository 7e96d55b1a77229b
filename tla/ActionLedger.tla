---------------------------- MODULE ActionLedger ----------------------------
(***************************************************************************)
(* backend/ledger_manager.py: the hash-chained action ledger kept in the   *)
(* SQLite table ledger_blocks.                                             *)
(*                                                                         *)
(* Every call is made by a thread of some server process.  The module's    *)
(* _db_lock is a lock of one process; it is taken once for init_db, once   *)
(* for reading the latest block and once for the INSERT, and released in   *)
(* between, so an action here is one critical section and the sections of  *)
(* concurrent calls interleave.  Threads of different processes share only *)
(* the table.  A process may die at any point; the table survives.         *)
(*                                                                         *)
(* Abstracted: the timestamp and the JSON text of an event belong to the   *)
(* event; SHA-256 is an injective function of the fields it is given.      *)
(***************************************************************************)
EXTENDS Naturals, Sequences, FiniteSets

CONSTANTS Process,    \* operating-system processes that import the module
          Thread,     \* request-handling threads of those processes
          ProcessOf,  \* the process a thread belongs to
          Event,      \* the events callers log
          EventId,    \* values of the event_id column
          IdOf,       \* event id of every event, of Genesis too
          Genesis,    \* the event init_db writes into an empty table
          Nobody,     \* "no thread", the value of a free lock
          Asked,      \* block indices that evidence packs are asked for
          MaxCalls    \* bound on the number of calls (for model checking)

ASSUME ThreadsAssumption == /\ ProcessOf \in [Thread -> Process]
                            /\ Nobody \notin Thread
ASSUME EventsAssumption == /\ Genesis \notin Event
                           /\ IdOf \in [Event \cup {Genesis} -> EventId]
ASSUME BoundAssumption == MaxCalls \in Nat /\ Asked \subseteq Nat

VARIABLES ledger,   \* the table: a function from idx to the rest of the row
          lock,     \* holder of each process's _db_lock
          pc,       \* where each thread is in its call
          call,     \* what each thread was asked to do
          latest,   \* what get_latest_block returned to each thread
          shots,    \* results of the get_ledger_blocks calls made so far
          founder,  \* history: the thread that wrote the genesis block
          height0,  \* history: number of blocks when the call began
          calls     \* number of calls begun

vars == << ledger, lock, pc, call, latest, shots, founder, height0, calls >>

ZeroHash == << >>

\* hashlib.sha256(f"{idx}|{ts}|{event_id}|{event}|{prev}")
Hash(idx, event, prev) == << idx, event, prev >>

\* the row written for event at position idx on top of the hash prev
Block(idx, event, prev) ==
    [event |-> event, previous_hash |-> prev, hash |-> Hash(idx, event, prev)]

\* what a thread is asked to do when its request gives it no call
NoCall == [op |-> "none", arg |-> 0]

AddCalls == {[op |-> "add", arg |-> e] : e \in Event}
\* exports that read the table twice: the review bundle and the handoff packet
\* (the whole ledger), and the evidence pack of the block with a given index
ReadCalls == [op : {"export"}, arg : {0}] \cup [op : {"evidence"}, arg : Asked]
Calls == AddCalls \cup ReadCalls

NoShots == [reads |-> 0, first |-> << >>, second |-> << >>]
NoBlock == [index |-> 0, hash |-> ZeroHash, found |-> FALSE]

---------------------------------------------------------------------------
(* The table *)

\* SELECT ... ORDER BY idx DESC LIMIT 1
LastOf(indices) == CHOOSE idx \in indices : \A j \in indices : j <= idx
HeightOf(indices) == IF indices = {} THEN 0 ELSE LastOf(indices) + 1

Tip == LastOf(DOMAIN ledger)
Height == HeightOf(DOMAIN ledger)

HasId(id) == \E i \in DOMAIN ledger : IdOf[ledger[i].event] = id

\* Mutants of Clash: INSERT OR REPLACE by idx; event_id without UNIQUE.
ClashOnIdOnly(idx, event) == HasId(IdOf[event])
ClashOnIndexOnly(idx, event) == idx \in DOMAIN ledger

\* PRIMARY KEY idx and UNIQUE event_id: the INSERT raises IntegrityError
Clash(idx, event) == idx \in DOMAIN ledger \/ HasId(IdOf[event])

\* the table after an INSERT that SQLite accepts
WithRow(idx, row) == [i \in DOMAIN ledger \cup {idx} |-> IF i = idx THEN row ELSE ledger[i]]

---------------------------------------------------------------------------
(* Steps of a call *)

LockFree(t) == lock[ProcessOf[t]] = Nobody
Goto(t, label) == pc' = [pc EXCEPT ![t] = label]

\* the statement that follows init_db() in the function being executed
AfterInit(t) == IF call[t].op = "add" THEN "latest" ELSE "scan"

Begin(t, c) ==
    /\ pc[t] = "idle"
    /\ calls < MaxCalls
    /\ calls' = calls + 1
    /\ call' = [call EXCEPT ![t] = c]
    /\ height0' = [height0 EXCEPT ![t] = Height]
    /\ Goto(t, "init")
    /\ UNCHANGED << ledger, lock, latest, shots, founder >>

\* init_db finds rows: nothing to write
InitPresent(t) ==
    /\ pc[t] = "init" /\ LockFree(t)
    /\ DOMAIN ledger # {}
    /\ Goto(t, AfterInit(t))
    /\ UNCHANGED << ledger, lock, call, latest, shots, founder, height0, calls >>

\* init_db counts no rows and goes on, holding the lock, to write genesis
InitEmpty(t) ==
    /\ pc[t] = "init" /\ LockFree(t)
    /\ DOMAIN ledger = {}
    /\ lock' = [lock EXCEPT ![ProcessOf[t]] = t]
    /\ Goto(t, "genesis")
    /\ UNCHANGED << ledger, call, latest, shots, founder, height0, calls >>

Release(t) == lock' = [lock EXCEPT ![ProcessOf[t]] = Nobody]

InitGenesis(t) ==
    /\ pc[t] = "genesis"
    /\ ~Clash(0, Genesis)
    /\ ledger' = WithRow(0, Block(0, Genesis, ZeroHash))
    /\ founder' = t
    /\ Release(t)
    /\ Goto(t, AfterInit(t))
    /\ UNCHANGED << call, latest, shots, height0, calls >>

\* Mutant of InitCollides: an explicit release that the exception skips.
InitCollidesHolding(t) ==
    /\ pc[t] = "genesis"
    /\ Clash(0, Genesis)
    /\ Goto(t, "raised")
    /\ UNCHANGED << ledger, lock, call, latest, shots, founder, height0, calls >>

\* another process wrote genesis after our COUNT: init_db does not catch
\* the IntegrityError, its finally closes the connection and the caller fails
InitCollides(t) ==
    /\ pc[t] = "genesis"
    /\ Clash(0, Genesis)
    /\ Release(t)
    /\ Goto(t, "raised")
    /\ UNCHANGED << ledger, call, latest, shots, founder, height0, calls >>

\* get_latest_block
GetLatest(t) ==
    /\ pc[t] = "latest" /\ LockFree(t)
    /\ latest' = [latest EXCEPT ![t] =
           IF DOMAIN ledger = {} THEN NoBlock
           ELSE [index |-> Tip, hash |-> ledger[Tip].hash, found |-> TRUE]]
    /\ Goto(t, "insert")
    /\ UNCHANGED << ledger, lock, call, shots, founder, height0, calls >>

\* Mutants of NextIndex: the tip's own index; one below the tip.
NextIndexNotAdvanced(t) == IF latest[t].found THEN latest[t].index ELSE 1
NextIndexBackwards(t) == IF latest[t].found THEN latest[t].index - 1 ELSE 1

\* next_idx and prev_hash as add_event_to_ledger computes them
NextIndex(t) == IF latest[t].found THEN latest[t].index + 1 ELSE 1
PrevHash(t) == IF latest[t].found THEN latest[t].hash ELSE ZeroHash
NewBlock(t) == Block(NextIndex(t), call[t].arg, PrevHash(t))

\* the INSERT, in its own critical section
InsertBlock(t) ==
    /\ pc[t] = "insert" /\ LockFree(t)
    /\ ~Clash(NextIndex(t), call[t].arg)
    /\ ledger' = WithRow(NextIndex(t), NewBlock(t))
    /\ Goto(t, "stored")
    /\ UNCHANGED << lock, call, latest, shots, founder, height0, calls >>

\* except sqlite3.IntegrityError: pass -- the call returns its block anyway
InsertSwallowed(t) ==
    /\ pc[t] = "insert" /\ LockFree(t)
    /\ Clash(NextIndex(t), call[t].arg)
    /\ Goto(t, "swallowed")
    /\ UNCHANGED << ledger, lock, call, latest, shots, founder, height0, calls >>

\* get_ledger_blocks: one SELECT of the whole table.  Exports call it twice,
\* each time after another init_db; an evidence pack first looks its block up
ScanTable(t) ==
    /\ pc[t] = "scan" /\ LockFree(t)
    /\ shots' = [shots EXCEPT ![t] = 
           IF shots[t].reads = 0
           THEN [reads |-> 1, first |-> ledger, second |-> << >>]
           ELSE [reads |-> 2, first |-> shots[t].first, second |-> ledger]]
    /\ Goto(t, IF shots[t].reads = 1 THEN "exported"
               ELSE IF call[t].op = "evidence" /\ call[t].arg \notin DOMAIN ledger
                    THEN "not_found" ELSE "init")
    /\ UNCHANGED << ledger, lock, call, latest, founder, height0, calls >>

Finished == {"stored", "swallowed", "raised", "exported", "not_found"}

\* the call's locals when it is over or its process died
Forget(T) ==
    /\ pc' = [t \in Thread |-> IF t \in T THEN "idle" ELSE pc[t]]
    /\ call' = [t \in Thread |-> IF t \in T THEN NoCall ELSE call[t]]
    /\ latest' = [t \in Thread |-> IF t \in T THEN NoBlock ELSE latest[t]]
    /\ shots' = [t \in Thread |-> IF t \in T THEN NoShots ELSE shots[t]]
    /\ height0' = [t \in Thread |-> IF t \in T THEN 0 ELSE height0[t]]

\* the result reaches the caller
Return(t) ==
    /\ pc[t] \in Finished
    /\ Forget({t})
    /\ UNCHANGED << ledger, lock, founder, calls >>

ThreadsOf(p) == {t \in Thread : ProcessOf[t] = p}

\* the process dies, and is started again: its locals and its lock are gone
Crash(p) ==
    /\ \E t \in ThreadsOf(p) : pc[t] # "idle"
    /\ Forget(ThreadsOf(p))
    /\ lock' = [lock EXCEPT ![p] = Nobody]
    /\ UNCHANGED << ledger, founder, calls >>

---------------------------------------------------------------------------
Init ==
    /\ ledger = << >>
    /\ lock = [p \in Process |-> Nobody]
    /\ pc = [t \in Thread |-> "idle"]
    /\ call = [t \in Thread |-> NoCall]
    /\ latest = [t \in Thread |-> NoBlock]
    /\ shots = [t \in Thread |-> NoShots]
    /\ founder = Nobody
    /\ height0 = [t \in Thread |-> 0]
    /\ calls = 0

Step(t) ==
    \/ InitPresent(t)
    \/ InitEmpty(t)
    \/ InitGenesis(t)
    \/ InitCollides(t)
    \/ GetLatest(t)
    \/ InsertBlock(t)
    \/ InsertSwallowed(t)
    \/ ScanTable(t)
    \/ Return(t)

Next ==
    \/ \E t \in Thread : Step(t)
    \/ \E t \in Thread, c \in Calls : Begin(t, c)
    \/ \E p \in Process : Crash(p)

Spec == Init /\ [][Next]_vars

\* A call that was begun keeps running: the server's threads are scheduled
\* by the operating system and nothing in the module waits for anything but
\* _db_lock, which is only held for the length of one critical section.
FairSpec == Spec /\ \A t \in Thread : WF_vars(Step(t))

---------------------------------------------------------------------------
(* Properties *)

Labels == {"idle", "init", "genesis", "latest", "insert", "scan"} \cup Finished

\* Type invariant of the table and of the calls' locals.
TypeOK ==
    /\ DOMAIN ledger \subseteq Nat
    /\ \A i \in DOMAIN ledger : ledger[i].event \in Event \cup {Genesis}
    /\ lock \in [Process -> Thread \cup {Nobody}]
    /\ pc \in [Thread -> Labels]
    /\ call \in [Thread -> Calls \cup {NoCall}]
    /\ DOMAIN latest = Thread
    /\ \A t \in Thread : latest[t].index \in Nat /\ latest[t].found \in BOOLEAN
    /\ DOMAIN shots = Thread
    /\ height0 \in [Thread -> Nat]
    /\ founder \in Thread \cup {Nobody}
    /\ calls \in 0 .. MaxCalls

\* What verify_ledger_chain checks of a block: its hash is that of its own
\* fields, and it is linked to the block before it.
Linked(table, i) ==
    /\ table[i].hash = Hash(i, table[i].event, table[i].previous_hash)
    /\ i > 0 => i - 1 \in DOMAIN table /\ table[i].previous_hash = table[i - 1].hash

\* verify_ledger_chain finds nothing to report, ever: indices have no gap and
\* every block is linked, although the block a call writes was computed from a
\* tip that other threads and processes may have moved since it was read.
ChainIntact ==
    /\ \A i \in DOMAIN ledger : Linked(ledger, i)
    /\ DOMAIN ledger # {} => ledger[0].event = Genesis

\* An event id is recorded at most once, by any mix of retries and races.
EventIdsUnique ==
    \A i, j \in DOMAIN ledger : IdOf[ledger[i].event] = IdOf[ledger[j].event] => i = j

\* A call whose INSERT was refused was refused for a reason: its event id is in
\* the ledger, or another call appended a block after this one had begun (so of
\* any set of racing calls at least one makes progress).
RefusalJustified ==
    \A t \in Thread : pc[t] = "swallowed" =>
        HasId(IdOf[call[t].arg]) \/ Height > height0[t]

\* init_db can only fail because of another process: within one process the
\* lock covers both the COUNT and the INSERT of the genesis block.
InitRaceIsForeign ==
    \A t \in Thread : pc[t] = "raised" =>
        founder # Nobody /\ ProcessOf[founder] # ProcessOf[t]

IsPrefixOf(s, u) == DOMAIN s \subseteq DOMAIN u /\ \A i \in DOMAIN s : s[i] = u[i]

\* The two reads of one export are not atomic, yet they agree: the review
\* bundle and the evidence pack export blocks first and verify a later read,
\* the handoff packet verifies first and exports a later read; in each case
\* the earlier table is a prefix of the later one, so the verdict exported
\* speaks of the blocks exported as far as both go.
ExportConsistent ==
    \A t \in Thread : pc[t] = "exported" =>
        /\ IsPrefixOf(shots[t].first, shots[t].second)
        /\ \A i \in DOMAIN shots[t].second : Linked(shots[t].second, i)
        /\ call[t].op = "evidence" => call[t].arg \in DOMAIN shots[t].second

\* No step of any thread or crash removes or rewrites a block, and at most one
\* block is added at a time.
AppendOnly ==
    [][/\ IsPrefixOf(ledger, ledger')
       /\ \A i, j \in DOMAIN ledger' \ DOMAIN ledger : i = j]_ledger

\* Every call returns: no interleaving of the critical sections, failure of
\* init_db or crash leaves a lock taken for good.
CallsReturn == \A t \in Thread : pc[t] # "idle" ~> pc[t] = "idle"

\* The comment of the except clause: the event is already in the ledger.
SwallowedIsDuplicate ==
    \A t \in Thread : pc[t] = "swallowed" => HasId(IdOf[call[t].arg])

---------------------------------------------------------------------------
(* The inductive invariant behind the safety properties *)

\* The rows are numbered from 0 without a gap.
Contiguous == Height \in Nat /\ DOMAIN ledger = 0 .. Height - 1

\* Only add_event_to_ledger reads the tip and inserts, only exports scan.
CallFitsLabel ==
    \A t \in Thread :
        /\ pc[t] \in {"latest", "insert", "stored", "swallowed"} => call[t] \in AddCalls
        /\ pc[t] \in {"scan", "exported", "not_found"} => call[t] \in ReadCalls
        /\ pc[t] \in {"init", "genesis"} => call[t] \in Calls

\* A thread about to INSERT holds the index and hash of a block of the chain,
\* no lower than the tip was when its call began.
LatestIsABlock ==
    \A t \in Thread : pc[t] = "insert" =>
        /\ latest[t].found
        /\ latest[t].index \in DOMAIN ledger
        /\ latest[t].hash = ledger[latest[t].index].hash
        /\ height0[t] <= latest[t].index + 1

\* Past init_db there is a genesis block; the ledger never shrinks below the
\* height a call found.
Initialised ==
    \A t \in Thread : /\ pc[t] \notin {"idle", "init", "genesis", "raised"} => DOMAIN ledger # {}
                      /\ height0[t] <= Height

\* _db_lock is held across steps by the thread writing genesis and no other,
\* and a table that is no longer empty was founded by another process.
GenesisLock ==
    /\ \A t \in Thread : pc[t] = "genesis" <=> lock[ProcessOf[t]] = t
    /\ \A p \in Process : lock[p] # Nobody => ProcessOf[lock[p]] = p
    /\ DOMAIN ledger = {} <=> founder = Nobody
    /\ \A t \in Thread : pc[t] = "genesis" /\ founder # Nobody =>
                             ProcessOf[founder] # ProcessOf[t]

\* The tables a thread has read are prefixes of each other and of the ledger.
ShotsArePrefixes ==
    \A t \in Thread :
        /\ pc[t] = "idle" => shots[t].reads = 0
        /\ pc[t] \in {"init", "genesis", "scan"} => shots[t].reads \in {0, 1}
        /\ shots[t].reads = 1 => IsPrefixOf(shots[t].first, ledger)
        /\ shots[t].reads = 1 /\ call[t].op = "evidence" /\ pc[t] # "not_found" =>
               call[t].arg \in DOMAIN shots[t].first

\* The conjunction is preserved by every step (proved in ActionLedger_proofs).
IInv == /\ TypeOK
        /\ Contiguous
        /\ CallFitsLabel
        /\ ChainIntact
        /\ EventIdsUnique
        /\ LatestIsABlock
        /\ Initialised
        /\ GenesisLock
        /\ RefusalJustified
        /\ InitRaceIsForeign
        /\ ShotsArePrefixes
        /\ ExportConsistent

\* The ledger implements the append-only log.
EventLog == [n \in 1 .. Height |-> ledger[n - 1].event]
Abstract == INSTANCE AppendOnlyLog WITH log <- EventLog
RefinesLog == Abstract!Spec
=============================================================================
