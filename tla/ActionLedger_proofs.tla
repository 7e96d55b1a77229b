------------------------ MODULE ActionLedger_proofs ------------------------
(***************************************************************************)
(* Proofs about the action ledger, for any processes, threads and events.  *)
(***************************************************************************)
EXTENDS ActionLedger, TLAPS

USE ThreadsAssumption, EventsAssumption, BoundAssumption

---------------------------------------------------------------------------
(* Facts about the operators *)

\* The tip of a table numbered 0 .. n - 1 is n - 1 and its height is n.
LEMMA LastOfInterval ==
    ASSUME NEW n \in Nat
    PROVE  /\ HeightOf(0 .. n - 1) = n
           /\ n > 0 => LastOf(0 .. n - 1) = n - 1
  <1>1. CASE n = 0
    BY <1>1 DEF HeightOf
  <1>2. CASE n > 0
    <2>1. n - 1 \in 0 .. n - 1 /\ \A j \in 0 .. n - 1 : j <= n - 1
      BY <1>2
    <2>2. \A i \in 0 .. n - 1 : (\A j \in 0 .. n - 1 : j <= i) => i = n - 1
      BY <1>2
    <2>3. LastOf(0 .. n - 1) = n - 1
      BY <2>1, <2>2 DEF LastOf
    <2> QED
      BY <1>2, <2>1, <2>3 DEF HeightOf
  <1> QED
    BY <1>1, <1>2

\* The tip of a ledger without gaps is a natural number below its height.
LEMMA TipBelowHeight ==
    ASSUME Contiguous, DOMAIN ledger # {}
    PROVE  Tip \in DOMAIN ledger /\ Tip \in Nat /\ Height = Tip + 1
  <1>1. Height > 0
    BY DEF Contiguous
  <1> QED
    BY <1>1, LastOfInterval DEF Contiguous, Tip

\* A row written at the height of a ledger without gaps leaves no gap.
LEMMA RowOnTop ==
    ASSUME Contiguous, NEW row, ledger' = WithRow(Height, row)
    PROVE  /\ Contiguous'
           /\ Height' = Height + 1
           /\ DOMAIN ledger' = DOMAIN ledger \cup {Height}
           /\ ledger'[Height] = row
           /\ IsPrefixOf(ledger, ledger')
  <1>1. DOMAIN ledger' = DOMAIN ledger \cup {Height}
    BY DEF WithRow
  <1>2. DOMAIN ledger' = 0 .. (Height + 1) - 1
    BY <1>1 DEF Contiguous
  <1>3. HeightOf(DOMAIN ledger') = Height + 1
    BY <1>2, LastOfInterval DEF Contiguous
  <1>4. Height' = Height + 1 /\ Contiguous'
    BY <1>2, <1>3 DEF Contiguous, Height
  <1>5. Height \notin DOMAIN ledger
    BY DEF Contiguous
  <1>6. IsPrefixOf(ledger, ledger') /\ ledger'[Height] = row
    BY <1>5 DEF WithRow, IsPrefixOf
  <1> QED
    BY <1>1, <1>4, <1>6

\* init_db writes genesis into an empty table.
LEMMA GenesisOnTop ==
    ASSUME IInv, NEW t \in Thread, InitGenesis(t)
    PROVE  /\ DOMAIN ledger = {} /\ Height = 0
           /\ ledger' = WithRow(Height, Block(0, Genesis, ZeroHash))
  <1>1. DOMAIN ledger = 0 .. Height - 1 /\ Height \in Nat
    BY DEF IInv, Contiguous
  <1>2. 0 \notin DOMAIN ledger
    BY DEF InitGenesis, Clash
  <1>3. Height = 0
    BY <1>1, <1>2
  <1> QED
    BY <1>1, <1>3 DEF InitGenesis

\* An accepted INSERT was computed from the tip, which is then still the tip.
LEMMA InsertOnTop ==
    ASSUME IInv, NEW t \in Thread, InsertBlock(t)
    PROVE  /\ Height > 0 /\ NextIndex(t) = Height /\ latest[t].index = Height - 1
           /\ PrevHash(t) = ledger[Height - 1].hash
           /\ call[t].arg \in Event /\ ~HasId(IdOf[call[t].arg])
           /\ ledger' = WithRow(Height, Block(Height, call[t].arg, PrevHash(t)))
  <1>1. DOMAIN ledger = 0 .. Height - 1 /\ Height \in Nat
    BY DEF IInv, Contiguous
  <1>2. /\ latest[t].found
        /\ latest[t].index \in DOMAIN ledger
        /\ latest[t].hash = ledger[latest[t].index].hash
    BY DEF IInv, LatestIsABlock, InsertBlock
  <1>3. NextIndex(t) = latest[t].index + 1 /\ PrevHash(t) = latest[t].hash
    BY <1>2 DEF NextIndex, PrevHash
  <1>4. NextIndex(t) \notin DOMAIN ledger /\ ~HasId(IdOf[call[t].arg])
    BY DEF InsertBlock, Clash
  <1>5. latest[t].index = Height - 1 /\ NextIndex(t) = Height /\ Height > 0
    BY <1>1, <1>2, <1>3, <1>4
  <1>6. call[t].arg \in Event
    BY DEF IInv, CallFitsLabel, InsertBlock, AddCalls
  <1> QED
    BY <1>2, <1>3, <1>4, <1>5, <1>6 DEF InsertBlock, NewBlock

---------------------------------------------------------------------------
(* The type invariant *)

\* What is left of calls that are forgotten has the types of no call.
LEMMA ForgetType ==
    ASSUME TypeOK, NEW T \in SUBSET Thread, Forget(T),
           lock' \in [Process -> Thread \cup {Nobody}], UNCHANGED << ledger, founder, calls >>
    PROVE  TypeOK'
  BY DEF TypeOK, Forget, Labels, NoBlock

\* Every step keeps the types.
LEMMA TypeStep == IInv /\ [Next]_vars => TypeOK'
  <1> SUFFICES ASSUME IInv, [Next]_vars PROVE TypeOK'
    OBVIOUS
  <1> TypeOK
    BY DEF IInv
  <1>1. CASE UNCHANGED vars
    BY <1>1 DEF TypeOK, vars
  <1>2. ASSUME NEW t \in Thread, InitPresent(t) PROVE TypeOK'
    BY <1>2 DEF TypeOK, InitPresent, Goto, AfterInit, Labels
  <1>3. ASSUME NEW t \in Thread, InitEmpty(t) PROVE TypeOK'
    BY <1>3 DEF TypeOK, InitEmpty, Goto, Labels
  <1>4. ASSUME NEW t \in Thread, InitGenesis(t) PROVE TypeOK'
    BY <1>4 DEF TypeOK, InitGenesis, Goto, Release, AfterInit, Labels, WithRow, Block
  <1>5. ASSUME NEW t \in Thread, InitCollides(t) PROVE TypeOK'
    BY <1>5 DEF TypeOK, InitCollides, Goto, Release, Labels, Finished
  <1>6. ASSUME NEW t \in Thread, GetLatest(t) PROVE TypeOK'
    <2>1. DOMAIN ledger # {} => Tip \in Nat
      BY TipBelowHeight DEF IInv
    <2> QED
      BY <1>6, <2>1 DEF TypeOK, GetLatest, Goto, Labels, NoBlock
  <1>7. ASSUME NEW t \in Thread, InsertBlock(t) PROVE TypeOK'
    <2>1. call[t].arg \in Event /\ NextIndex(t) = Height /\ Height \in Nat
      BY <1>7, InsertOnTop DEF IInv, Contiguous
    <2> QED
      BY <1>7, <2>1 DEF TypeOK, InsertBlock, Goto, Labels, Finished, WithRow, NewBlock, Block
  <1>8. ASSUME NEW t \in Thread, InsertSwallowed(t) PROVE TypeOK'
    BY <1>8 DEF TypeOK, InsertSwallowed, Goto, Labels, Finished
  <1>9. ASSUME NEW t \in Thread, ScanTable(t) PROVE TypeOK'
    BY <1>9 DEF TypeOK, ScanTable, Goto, Labels, Finished
  <1>10. ASSUME NEW t \in Thread, Return(t) PROVE TypeOK'
    BY <1>10, ForgetType DEF TypeOK, Return
  <1>11. ASSUME NEW t \in Thread, NEW c \in Calls, Begin(t, c) PROVE TypeOK'
    <2>1. Height \in Nat
      BY DEF IInv, Contiguous
    <2> QED
      BY <1>11, <2>1 DEF TypeOK, Begin, Goto, Labels
  <1>12. ASSUME NEW p \in Process, Crash(p) PROVE TypeOK'
    BY <1>12, ForgetType DEF TypeOK, Crash, ThreadsOf
  <1> QED
    BY <1>1, <1>2, <1>3, <1>4, <1>5, <1>6, <1>7, <1>8, <1>9, <1>10, <1>11, <1>12
    DEF Next, Step

---------------------------------------------------------------------------
(* The table grows by whole blocks *)

\* A step leaves the table alone, founds it or puts a block on top.
LEMMA WriteCases ==
    ASSUME [Next]_vars
    PROVE  \/ UNCHANGED << ledger, founder >>
           \/ \E t \in Thread : InitGenesis(t)
           \/ \E t \in Thread : InsertBlock(t)
  <1>1. ASSUME NEW t \in Thread, Step(t)
        PROVE  UNCHANGED << ledger, founder >> \/ InitGenesis(t) \/ InsertBlock(t)
    BY <1>1 DEF Step, InitPresent, InitEmpty, InitCollides, GetLatest, InsertSwallowed,
                ScanTable, Return
  <1>2. ASSUME NEW t \in Thread, NEW c \in Calls, Begin(t, c)
        PROVE  UNCHANGED << ledger, founder >>
    BY <1>2 DEF Begin
  <1>3. ASSUME NEW p \in Process, Crash(p) PROVE UNCHANGED << ledger, founder >>
    BY <1>3 DEF Crash
  <1> QED
    BY <1>1, <1>2, <1>3 DEF Next, vars

\* The old table is a prefix of the new one, which is at most one block higher.
LEMMA LedgerGrows ==
    ASSUME IInv, [Next]_vars
    PROVE  /\ Contiguous'
           /\ IsPrefixOf(ledger, ledger')
           /\ Height' \in {Height, Height + 1}
           /\ DOMAIN ledger' \subseteq DOMAIN ledger \cup {Height}
  <1> Contiguous
    BY DEF IInv
  <1>1. CASE UNCHANGED ledger
    BY <1>1 DEF Contiguous, Height, IsPrefixOf
  <1>2. CASE \E t \in Thread : InitGenesis(t)
    BY <1>2, GenesisOnTop, RowOnTop
  <1>3. CASE \E t \in Thread : InsertBlock(t)
    BY <1>3, InsertOnTop, RowOnTop
  <1> QED
    BY <1>1, <1>2, <1>3, WriteCases

\* Blocks already linked stay linked when the table grows.
LEMMA LinkedInPrefix ==
    ASSUME NEW s, NEW u, IsPrefixOf(s, u), NEW i \in DOMAIN s, i \in Nat, Linked(s, i)
    PROVE  Linked(u, i)
  BY DEF IsPrefixOf, Linked

\* Every block written is linked to its predecessor.
LEMMA ChainStep == IInv /\ [Next]_vars => ChainIntact'
  <1> SUFFICES ASSUME IInv, [Next]_vars PROVE ChainIntact'
    OBVIOUS
  <1> Contiguous /\ ChainIntact /\ DOMAIN ledger \subseteq Nat
    BY DEF IInv, TypeOK
  <1>1. CASE UNCHANGED ledger
    BY <1>1 DEF ChainIntact
  <1>2. ASSUME NEW t \in Thread, InitGenesis(t) PROVE ChainIntact'
    <2>1. Height = 0 /\ DOMAIN ledger' = {0} /\ ledger'[0] = Block(0, Genesis, ZeroHash)
      BY <1>2, GenesisOnTop, RowOnTop
    <2> QED
      BY <2>1 DEF ChainIntact, Linked, Block
  <1>3. ASSUME NEW t \in Thread, InsertBlock(t) PROVE ChainIntact'
    <2>1. /\ Height > 0 /\ Height \in Nat
          /\ PrevHash(t) = ledger[Height - 1].hash
          /\ DOMAIN ledger' = DOMAIN ledger \cup {Height}
          /\ ledger'[Height] = Block(Height, call[t].arg, PrevHash(t))
          /\ IsPrefixOf(ledger, ledger')
      BY <1>3, InsertOnTop, RowOnTop DEF Contiguous
    <2>2. Height - 1 \in DOMAIN ledger /\ 0 \in DOMAIN ledger
      BY <2>1 DEF Contiguous
    <2>3. ledger'[Height - 1] = ledger[Height - 1] /\ ledger'[0] = ledger[0]
      BY <2>1, <2>2 DEF IsPrefixOf
    <2>4. Linked(ledger', Height)
      BY <2>1, <2>2, <2>3 DEF Linked, Block
    <2>5. \A i \in DOMAIN ledger : Linked(ledger', i)
      BY <2>1, LinkedInPrefix DEF ChainIntact
    <2> QED
      BY <2>1, <2>2, <2>3, <2>4, <2>5 DEF ChainIntact
  <1> QED
    BY <1>1, <1>2, <1>3, WriteCases

\* A block is only written under an event id that is not in the table.
LEMMA IdsStep == IInv /\ [Next]_vars => EventIdsUnique'
  <1> SUFFICES ASSUME IInv, [Next]_vars PROVE EventIdsUnique'
    OBVIOUS
  <1> Contiguous /\ EventIdsUnique
    BY DEF IInv
  <1>1. CASE UNCHANGED ledger
    BY <1>1 DEF EventIdsUnique
  <1>2. ASSUME NEW t \in Thread, InitGenesis(t) PROVE EventIdsUnique'
    <2>1. DOMAIN ledger' = {0}
      BY <1>2, GenesisOnTop, RowOnTop
    <2> QED
      BY <2>1 DEF EventIdsUnique
  <1>3. ASSUME NEW t \in Thread, InsertBlock(t) PROVE EventIdsUnique'
    <2>0. /\ DOMAIN ledger' = DOMAIN ledger \cup {Height}
          /\ ledger'[Height] = Block(Height, call[t].arg, PrevHash(t))
          /\ ~HasId(IdOf[call[t].arg])
          /\ IsPrefixOf(ledger, ledger')
      BY <1>3, InsertOnTop, RowOnTop
    <2>1. /\ ledger'[Height].event = call[t].arg
          /\ \A i \in DOMAIN ledger : ledger'[i] = ledger[i]
      BY <2>0 DEF IsPrefixOf, Block
    <2>2. \A i \in DOMAIN ledger : IdOf[ledger'[i].event] # IdOf[ledger'[Height].event]
      BY <2>0, <2>1 DEF HasId
    <2> QED
      BY <2>0, <2>1, <2>2 DEF EventIdsUnique
  <1> QED
    BY <1>1, <1>2, <1>3, WriteCases

---------------------------------------------------------------------------
(* Where the threads are *)

\* A thread that a step does not move keeps its label and its locals.
ThreadKept(t) == /\ pc'[t] = pc[t] /\ call'[t] = call[t] /\ latest'[t] = latest[t]
                 /\ shots'[t] = shots[t] /\ height0'[t] = height0[t]

\* A thread that forgets its call is idle and has read nothing.
ThreadIdle(t) == /\ pc'[t] = "idle" /\ call'[t] = NoCall /\ latest'[t] = NoBlock
                 /\ shots'[t] = NoShots /\ height0'[t] = 0

\* Seen from a thread t, a step is a step of t, ends t's call or keeps t.
LEMMA ThreadCases ==
    ASSUME TypeOK, [Next]_vars, NEW t \in Thread
    PROVE  \/ ThreadKept(t)
           \/ ThreadIdle(t)
           \/ InitPresent(t) \/ InitEmpty(t) \/ InitGenesis(t) \/ InitCollides(t)
           \/ GetLatest(t) \/ InsertBlock(t) \/ InsertSwallowed(t) \/ ScanTable(t)
           \/ \E c \in Calls : Begin(t, c)
  <1>1. ASSUME NEW u \in Thread, u # t, Step(u) PROVE ThreadKept(t)
    BY <1>1 DEF Step, InitPresent, InitEmpty, InitGenesis, InitCollides, GetLatest, InsertBlock,
                InsertSwallowed, ScanTable, Return, Forget, Goto, ThreadKept, TypeOK
  <1>2. ASSUME NEW u \in Thread, u # t, NEW c \in Calls, Begin(u, c) PROVE ThreadKept(t)
    BY <1>2 DEF Begin, Goto, ThreadKept, TypeOK
  <1>3. ASSUME Return(t) PROVE ThreadIdle(t)
    BY <1>3 DEF Return, Forget, ThreadIdle
  <1>4. ASSUME NEW p \in Process, Crash(p) PROVE ThreadIdle(t) \/ ThreadKept(t)
    BY <1>4 DEF Crash, Forget, ThreadIdle, ThreadKept
  <1>5. CASE UNCHANGED vars
    BY <1>5 DEF vars, ThreadKept
  <1> QED
    BY <1>1, <1>2, <1>3, <1>4, <1>5 DEF Next, Step

\* The label of a thread fits what it was asked to do.
LEMMA CallFitsStep == IInv /\ [Next]_vars => CallFitsLabel'
  <1> SUFFICES ASSUME IInv, [Next]_vars, NEW t \in Thread
               PROVE  /\ pc'[t] \in {"latest", "insert", "stored", "swallowed"} => call'[t] \in AddCalls
                      /\ pc'[t] \in {"scan", "exported", "not_found"} => call'[t] \in ReadCalls
                      /\ pc'[t] \in {"init", "genesis"} => call'[t] \in Calls
    BY DEF CallFitsLabel
  <1> TypeOK /\ CallFitsLabel
    BY DEF IInv
  <1>1. CASE ThreadKept(t)
    BY <1>1 DEF ThreadKept, CallFitsLabel
  <1>2. CASE ThreadIdle(t)
    BY <1>2 DEF ThreadIdle
  <1>3. \A c \in Calls : IF c.op = "add" THEN c \in AddCalls ELSE c \in ReadCalls
    BY DEF Calls, AddCalls, ReadCalls
  <1>4. CASE InitPresent(t) \/ InitGenesis(t)
    BY <1>3, <1>4 DEF InitPresent, InitGenesis, Goto, AfterInit, CallFitsLabel, TypeOK
  <1>5. CASE InitEmpty(t) \/ InitCollides(t)
    BY <1>5 DEF InitEmpty, InitCollides, Goto, CallFitsLabel, TypeOK
  <1>6. CASE GetLatest(t) \/ InsertBlock(t) \/ InsertSwallowed(t)
    BY <1>6 DEF GetLatest, InsertBlock, InsertSwallowed, Goto, CallFitsLabel, TypeOK
  <1>7. CASE ScanTable(t)
    BY <1>7 DEF ScanTable, Goto, CallFitsLabel, TypeOK, Calls
  <1>8. ASSUME NEW c \in Calls, Begin(t, c) PROVE pc'[t] = "init" /\ call'[t] \in Calls
    BY <1>8 DEF Begin, Goto, TypeOK
  <1> QED
    BY <1>1, <1>2, <1>4, <1>5, <1>6, <1>7, <1>8, ThreadCases

\* What a thread will insert was computed from a block that is in the table.
LEMMA LatestStep == IInv /\ [Next]_vars => LatestIsABlock'
  <1> SUFFICES ASSUME IInv, [Next]_vars, NEW t \in Thread, pc'[t] = "insert"
               PROVE  /\ latest'[t].found
                      /\ latest'[t].index \in DOMAIN ledger'
                      /\ latest'[t].hash = ledger'[latest'[t].index].hash
                      /\ height0'[t] <= latest'[t].index + 1
    BY DEF LatestIsABlock
  <1> TypeOK /\ LatestIsABlock /\ Initialised /\ Contiguous
    BY DEF IInv
  <1>1. CASE ThreadKept(t)
    BY <1>1, LedgerGrows DEF ThreadKept, LatestIsABlock, IsPrefixOf
  <1>2. CASE GetLatest(t)
    <2>1. DOMAIN ledger # {} /\ height0[t] <= Height
      BY <1>2 DEF GetLatest, Initialised
    <2>2. Tip \in DOMAIN ledger /\ Height = Tip + 1
      BY <2>1, TipBelowHeight
    <2>3. latest'[t] = [index |-> Tip, hash |-> ledger[Tip].hash, found |-> TRUE]
      BY <1>2, <2>1 DEF GetLatest, TypeOK
    <2> QED
      BY <1>2, <2>1, <2>2, <2>3 DEF GetLatest
  <1>3. ~ThreadIdle(t)
    BY DEF ThreadIdle
  <1>4. ~(InitPresent(t) \/ InitEmpty(t) \/ InitGenesis(t) \/ InitCollides(t))
    BY DEF InitPresent, InitEmpty, InitGenesis, InitCollides, Goto, AfterInit, TypeOK
  <1>5. ~(InsertBlock(t) \/ InsertSwallowed(t) \/ ScanTable(t) \/ \E c \in Calls : Begin(t, c))
    BY DEF InsertBlock, InsertSwallowed, ScanTable, Begin, Goto, TypeOK
  <1> QED
    BY <1>1, <1>2, <1>3, <1>4, <1>5, ThreadCases

\* Past init_db the table is not empty, and it only grows under a call.
LEMMA InitialisedStep == IInv /\ [Next]_vars => Initialised'
  <1> SUFFICES ASSUME IInv, [Next]_vars, NEW t \in Thread
               PROVE  /\ pc'[t] \notin {"idle", "init", "genesis", "raised"} => DOMAIN ledger' # {}
                      /\ height0'[t] <= Height'
    BY DEF Initialised
  <1> TypeOK /\ Initialised /\ Contiguous
    BY DEF IInv
  <1>1. /\ DOMAIN ledger \subseteq DOMAIN ledger'
        /\ Height' \in Nat /\ Height \in Nat /\ Height <= Height'
    BY LedgerGrows DEF IsPrefixOf, Contiguous
  <1>2. CASE ThreadKept(t)
    BY <1>1, <1>2 DEF ThreadKept, Initialised, TypeOK
  <1>3. CASE ThreadIdle(t)
    BY <1>1, <1>3 DEF ThreadIdle
  <1>4. CASE InitPresent(t) \/ InitEmpty(t) \/ InitCollides(t)
    BY <1>1, <1>4 DEF InitPresent, InitEmpty, InitCollides, Goto, Initialised, TypeOK
  <1>5. CASE InitGenesis(t)
    <2>1. DOMAIN ledger' # {}
      BY <1>5, GenesisOnTop, RowOnTop
    <2> QED
      BY <1>1, <1>5, <2>1 DEF InitGenesis, Initialised, TypeOK
  <1>6. CASE GetLatest(t) \/ InsertBlock(t) \/ InsertSwallowed(t) \/ ScanTable(t)
    <2>1. pc[t] \in {"latest", "insert", "scan"} /\ height0'[t] = height0[t]
      BY <1>6 DEF GetLatest, InsertBlock, InsertSwallowed, ScanTable
    <2>2. DOMAIN ledger # {} /\ height0[t] <= Height /\ height0[t] \in Nat
      BY <2>1 DEF Initialised, TypeOK
    <2> QED
      BY <1>1, <2>1, <2>2
  <1>7. ASSUME NEW c \in Calls, Begin(t, c) PROVE pc'[t] = "init" /\ height0'[t] <= Height'
    BY <1>1, <1>7 DEF Begin, Goto, TypeOK
  <1> QED
    BY <1>2, <1>3, <1>4, <1>5, <1>6, <1>7, ThreadCases

---------------------------------------------------------------------------
(* The lock and the genesis block *)

\* The lock is held across steps exactly while genesis is being written.
LEMMA GenesisLockStep == IInv /\ [Next]_vars => GenesisLock'
  <1> SUFFICES ASSUME IInv, [Next]_vars PROVE GenesisLock'
    OBVIOUS
  <1> TypeOK /\ GenesisLock /\ Contiguous
    BY DEF IInv
  <1>1. CASE UNCHANGED vars
    BY <1>1 DEF vars, GenesisLock
  <1>2. ASSUME NEW t \in Thread, InitPresent(t) PROVE GenesisLock'
    BY <1>2 DEF InitPresent, Goto, AfterInit, GenesisLock, TypeOK
  <1>3. ASSUME NEW t \in Thread, InitEmpty(t) PROVE GenesisLock'
    BY <1>3 DEF InitEmpty, LockFree, Goto, GenesisLock, TypeOK
  <1>4. ASSUME NEW t \in Thread, InitGenesis(t) PROVE GenesisLock'
    <2>1. /\ pc' = [pc EXCEPT ![t] = AfterInit(t)] /\ pc[t] = "genesis" /\ founder' = t
          /\ lock' = [lock EXCEPT ![ProcessOf[t]] = Nobody]
      BY <1>4 DEF InitGenesis, Goto, Release
    <2>2. AfterInit(t) # "genesis"
      BY DEF AfterInit
    <2>3. DOMAIN ledger' # {}
      BY <1>4, GenesisOnTop, RowOnTop
    <2>4. \A u \in Thread : pc'[u] = "genesis" => pc[u] = "genesis" /\ ProcessOf[u] # ProcessOf[t]
      BY <2>1, <2>2 DEF GenesisLock, TypeOK
    <2> QED
      BY <2>1, <2>2, <2>3, <2>4 DEF GenesisLock, TypeOK
  <1>5. ASSUME NEW t \in Thread, InitCollides(t) PROVE GenesisLock'
    BY <1>5 DEF InitCollides, Goto, Release, GenesisLock, TypeOK
  <1>6. ASSUME NEW t \in Thread, GetLatest(t) \/ InsertSwallowed(t) PROVE GenesisLock'
    BY <1>6 DEF GetLatest, InsertSwallowed, Goto, GenesisLock, TypeOK
  <1>7. ASSUME NEW t \in Thread, InsertBlock(t) PROVE GenesisLock'
    <2>1. DOMAIN ledger # {} /\ DOMAIN ledger' # {}
      BY <1>7, InsertOnTop, RowOnTop DEF Contiguous
    <2> QED
      BY <1>7, <2>1 DEF InsertBlock, Goto, GenesisLock, TypeOK
  <1>8. ASSUME NEW t \in Thread, ScanTable(t) PROVE GenesisLock'
    BY <1>8 DEF ScanTable, Goto, GenesisLock, TypeOK
  <1>9. ASSUME NEW t \in Thread, Return(t) PROVE GenesisLock'
    BY <1>9 DEF Return, Finished, Forget, GenesisLock, TypeOK
  <1>10. ASSUME NEW t \in Thread, NEW c \in Calls, Begin(t, c) PROVE GenesisLock'
    BY <1>10 DEF Begin, Goto, GenesisLock, TypeOK
  <1>11. ASSUME NEW p \in Process, Crash(p) PROVE GenesisLock'
    <2>1. /\ lock' = [lock EXCEPT ![p] = Nobody] /\ UNCHANGED << ledger, founder >>
          /\ \A t \in Thread : pc'[t] = (IF ProcessOf[t] = p THEN "idle" ELSE pc[t])
      BY <1>11 DEF Crash, Forget, ThreadsOf
    <2> QED
      BY <2>1 DEF GenesisLock, TypeOK
  <1> QED
    BY <1>1, <1>2, <1>3, <1>4, <1>5, <1>6, <1>7, <1>8, <1>9, <1>10, <1>11 DEF Next, Step

\* A failure of init_db is always another process's doing.
LEMMA InitRaceStep == IInv /\ [Next]_vars => InitRaceIsForeign'
  <1> SUFFICES ASSUME IInv, [Next]_vars, NEW t \in Thread, pc'[t] = "raised"
               PROVE  founder' # Nobody /\ ProcessOf[founder'] # ProcessOf[t]
    BY DEF InitRaceIsForeign
  <1> TypeOK /\ GenesisLock /\ InitRaceIsForeign /\ Contiguous
    BY DEF IInv
  <1>1. founder # Nobody => founder' = founder
    <2>1. ASSUME NEW u \in Thread, InitGenesis(u) PROVE founder = Nobody
      BY <2>1, GenesisOnTop DEF GenesisLock
    <2>2. ASSUME NEW u \in Thread, InsertBlock(u) PROVE founder' = founder
      BY <2>2 DEF InsertBlock
    <2> QED
      BY <2>1, <2>2, WriteCases
  <1>2. CASE ThreadKept(t)
    BY <1>1, <1>2 DEF ThreadKept, InitRaceIsForeign
  <1>3. CASE InitCollides(t)
    <2>1. pc[t] = "genesis" /\ founder' = founder
      BY <1>3 DEF InitCollides
    <2>2. DOMAIN ledger # {}
      BY <1>3 DEF InitCollides, Clash, HasId
    <2> QED
      BY <2>1, <2>2 DEF GenesisLock
  <1>4. ~(ThreadIdle(t) \/ InitPresent(t) \/ InitEmpty(t) \/ InitGenesis(t))
    BY DEF ThreadIdle, InitPresent, InitEmpty, InitGenesis, Goto, AfterInit, TypeOK
  <1>5. ~(GetLatest(t) \/ InsertBlock(t) \/ InsertSwallowed(t))
    BY DEF GetLatest, InsertBlock, InsertSwallowed, Goto, TypeOK
  <1>6. ~(ScanTable(t) \/ \E c \in Calls : Begin(t, c))
    BY DEF ScanTable, Begin, Goto, TypeOK
  <1> QED
    BY <1>2, <1>3, <1>4, <1>5, <1>6, ThreadCases

\* A refused INSERT is a repeated id or a sign that the ledger has grown.
LEMMA RefusalStep == IInv /\ [Next]_vars => RefusalJustified'
  <1> SUFFICES ASSUME IInv, [Next]_vars, NEW t \in Thread, pc'[t] = "swallowed"
               PROVE  \/ \E i \in DOMAIN ledger' : IdOf[ledger'[i].event] = IdOf[call'[t].arg]
                      \/ Height' > height0'[t]
    BY DEF RefusalJustified, HasId
  <1> TypeOK /\ RefusalJustified /\ LatestIsABlock /\ Contiguous
    BY DEF IInv
  <1>1. /\ IsPrefixOf(ledger, ledger')
        /\ Height' \in Nat /\ Height \in Nat /\ Height <= Height'
    BY LedgerGrows DEF Contiguous
  <1>2. HasId(IdOf[call[t].arg]) =>
            \E i \in DOMAIN ledger' : IdOf[ledger'[i].event] = IdOf[call[t].arg]
    BY <1>1 DEF HasId, IsPrefixOf
  <1>3. CASE ThreadKept(t)
    BY <1>1, <1>2, <1>3 DEF ThreadKept, RefusalJustified, TypeOK
  <1>4. CASE InsertSwallowed(t)
    <2>1. /\ pc[t] = "insert" /\ call'[t] = call[t] /\ height0'[t] = height0[t]
          /\ NextIndex(t) \in DOMAIN ledger \/ HasId(IdOf[call[t].arg])
      BY <1>4 DEF InsertSwallowed, Clash
    <2>2. NextIndex(t) = latest[t].index + 1 /\ height0[t] <= latest[t].index + 1
      BY <2>1 DEF NextIndex, LatestIsABlock
    <2>3. NextIndex(t) \in DOMAIN ledger => NextIndex(t) < Height
      BY DEF Contiguous
    <2>4. latest[t].index \in Nat /\ height0[t] \in Nat
      BY DEF TypeOK
    <2>5. NextIndex(t) \in DOMAIN ledger => height0[t] < Height'
      BY <1>1, <2>2, <2>3, <2>4
    <2> QED
      BY <1>2, <2>1, <2>5
  <1>5. ~(ThreadIdle(t) \/ InitPresent(t) \/ InitEmpty(t) \/ InitGenesis(t) \/ InitCollides(t))
    BY DEF ThreadIdle, InitPresent, InitEmpty, InitGenesis, InitCollides, Goto, AfterInit, TypeOK
  <1>6. ~(GetLatest(t) \/ InsertBlock(t) \/ ScanTable(t) \/ \E c \in Calls : Begin(t, c))
    BY DEF GetLatest, InsertBlock, ScanTable, Begin, Goto, TypeOK
  <1> QED
    BY <1>3, <1>4, <1>5, <1>6, ThreadCases

---------------------------------------------------------------------------
(* The tables an export has read *)

\* A prefix of a prefix is a prefix.
LEMMA PrefixTransitive ==
    ASSUME NEW r, NEW s, NEW u, IsPrefixOf(r, s), IsPrefixOf(s, u)
    PROVE  IsPrefixOf(r, u)
  BY DEF IsPrefixOf

\* What a second read sees when it comes.
LEMMA ScanCases ==
    ASSUME IInv, NEW t \in Thread, ScanTable(t)
    PROVE  \/ /\ shots[t].reads = 0
              /\ shots'[t] = [reads |-> 1, first |-> ledger, second |-> << >>]
              /\ pc'[t] = (IF call[t].op = "evidence" /\ call[t].arg \notin DOMAIN ledger
                           THEN "not_found" ELSE "init")
           \/ /\ shots[t].reads = 1
              /\ shots'[t] = [reads |-> 2, first |-> shots[t].first, second |-> ledger]
              /\ pc'[t] = "exported"
  <1>1. shots[t].reads \in {0, 1} /\ pc[t] = "scan"
    BY DEF IInv, ShotsArePrefixes, ScanTable
  <1>2. TypeOK
    BY DEF IInv
  <1> QED
    BY <1>1, <1>2 DEF ScanTable, Goto, TypeOK

\* The table of the first read stays a prefix of the growing ledger.
LEMMA ShotsStep == IInv /\ [Next]_vars => ShotsArePrefixes'
  <1> SUFFICES ASSUME IInv, [Next]_vars, NEW t \in Thread
               PROVE  /\ pc'[t] = "idle" => shots'[t].reads = 0
                      /\ pc'[t] \in {"init", "genesis", "scan"} => shots'[t].reads \in {0, 1}
                      /\ shots'[t].reads = 1 => IsPrefixOf(shots'[t].first, ledger')
                      /\ shots'[t].reads = 1 /\ call'[t].op = "evidence" /\ pc'[t] # "not_found" =>
                             call'[t].arg \in DOMAIN shots'[t].first
    BY DEF ShotsArePrefixes
  <1> TypeOK /\ ShotsArePrefixes
    BY DEF IInv
  <1>1. IsPrefixOf(ledger, ledger')
    BY LedgerGrows
  <1>2. shots[t].reads = 1 => IsPrefixOf(shots[t].first, ledger')
    BY <1>1, PrefixTransitive DEF ShotsArePrefixes
  <1>3. CASE ThreadKept(t)
    BY <1>2, <1>3 DEF ThreadKept, ShotsArePrefixes
  <1>4. CASE ThreadIdle(t)
    BY <1>4 DEF ThreadIdle, NoShots
  <1>5. CASE InitPresent(t) \/ InitEmpty(t) \/ InitGenesis(t) \/ InitCollides(t)
    <2>1. /\ pc[t] \in {"init", "genesis"} /\ shots'[t] = shots[t] /\ call'[t] = call[t]
          /\ pc'[t] \in {"genesis", "raised", "latest", "scan"}
      BY <1>5 DEF InitPresent, InitEmpty, InitGenesis, InitCollides, Goto, AfterInit, TypeOK
    <2> QED
      BY <1>2, <2>1 DEF ShotsArePrefixes
  <1>6. CASE GetLatest(t) \/ InsertBlock(t) \/ InsertSwallowed(t)
    <2>1. /\ pc[t] \in {"latest", "insert"} /\ shots'[t] = shots[t] /\ call'[t] = call[t]
          /\ pc'[t] \in {"insert", "stored", "swallowed"}
      BY <1>6 DEF GetLatest, InsertBlock, InsertSwallowed, Goto, TypeOK
    <2> QED
      BY <1>2, <2>1 DEF ShotsArePrefixes
  <1>7. CASE ScanTable(t)
    <2>1. call'[t] = call[t] /\ IsPrefixOf(ledger, ledger')
      BY <1>1, <1>7 DEF ScanTable
    <2>2. CASE shots'[t] = [reads |-> 2, first |-> shots[t].first, second |-> ledger]
               /\ pc'[t] = "exported"
      BY <2>2
    <2>3. CASE /\ shots'[t] = [reads |-> 1, first |-> ledger, second |-> << >>]
               /\ pc'[t] = (IF call[t].op = "evidence" /\ call[t].arg \notin DOMAIN ledger
                           THEN "not_found" ELSE "init")
      BY <2>1, <2>3
    <2> QED
      BY <1>7, <2>2, <2>3, ScanCases
  <1>8. ASSUME NEW c \in Calls, Begin(t, c)
        PROVE  pc'[t] = "init" /\ shots'[t].reads = 0
    BY <1>8 DEF Begin, Goto, TypeOK, ShotsArePrefixes
  <1> QED
    BY <1>3, <1>4, <1>5, <1>6, <1>7, <1>8, ThreadCases

\* The second read of an export extends the first and verifies.
LEMMA ExportStep == IInv /\ [Next]_vars => ExportConsistent'
  <1> SUFFICES ASSUME IInv, [Next]_vars, NEW t \in Thread, pc'[t] = "exported"
               PROVE  /\ IsPrefixOf(shots'[t].first, shots'[t].second)
                      /\ \A i \in DOMAIN shots'[t].second : Linked(shots'[t].second, i)
                      /\ call'[t].op = "evidence" => call'[t].arg \in DOMAIN shots'[t].second
    BY DEF ExportConsistent
  <1> TypeOK /\ ShotsArePrefixes /\ ExportConsistent /\ ChainIntact
    BY DEF IInv
  <1>1. CASE ThreadKept(t)
    BY <1>1 DEF ThreadKept, ExportConsistent
  <1>2. CASE ScanTable(t)
    <2>1. /\ shots[t].reads = 1 /\ call'[t] = call[t] /\ pc[t] = "scan"
          /\ shots'[t] = [reads |-> 2, first |-> shots[t].first, second |-> ledger]
      BY <1>2, ScanCases DEF ScanTable
    <2>2. IsPrefixOf(shots[t].first, ledger)
      BY <2>1 DEF ShotsArePrefixes
    <2>3. call[t].op = "evidence" => call[t].arg \in DOMAIN ledger
      BY <2>1, <2>2 DEF ShotsArePrefixes, IsPrefixOf
    <2> QED
      BY <2>1, <2>2, <2>3 DEF ChainIntact
  <1>3. ~(ThreadIdle(t) \/ InitPresent(t) \/ InitEmpty(t) \/ InitGenesis(t) \/ InitCollides(t))
    BY DEF ThreadIdle, InitPresent, InitEmpty, InitGenesis, InitCollides, Goto, AfterInit, TypeOK
  <1>4. ~(GetLatest(t) \/ InsertBlock(t) \/ InsertSwallowed(t) \/ \E c \in Calls : Begin(t, c))
    BY DEF GetLatest, InsertBlock, InsertSwallowed, Begin, Goto, TypeOK
  <1> QED
    BY <1>1, <1>2, <1>3, <1>4, ThreadCases

---------------------------------------------------------------------------
(* Theorems *)

\* The conjunction IInv is an inductive invariant of the action ledger.
LEMMA InductiveInvariant == Spec => []IInv
  <1>1. Init => IInv
    <2> SUFFICES ASSUME Init PROVE IInv
      OBVIOUS
    <2>1. DOMAIN ledger = {} /\ Height = 0
      BY DEF Init, Height, HeightOf
    <2>2. TypeOK
      <3>1. \A t \in Thread : latest[t].index \in Nat /\ latest[t].found \in BOOLEAN
        BY DEF Init, NoBlock
      <3>2. DOMAIN latest = Thread /\ DOMAIN shots = Thread /\ height0 \in [Thread -> Nat]
        BY DEF Init
      <3>3. /\ lock \in [Process -> Thread \cup {Nobody}] /\ pc \in [Thread -> Labels]
            /\ call \in [Thread -> Calls \cup {NoCall}] /\ founder \in Thread \cup {Nobody}
            /\ calls \in 0 .. MaxCalls
        BY DEF Init, Labels
      <3> QED
        BY <2>1, <3>1, <3>2, <3>3 DEF TypeOK
    <2>3. Contiguous /\ ChainIntact /\ EventIdsUnique
      BY <2>1 DEF Contiguous, ChainIntact, EventIdsUnique
    <2>4. CallFitsLabel /\ LatestIsABlock /\ RefusalJustified /\ InitRaceIsForeign /\ ExportConsistent
      BY DEF Init, CallFitsLabel, LatestIsABlock, RefusalJustified, InitRaceIsForeign, ExportConsistent
    <2>5. Initialised
      BY <2>1 DEF Init, Initialised
    <2>6. GenesisLock
      BY <2>1 DEF Init, GenesisLock
    <2>7. ShotsArePrefixes
      BY DEF Init, ShotsArePrefixes, NoShots
    <2> QED
      BY <2>2, <2>3, <2>4, <2>5, <2>6, <2>7 DEF IInv
  <1>2. IInv /\ [Next]_vars => IInv'
    <2> SUFFICES ASSUME IInv, [Next]_vars PROVE IInv'
      OBVIOUS
    <2>1. Contiguous'
      BY LedgerGrows
    <2> QED
      BY <2>1, TypeStep, ChainStep, IdsStep, CallFitsStep, LatestStep, InitialisedStep,
         GenesisLockStep, RefusalStep, InitRaceStep, ShotsStep, ExportStep DEF IInv
  <1> QED
    BY <1>1, <1>2, PTL DEF Spec

\* The table and the calls' locals always have their types.
THEOREM TypeCorrect == Spec => []TypeOK
  BY InductiveInvariant, PTL DEF IInv

\* The chain verify_ledger_chain walks is intact in every reachable state, for
\* any number of processes and threads adding events at once.
THEOREM ChainAlwaysIntact == Spec => []ChainIntact
  BY InductiveInvariant, PTL DEF IInv

\* No event id is ever recorded twice.
THEOREM IdsAlwaysUnique == Spec => []EventIdsUnique
  BY InductiveInvariant, PTL DEF IInv

\* An INSERT is only refused for a repeated id or to a call that lost a race.
THEOREM RefusalsJustified == Spec => []RefusalJustified
  BY InductiveInvariant, PTL DEF IInv

\* The lock of one process is enough to found the ledger once in that process.
THEOREM InitRacesAreForeign == Spec => []InitRaceIsForeign
  BY InductiveInvariant, PTL DEF IInv

\* The two reads of an export agree and the later one verifies.
THEOREM ExportsConsistent == Spec => []ExportConsistent
  BY InductiveInvariant, PTL DEF IInv

\* Blocks are never removed or rewritten and come one at a time.
THEOREM LedgerAppendOnly == Spec => AppendOnly
  <1>1. IInv /\ [Next]_vars =>
            [/\ IsPrefixOf(ledger, ledger')
             /\ \A i, j \in DOMAIN ledger' \ DOMAIN ledger : i = j]_ledger
    BY LedgerGrows
  <1> QED
    BY <1>1, InductiveInvariant, PTL DEF Spec, AppendOnly

\* Every behaviour of the action ledger is one of the append-only log.
THEOREM ImplementsLog == Spec => RefinesLog
  <1>1. Init => Abstract!Init
    <2> SUFFICES ASSUME Init PROVE EventLog = << >>
      BY DEF Abstract!Init
    <2>1. Height = 0
      BY DEF Init, Height, HeightOf
    <2> QED
      BY <2>1 DEF EventLog
  <1>2. IInv /\ [Next]_vars => [Abstract!Next]_EventLog
    <2> SUFFICES ASSUME IInv, [Next]_vars PROVE Abstract!Next \/ EventLog' = EventLog
      OBVIOUS
    <2> Contiguous
      BY DEF IInv
    <2>1. CASE UNCHANGED ledger
      BY <2>1 DEF EventLog, Height
    <2>2. ASSUME NEW t \in Thread, InitGenesis(t) PROVE Abstract!Found
      <3>1. /\ Height = 0 /\ Height' = 1
            /\ ledger'[0] = Block(0, Genesis, ZeroHash)
        BY <2>2, GenesisOnTop, RowOnTop
      <3>2. EventLog = << >>
        BY <3>1 DEF EventLog
      <3>3. EventLog' = << Genesis >>
        BY <3>1 DEF EventLog, Block
      <3> QED
        BY <3>2, <3>3 DEF Abstract!Found
    <2>3. ASSUME NEW t \in Thread, InsertBlock(t) PROVE Abstract!Record(call[t].arg)
      <3>1. /\ Height > 0 /\ Height \in Nat /\ Height' = Height + 1
            /\ call[t].arg \in Event /\ ~HasId(IdOf[call[t].arg])
            /\ ledger'[Height] = Block(Height, call[t].arg, PrevHash(t))
            /\ IsPrefixOf(ledger, ledger')
        BY <2>3, InsertOnTop, RowOnTop DEF Contiguous
      <3>2. DOMAIN EventLog = 1 .. Height /\ EventLog # << >>
        BY <3>1 DEF EventLog
      <3>3. \A n \in 1 .. Height : n - 1 \in DOMAIN ledger /\ ledger'[n - 1] = ledger[n - 1]
        BY <3>1 DEF Contiguous, IsPrefixOf
      <3>4. ~Abstract!Used(IdOf[call[t].arg])
        BY <3>1, <3>2, <3>3 DEF Abstract!Used, EventLog, HasId
      <3>5. EventLog' = [n \in 1 .. Height + 1 |-> ledger'[n - 1].event]
        BY <3>1 DEF EventLog
      <3>6. ledger'[Height].event = call[t].arg
        BY <3>1 DEF Block
      <3>7. EventLog' = [n \in 1 .. Height + 1 |-> IF n = Height + 1 THEN call[t].arg ELSE EventLog[n]]
        BY <3>1, <3>3, <3>5, <3>6 DEF EventLog
      <3>8. Append(EventLog, call[t].arg)
                = [n \in 1 .. Height + 1 |-> IF n = Height + 1 THEN call[t].arg ELSE EventLog[n]]
        BY <3>1 DEF EventLog
      <3> QED
        BY <3>1, <3>2, <3>4, <3>7, <3>8 DEF Abstract!Record
    <2> QED
      BY <2>1, <2>2, <2>3, WriteCases, InsertOnTop DEF Abstract!Next
  <1> QED
    BY <1>1, <1>2, InductiveInvariant, PTL DEF Spec, RefinesLog, Abstract!Spec
=============================================================================
