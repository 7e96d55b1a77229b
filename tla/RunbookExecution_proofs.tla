--------------------- MODULE RunbookExecution_proofs ---------------------
(***************************************************************************)
(* Proofs about the runbook executions, for any library of runbooks, any   *)
(* executions and any number of them: one loop each, the first gate, and   *)
(* the finality of what was restored.                                      *)
(***************************************************************************)
EXTENDS RunbookExecution, TLAPS

USE LibraryAssumption, ExecsAssumption

---------------------------------------------------------------------------
(* The inductive invariant.  It says of one execution x with its timers in  *)
(* queue and its audit events in log: at most one step is waited for, and   *)
(* it is the running one; a rollback is the last timer of its execution,    *)
(* because the timers of one delay are a queue; what paused or was restored *)
(* has no timer; and everything beyond the first gate was authorised.       *)

Own(e, queue) == {k \in DOMAIN queue : queue[k].exec = e}

Authorised(r, log) ==
    \A i \in Gate(r) : \E k \in DOMAIN log : log[k].type = "APPROVED" /\ log[k].step = i

Waits(x, t, log) ==
    /\ t.step \in Steps(x.runbook)
    /\ x.results[t.step] = "running"
    /\ x.status \in {"running", "failed"}
    /\ t.loop = "start" => \A g \in Library[x.runbook].gated : t.step < g
    /\ t.loop = "resume" => Authorised(x.runbook, log)

Last(e, x, queue, k) ==
    /\ x.status \in {"failed", "succeeded"}
    /\ \A l \in Own(e, queue) : l <= k

Gated(x, log) ==
    \A i \in Gate(x.runbook), j \in Steps(x.runbook) :
        j >= i /\ x.results[j] = "succeeded" => Authorised(x.runbook, log)

Fits(e, x, queue, log) ==
    /\ \A k, l \in Own(e, queue) : queue[k].loop # "rollback" /\ queue[l].loop # "rollback" => k = l
    /\ \A k \in Own(e, queue) : queue[k].loop # "rollback" => Waits(x, queue[k], log)
    /\ \A k \in Own(e, queue) : queue[k].loop = "rollback" => Last(e, x, queue, k)
    /\ x.status \in {"paused", "rolled_back"} => Own(e, queue) = {}
    /\ x.status = "paused" => x.current \in Gate(x.runbook)
    /\ Gated(x, log)

TimersOwned == \A k \in DOMAIN timers : timers[k].exec \in DOMAIN executions

IInv ==
    /\ TypeOK
    /\ TimersOwned
    /\ \A e \in DOMAIN executions \cap Execs : Fits(e, executions[e], timers, audit[e])

---------------------------------------------------------------------------
(* Facts about the operators.                                              *)

\* The type of an execution, field by field.
LEMMA Fields ==
    ASSUME NEW r \in DOMAIN Library, NEW x \in Execution(r)
    PROVE  /\ x.runbook = r /\ x.status \in ExecutionStatus /\ x.current \in Steps(r)
           /\ x.results \in [Steps(r) -> StepStatus]
           /\ x.available \in BOOLEAN /\ x.triggered \in BOOLEAN
  BY DEF Execution

\* The length of a runbook is a positive number, and its gates are steps.
LEMMA Lengths ==
    ASSUME NEW r \in DOMAIN Library
    PROVE  /\ Library[r].len \in Nat \ {0}
           /\ Library[r].gated \subseteq Steps(r)
           /\ Steps(r) \subseteq Nat
           /\ 1 \in Steps(r)
           /\ \A i \in Steps(r) : i # Library[r].len => i < Library[r].len /\ i + 1 \in Steps(r)
  BY DEF Steps

\* A runbook has at most one first gate.
LEMMA OneGate ==
    ASSUME NEW r \in DOMAIN Library, NEW i \in Gate(r), NEW j \in Gate(r)
    PROVE  i = j
  BY Lengths DEF Gate

\* The results after a step: it succeeded and the next one runs.
LEMMA SucceededResults ==
    ASSUME NEW r \in DOMAIN Library, NEW x \in Execution(r), NEW i \in Steps(r)
    PROVE  /\ StepSucceeded(x, i) \in Execution(r)
           /\ StepSucceeded(x, i).status = x.status
           /\ i < Library[r].len => StepSucceeded(x, i).results[i + 1] = "running"
           /\ \A j \in Steps(r) : StepSucceeded(x, i).results[j] = "succeeded" =>
                 j = i \/ x.results[j] = "succeeded"
  <1> DEFINE results == [j \in DOMAIN x.results |->
                           IF j = i THEN "succeeded"
                           ELSE IF j = i + 1 THEN "running" ELSE x.results[j]]
             current == IF i < Library[x.runbook].len THEN i + 1 ELSE i
  <1>1. /\ x.runbook = r /\ x.results \in [Steps(r) -> StepStatus]
        /\ DOMAIN x.results = Steps(r)
    BY Fields
  <1>2. results \in [Steps(r) -> StepStatus]
    BY <1>1 DEF StepStatus
  <1>3. current \in Steps(r)
    BY <1>1 DEF Steps
  <1>4. StepSucceeded(x, i) = [x EXCEPT !.results = results, !.current = current]
    BY DEF StepSucceeded
  <1>5. i < Library[r].len => i + 1 \in Steps(r) /\ results[i + 1] = "running"
    BY <1>1 DEF Steps
  <1>6. \A j \in Steps(r) : results[j] = "succeeded" => j = i \/ x.results[j] = "succeeded"
    BY <1>1
  <1> HIDE DEF results, current
  <1>7. /\ StepSucceeded(x, i) \in Execution(r)
        /\ StepSucceeded(x, i).status = x.status
        /\ StepSucceeded(x, i).results = results
    BY <1>2, <1>3, <1>4 DEF Execution
  <1> QED
    BY <1>5, <1>6, <1>7

\* A pause at a step, and the resumption there.
LEMMA PausedResults ==
    ASSUME NEW r \in DOMAIN Library, NEW x \in Execution(r), NEW i \in Steps(r)
    PROVE  /\ PausedAt(x, i) \in Execution(r) /\ ResumedAt(x, i) \in Execution(r)
           /\ PausedAt(x, i).status = "paused" /\ ResumedAt(x, i).status = "running"
           /\ PausedAt(x, i).current = i
           /\ PausedAt(x, i).results[i] = "pending" /\ ResumedAt(x, i).results[i] = "running"
           /\ \A j \in Steps(r) \ {i} : /\ PausedAt(x, i).results[j] = x.results[j]
                                        /\ ResumedAt(x, i).results[j] = x.results[j]
  <1> DEFINE waiting == [x.results EXCEPT ![i] = "pending"]
             running == [x.results EXCEPT ![i] = "running"]
  <1>1. /\ waiting \in [Steps(r) -> StepStatus] /\ running \in [Steps(r) -> StepStatus]
        /\ waiting[i] = "pending" /\ running[i] = "running"
        /\ \A j \in Steps(r) \ {i} : waiting[j] = x.results[j] /\ running[j] = x.results[j]
    BY Fields DEF StepStatus
  <1>2. /\ PausedAt(x, i) = [x EXCEPT !.status = "paused", !.current = i, !.results = waiting]
        /\ ResumedAt(x, i) = [x EXCEPT !.status = "running", !.results = running]
    BY DEF PausedAt, ResumedAt, Execution
  <1> HIDE DEF waiting, running
  <1>3. /\ PausedAt(x, i) \in Execution(r) /\ ResumedAt(x, i) \in Execution(r)
        /\ PausedAt(x, i).status = "paused" /\ ResumedAt(x, i).status = "running"
        /\ PausedAt(x, i).current = i
        /\ PausedAt(x, i).results = waiting /\ ResumedAt(x, i).results = running
    BY <1>1, <1>2 DEF Execution, ExecutionStatus
  <1> QED
    BY <1>1, <1>3

\* A new execution runs its first step.
LEMMA NewResults ==
    ASSUME NEW r \in DOMAIN Library
    PROVE  /\ NewExecution(r) \in Execution(r)
           /\ NewExecution(r).status = "running"
           /\ NewExecution(r).results[1] = "running"
           /\ \A j \in Steps(r) : NewExecution(r).results[j] # "succeeded"
  <1>1. FreshResults(r) \in [Steps(r) -> StepStatus]
    BY DEF FreshResults, StepStatus
  <1>2. FreshResults(r)[1] = "running" /\ \A j \in Steps(r) : FreshResults(r)[j] # "succeeded"
    BY Lengths DEF FreshResults
  <1> QED
    BY <1>1, <1>2, Lengths DEF NewExecution, Execution, ExecutionStatus

\* An audit that grows keeps its authorisations, and a new one is in it.
LEMMA GrownLog ==
    ASSUME NEW log \in Seq(Event), NEW more \in Seq(Event)
    PROVE  /\ log \o more \in Seq(Event)
           /\ \A r : Authorised(r, log) => Authorised(r, log \o more)
           /\ \A k \in DOMAIN more : Len(log) + k \in DOMAIN (log \o more)
                                     /\ (log \o more)[Len(log) + k] = more[k]
  <1>1. /\ log \o more \in Seq(Event)
        /\ \A k \in DOMAIN log : k \in DOMAIN (log \o more) /\ (log \o more)[k] = log[k]
        /\ \A k \in DOMAIN more : Len(log) + k \in DOMAIN (log \o more)
                                  /\ (log \o more)[Len(log) + k] = more[k]
    OBVIOUS
  <1> QED
    BY <1>1 DEF Authorised

\* The timers after one more was set.
LEMMA Longer ==
    ASSUME NEW queue \in Seq(Timers), NEW t \in Timers
    PROVE  /\ Append(queue, t) \in Seq(Timers)
           /\ Len(queue) \in Nat /\ DOMAIN queue = 1 .. Len(queue)
           /\ DOMAIN Append(queue, t) = 1 .. Len(queue) + 1
           /\ \A k \in DOMAIN queue : Append(queue, t)[k] = queue[k]
           /\ Append(queue, t)[Len(queue) + 1] = t
  OBVIOUS

\* The timers after the oldest fired.
LEMMA Shorter ==
    ASSUME NEW queue \in Seq(Timers), queue # <<>>
    PROVE  /\ Tail(queue) \in Seq(Timers)
           /\ Head(queue) = queue[1] /\ 1 \in DOMAIN queue /\ queue[1] \in Timers
           /\ \A k \in DOMAIN Tail(queue) : /\ k \in Nat \ {0} /\ k + 1 \in DOMAIN queue
                                            /\ Tail(queue)[k] = queue[k + 1]
  OBVIOUS

---------------------------------------------------------------------------
(* What the callbacks make of an execution, as far as Fits tells.           *)

NoSteps(e, queue) == \A k \in Own(e, queue) : queue[k].loop = "rollback"

\* Events that are added to the audit disturb nothing.
LEMMA FitsLonger ==
    ASSUME NEW e, NEW r \in DOMAIN Library, NEW x \in Execution(r), NEW queue \in Seq(Timers),
           NEW log, NEW longer, Authorised(r, log) => Authorised(r, longer),
           Fits(e, x, queue, log)
    PROVE  Fits(e, x, queue, longer)
  <1>1. x.runbook = r
    BY Fields
  <1> QED
    BY <1>1 DEF Fits, Waits, Gated

\* The success of an execution whose loop was left.
LEMMA FitsSucceeded ==
    ASSUME NEW e, NEW r \in DOMAIN Library, NEW x \in Execution(r), NEW queue \in Seq(Timers),
           NEW log, NoSteps(e, queue), Fits(e, x, queue, log),
           NEW y \in Execution(r), y.status = "succeeded", y.results = x.results
    PROVE  Fits(e, y, queue, log)
  <1>1. x.runbook = r /\ y.runbook = r
    BY Fields
  <1>2. Gated(y, log)
    BY <1>1 DEF Fits, Gated
  <1>3. \A k \in Own(e, queue) : Last(e, y, queue, k)
    BY DEF Fits, Last, NoSteps
  <1> QED
    BY <1>2, <1>3 DEF Fits, NoSteps

\* A pause at the first gate: an execution that runs has no rollback under
\* way, so that nothing of it is left in the queue.
LEMMA FitsPaused ==
    ASSUME NEW e, NEW r \in DOMAIN Library, NEW x \in Execution(r), NEW queue \in Seq(Timers),
           NEW log, NoSteps(e, queue), Fits(e, x, queue, log), x.status = "running",
           NEW i \in Gate(r)
    PROVE  Fits(e, PausedAt(x, i), queue, log)
  <1>1. x.runbook = r /\ i \in Steps(r) /\ x.results \in [Steps(r) -> StepStatus]
    BY Fields, Lengths DEF Gate
  <1>2. Own(e, queue) = {}
    BY DEF Fits, NoSteps, Last
  <1> DEFINE y == PausedAt(x, i)
  <1>3. /\ y \in Execution(r) /\ y.current = i /\ y.results[i] = "pending"
        /\ \A j \in Steps(r) \ {i} : y.results[j] = x.results[j]
    BY <1>1, PausedResults
  <1> HIDE DEF y
  <1>4. y.runbook = r
    BY <1>3, Fields
  <1>5. \A j \in Steps(r) : y.results[j] = "succeeded" => x.results[j] = "succeeded"
    BY <1>1, <1>3
  <1>6. Gated(x, log)
    BY DEF Fits
  <1>7. Gated(y, log)
    BY <1>1, <1>4, <1>5, <1>6 DEF Gated
  <1>8. Fits(e, y, queue, log)
    BY <1>2, <1>3, <1>4, <1>7 DEF Fits
  <1> QED
    BY <1>8 DEF y

\* The wait for step i, which runs.
LEMMA FitsWaiting ==
    ASSUME NEW e \in Execs, NEW r \in DOMAIN Library, NEW x \in Execution(r),
           NEW queue \in Seq(Timers), NEW log, NoSteps(e, queue), Fits(e, x, queue, log),
           x.status = "running", NEW i \in Steps(r), x.results[i] = "running",
           NEW loop \in {"start", "resume"},
           loop = "start" => \A g \in Library[r].gated : i < g,
           loop = "resume" => Authorised(r, log),
           NEW q, q = Append(queue, Timer(e, loop, i))
    PROVE  Fits(e, x, q, log)
  <1> DEFINE t == Timer(e, loop, i)
             n == Len(queue) + 1
  <1>1. x.runbook = r /\ i \in Nat
    BY Fields, Lengths
  <1>2. t \in Timers /\ t.exec = e /\ t.loop = loop /\ t.step = i
    BY <1>1 DEF Timer, Timers
  <1>3. Own(e, queue) = {}
    BY DEF Fits, NoSteps, Last
  <1> HIDE DEF t
  <1>4. /\ DOMAIN q = DOMAIN queue \cup {n}
        /\ \A k \in DOMAIN queue : q[k] = queue[k]
        /\ q[n] = t
    BY <1>2, Longer DEF t
  <1>5. Own(e, q) = {n}
    BY <1>2, <1>3, <1>4 DEF Own
  <1>6. Waits(x, q[n], log)
    BY <1>1, <1>2, <1>4 DEF Waits
  <1> QED
    BY <1>2, <1>4, <1>5, <1>6 DEF Fits

Rest(queue, rest) ==
    /\ 1 \in DOMAIN queue
    /\ \A k \in DOMAIN rest : /\ k \in Nat \ {0} /\ k + 1 \in DOMAIN queue
                              /\ rest[k] = queue[k + 1]

\* The callback of the wait for a step leaves no other step of its execution
\* in the queue, and the loop may go on from there.
LEMMA FitsStepped ==
    ASSUME NEW e, NEW r \in DOMAIN Library, NEW x \in Execution(r), NEW queue \in Seq(Timers),
           NEW log, Fits(e, x, queue, log),
           NEW h \in Timers, h = queue[1], h.exec = e, h.loop \in {"start", "resume"},
           NEW rest \in Seq(Timers), Rest(queue, rest)
    PROVE  /\ NoSteps(e, rest)
           /\ Fits(e, StepSucceeded(x, h.step), rest, log)
  <1> DEFINE y == StepSucceeded(x, h.step)
  <1>1. x.runbook = r
    BY Fields
  <1>2. /\ 1 \in Own(e, queue)
        /\ \A k \in Own(e, rest) : /\ k \in Nat \ {0} /\ k + 1 \in Own(e, queue)
                                   /\ rest[k] = queue[k + 1]
    BY DEF Own, Rest
  <1>3. Waits(x, h, log)
    BY <1>2 DEF Fits
  <1>4. /\ h.step \in Steps(r)
        /\ x.status \in {"running", "failed"}
        /\ h.loop = "start" => \A g \in Library[r].gated : h.step < g
        /\ h.loop = "resume" => Authorised(r, log)
    BY <1>1, <1>3 DEF Waits
  <1>5. NoSteps(e, rest)
    <2> SUFFICES ASSUME NEW k \in Own(e, rest), rest[k].loop # "rollback"
                 PROVE  FALSE
      BY DEF NoSteps
    <2>1. k \in Nat \ {0} /\ k + 1 \in Own(e, queue) /\ rest[k] = queue[k + 1]
      BY <1>2
    <2>2. queue[k + 1].loop # "rollback"
      BY <2>1
    <2>3. queue[1].loop # "rollback"
      OBVIOUS
    <2>4. k + 1 # 1
      BY <2>1
    <2> QED
      BY <1>2, <2>1, <2>2, <2>3, <2>4 DEF Fits
  <1>6. /\ y \in Execution(r) /\ y.runbook = r
        /\ y.status = x.status
        /\ \A j \in Steps(r) : y.results[j] = "succeeded" =>
              j = h.step \/ x.results[j] = "succeeded"
    BY <1>4, SucceededResults, Fields
  <1> HIDE DEF y
  <1>7. \A k \in Own(e, rest) : Last(e, y, rest, k)
    <2> SUFFICES ASSUME NEW k \in Own(e, rest)
                 PROVE  Last(e, y, rest, k)
      OBVIOUS
    <2>1. k + 1 \in Own(e, queue) /\ queue[k + 1].loop = "rollback" /\ k \in Nat
      BY <1>2, <1>5 DEF NoSteps
    <2>2. Last(e, x, queue, k + 1)
      BY <2>1 DEF Fits
    <2>3. \A l \in Own(e, rest) : l \in Nat /\ l + 1 <= k + 1
      BY <1>2, <2>2 DEF Last
    <2> QED
      BY <1>6, <2>1, <2>2, <2>3 DEF Last
  <1>8. Gated(y, log)
    <2> SUFFICES ASSUME NEW i \in Gate(r), NEW j \in Steps(r), j >= i,
                        y.results[j] = "succeeded"
                 PROVE  Authorised(r, log)
      BY <1>6 DEF Gated
    <2>1. CASE j = h.step
      <3>1. ~(\A g \in Library[r].gated : h.step < g)
        BY <2>1, Lengths DEF Gate
      <3> QED
        BY <1>4, <3>1
    <2>2. CASE x.results[j] = "succeeded"
      BY <1>1, <2>2 DEF Fits, Gated
    <2> QED
      BY <1>6, <2>1, <2>2
  <1>9. Fits(e, y, rest, log)
    BY <1>4, <1>5, <1>6, <1>7, <1>8 DEF Fits, NoSteps
  <1> QED
    BY <1>4, <1>5, <1>9 DEF y

---------------------------------------------------------------------------
(* The steps.                                                               *)

\* What is left of the timers of the other executions, d positions further on.
Shifted(e, q, d) ==
    \A k \in DOMAIN q : q[k].exec # e => k + d \in DOMAIN timers /\ timers[k + d] = q[k]

\* The audit of e with these events added, and that of the others as it was.
Heard(e, events) == audit[e] \o events
Hears(e, log) ==
    /\ audit' \in [Ids -> Seq(Event)]
    /\ audit'[e] = log
    /\ \A f \in Ids \ {e} : audit'[f] = audit[f]

\* Recording events does that.
LEMMA RecordHears ==
    ASSUME TypeOK, NEW e \in Execs, NEW events \in Seq(Event), Record(e, events)
    PROVE  Hears(e, Heard(e, events))
  <1>1. e \in Ids /\ audit \in [Ids -> Seq(Event)]
    BY DEF Ids, TypeOK
  <1> DEFINE log == Heard(e, events)
  <1>2. log \in Seq(Event) /\ audit' = [audit EXCEPT ![e] = log]
    BY <1>1 DEF Record, Heard
  <1> HIDE DEF log
  <1>3. Hears(e, log)
    BY <1>1, <1>2 DEF Hears
  <1> QED
    BY <1>3 DEF log

\* Events added one batch after the other.
LEMMA HeardTwice ==
    ASSUME TypeOK, NEW e \in Execs, NEW events \in Seq(Event), NEW more \in Seq(Event)
    PROVE  /\ Heard(e, events) \in Seq(Event)
           /\ Heard(e, events \o more) \in Seq(Event)
           /\ \A r : Authorised(r, Heard(e, events)) => Authorised(r, Heard(e, events \o more))
  <1>1. PICK old \in Seq(Event) : old = audit[e]
    BY DEF Ids, TypeOK
  <1> DEFINE log == old \o events
  <1>2. log \in Seq(Event) /\ events \o more \in Seq(Event)
    OBVIOUS
  <1>3. old \o (events \o more) = log \o more
    OBVIOUS
  <1> HIDE DEF log
  <1>4. /\ log \o more \in Seq(Event)
        /\ \A r : Authorised(r, log) => Authorised(r, log \o more)
    BY <1>2, GrownLog
  <1> QED
    BY <1>1, <1>2, <1>3, <1>4 DEF log, Heard

\* An execution that a step does not touch fits as before: its timers are
\* those it had, d positions further on.
LEMMA Undisturbed ==
    ASSUME NEW f, NEW x, NEW log, Fits(f, x, timers, log), timers \in Seq(Timers),
           NEW q \in Seq(Timers), NEW d \in {0, 1},
           \A k \in Own(f, q) : k + d \in DOMAIN timers /\ timers[k + d] = q[k]
    PROVE  Fits(f, x, q, log)
  <1>1. \A k \in Own(f, q) : k \in Nat /\ k + d \in Own(f, timers) /\ timers[k + d] = q[k]
    BY DEF Own
  <1>2. ASSUME NEW k \in Own(f, q), NEW l \in Own(f, q), q[k].loop # "rollback",
               q[l].loop # "rollback"
        PROVE  k = l
    <2>1. k + d = l + d
      BY <1>1, <1>2 DEF Fits
    <2> QED
      BY <1>1, <2>1
  <1>3. ASSUME NEW k \in Own(f, q), q[k].loop # "rollback"
        PROVE  Waits(x, q[k], log)
    BY <1>1, <1>3 DEF Fits
  <1>4. ASSUME NEW k \in Own(f, q), q[k].loop = "rollback"
        PROVE  Last(f, x, q, k)
    <2>1. Last(f, x, timers, k + d)
      BY <1>1, <1>4 DEF Fits
    <2>2. \A l \in Own(f, q) : l + d <= k + d
      BY <1>1, <2>1 DEF Last
    <2>3. \A l \in Own(f, q) : l <= k
      BY <1>1, <2>2
    <2> QED
      BY <2>1, <2>3 DEF Last
  <1>5. x.status \in {"paused", "rolled_back"} => Own(f, q) = {}
    BY <1>1 DEF Fits
  <1> QED
    BY <1>2, <1>3, <1>4, <1>5 DEF Fits

\* A step that leaves execution e as x, with timers q and audit log, and the
\* other executions as they were, keeps the invariant when x fits.
LEMMA Touched ==
    ASSUME IInv, NEW e \in Execs, NEW r \in DOMAIN Library, NEW x \in Execution(r),
           NEW q \in Seq(Timers), NEW log \in Seq(Event), Fits(e, x, q, log),
           Store(e, x), timers' = q, Hears(e, log),
           simulation' \in {simulation, None}, NEW d \in {0, 1}, Shifted(e, q, d)
    PROVE  IInv'
  <1>1. /\ DOMAIN executions' = DOMAIN executions \cup {e} /\ executions'[e] = x
        /\ \A f \in DOMAIN executions \ {e} : executions'[f] = executions[f]
        /\ activeExecution' = e
    BY DEF Store
  <1>2. e \in Ids /\ audit \in [Ids -> Seq(Event)] /\ timers \in Seq(Timers)
    BY DEF Ids, IInv, TypeOK
  <1>3. /\ audit' \in [Ids -> Seq(Event)] /\ audit'[e] = log
        /\ \A f \in Ids \ {e} : audit'[f] = audit[f]
    BY DEF Hears
  <1>4. TypeOK'
    <2>1. DOMAIN executions' \subseteq Ids
      BY <1>1, <1>2 DEF IInv, TypeOK
    <2>2. \A f \in DOMAIN executions' : \E s \in DOMAIN Library : executions'[f] \in Execution(s)
      BY <1>1 DEF IInv, TypeOK
    <2>3. simulation' \in {None} \cup [runbook : DOMAIN Library, loading : BOOLEAN]
      BY DEF IInv, TypeOK
    <2> QED
      BY <1>1, <1>3, <2>1, <2>2, <2>3 DEF TypeOK
  <1>5. TimersOwned'
    <2> SUFFICES ASSUME NEW k \in DOMAIN q
                 PROVE  q[k].exec \in DOMAIN executions'
      BY DEF TimersOwned
    <2>1. CASE q[k].exec = e
      BY <1>1, <2>1
    <2>2. CASE q[k].exec # e
      BY <1>1, <2>2 DEF IInv, TimersOwned, Shifted
    <2> QED
      BY <2>1, <2>2
  <1>6. ASSUME NEW f \in DOMAIN executions' \cap Execs
        PROVE  Fits(f, executions'[f], q, audit'[f])
    <2>1. CASE f = e
      BY <1>1, <1>3, <2>1
    <2>2. CASE f # e
      <3>1. /\ f \in DOMAIN executions \cap Execs /\ executions'[f] = executions[f]
            /\ audit'[f] = audit[f]
        BY <1>1, <1>3, <2>2 DEF Ids
      <3>2. Fits(f, executions[f], timers, audit[f])
        BY <3>1 DEF IInv
      <3>3. \A k \in Own(f, q) : k + d \in DOMAIN timers /\ timers[k + d] = q[k]
        BY <2>2 DEF Own, Shifted
      <3>4. Fits(f, executions[f], q, audit[f])
        BY <1>2, <3>2, <3>3, Undisturbed
      <3> QED
        BY <3>1, <3>4
    <2> QED
      BY <2>1, <2>2
  <1> QED
    BY <1>4, <1>5, <1>6 DEF IInv

\* A loop is left.
LEMMA CompleteStep ==
    ASSUME IInv, NEW e \in Execs, NEW r \in DOMAIN Library, NEW x \in Execution(r),
           NEW queue \in Seq(Timers), NEW events \in Seq(Event),
           NoSteps(e, queue), Fits(e, x, queue, Heard(e, events)),
           simulation' \in {simulation, None}, NEW d \in {0, 1}, Shifted(e, queue, d),
           Complete(e, x, queue, events)
    PROVE  IInv'
  <1> DEFINE y == [x EXCEPT !.status = "succeeded"]
             final == <<Log("SUCCEEDED", 0), Log("VERIFIED", 0)>>
             all == events \o final
             log == Heard(e, events)
             longer == Heard(e, all)
  <1>1. y \in Execution(r) /\ y.status = "succeeded" /\ y.results = x.results
    BY DEF Execution, ExecutionStatus
  <1>2. final \in Seq(Event)
    BY DEF Log, Event
  <1>3. \/ Store(e, y) /\ Record(e, all)
        \/ Store(e, x) /\ Record(e, events)
    BY DEF Complete
  <1>4. timers' = queue /\ TypeOK
    BY DEF Complete, IInv
  <1> HIDE DEF y, final
  <1>5. all \in Seq(Event)
    BY <1>2
  <1>6. /\ log \in Seq(Event) /\ longer \in Seq(Event)
        /\ Authorised(r, log) => Authorised(r, longer)
    BY <1>2, <1>4, HeardTwice
  <1> HIDE DEF all
  <1>7. /\ Record(e, all) => Hears(e, longer)
        /\ Record(e, events) => Hears(e, log)
    BY <1>4, <1>5, RecordHears
  <1>8. Fits(e, x, queue, log)
    OBVIOUS
  <1> HIDE DEF log, longer
  <1>9. CASE Store(e, y) /\ Record(e, all)
    <2>1. Fits(e, y, queue, log)
      BY <1>1, <1>8, FitsSucceeded
    <2>2. Fits(e, y, queue, longer)
      BY <1>1, <1>6, <2>1, FitsLonger
    <2> QED
      BY <1>1, <1>4, <1>6, <1>7, <1>9, <2>2, Touched
  <1>10. CASE Store(e, x) /\ Record(e, events)
    BY <1>4, <1>6, <1>7, <1>8, <1>10, Touched
  <1> QED
    BY <1>3, <1>9, <1>10

\* A turn of a loop: it is left, it pauses, or it waits.
LEMMA TurnStep ==
    ASSUME IInv, NEW e \in Execs, NEW r \in DOMAIN Library, NEW x \in Execution(r),
           NEW queue \in Seq(Timers), NEW events \in Seq(Event),
           NoSteps(e, queue), Fits(e, x, queue, Heard(e, events)),
           simulation' \in {simulation, None}, NEW d \in {0, 1}, Shifted(e, queue, d),
           NEW loop \in {"start", "resume"}, NEW i \in Steps(r), x.results[i] = "running",
           loop = "start" => \A g \in Library[r].gated : i <= g,
           loop = "resume" => Authorised(r, Heard(e, events)),
           Turn(e, x, loop, i, queue, events)
    PROVE  IInv'
  <1> DEFINE log == Heard(e, events)
  <1>1. x.runbook = r /\ i \in Nat /\ TypeOK
    BY Fields, Lengths DEF IInv
  <1>2. CASE x.status # "running" /\ Complete(e, x, queue, events)
    BY <1>2, CompleteStep
  <1>3. CASE /\ x.status = "running" /\ loop = "start" /\ RequiresApproval(x.runbook, i)
             /\ Complete(e, PausedAt(x, i), queue, events \o <<Log("PAUSED", i)>>)
    <2> DEFINE y == PausedAt(x, i)
               paused == <<Log("PAUSED", i)>>
               all == events \o paused
               longer == Heard(e, all)
    <2>1. i \in Gate(r)
      BY <1>1, <1>3 DEF Gate, RequiresApproval
    <2>2. y \in Execution(r)
      BY PausedResults
    <2>3. paused \in Seq(Event)
      BY <1>1 DEF Log, Event
    <2>4. Complete(e, y, queue, all)
      BY <1>3
    <2> HIDE DEF paused
    <2>5. all \in Seq(Event)
      BY <2>3
    <2>6. Authorised(r, log) => Authorised(r, longer)
      BY <1>1, <2>3, HeardTwice
    <2>7. Fits(e, y, queue, log)
      BY <1>3, <2>1, FitsPaused
    <2> HIDE DEF y, all, log
    <2>8. Fits(e, y, queue, longer)
      BY <2>2, <2>6, <2>7, FitsLonger
    <2> QED
      BY <2>2, <2>4, <2>5, <2>8, CompleteStep
  <1>4. CASE /\ x.status = "running" /\ (loop = "resume" \/ ~RequiresApproval(x.runbook, i))
             /\ Store(e, x) /\ timers' = Append(queue, Timer(e, loop, i)) /\ Record(e, events)
    <2> DEFINE t == Timer(e, loop, i)
               q == Append(queue, t)
    <2>1. t \in Timers /\ t.exec = e
      BY <1>1 DEF Timer, Timers
    <2>2. loop = "start" => \A g \in Library[r].gated : i < g
      BY <1>1, <1>4, Lengths DEF RequiresApproval
    <2>3. timers' = q
      BY <1>4
    <2>4. Fits(e, x, q, log)
      BY <1>4, <2>2, FitsWaiting
    <2> HIDE DEF t
    <2>5. /\ q \in Seq(Timers) /\ DOMAIN q = DOMAIN queue \cup {Len(queue) + 1}
          /\ \A k \in DOMAIN queue : q[k] = queue[k]
          /\ q[Len(queue) + 1] = t
      BY <2>1, Longer
    <2> HIDE DEF q
    <2>6. Shifted(e, q, d)
      BY <2>1, <2>5 DEF Shifted
    <2>7. log \in Seq(Event) /\ Hears(e, log)
      BY <1>1, <1>4, HeardTwice, RecordHears DEF Hears
    <2> HIDE DEF log
    <2> QED
      BY <1>4, <2>3, <2>4, <2>5, <2>6, <2>7, Touched
  <1> QED
    BY <1>2, <1>3, <1>4 DEF Turn

\* startExecution: the new execution has no timer, for every timer is of an
\* execution that the store holds.
LEMMA StartStep ==
    ASSUME IInv, NEW r \in DOMAIN Library, NEW e \in Execs, startExecution(r, e),
           simulation' \in {simulation, None}
    PROVE  IInv'
  <1> DEFINE started == <<Log("STARTED", 0)>>
  <1>1. PICK x : x = NewExecution(r)
    OBVIOUS
  <1>2. /\ x \in Execution(r) /\ x.status = "running" /\ x.results[1] = "running"
        /\ \A j \in Steps(r) : x.results[j] # "succeeded"
    BY <1>1, NewResults
  <1>3. e \notin DOMAIN executions /\ Turn(e, x, "start", 1, timers, started)
    BY <1>1 DEF startExecution
  <1>4. started \in Seq(Event)
    BY DEF Log, Event
  <1> HIDE DEF started
  <1>5. Own(e, timers) = {}
    BY <1>3 DEF Own, IInv, TimersOwned
  <1>6. NoSteps(e, timers)
    BY <1>5 DEF NoSteps
  <1>7. x.runbook = r
    BY <1>2, Fields
  <1>8. Fits(e, x, timers, Heard(e, started))
    BY <1>2, <1>5, <1>7 DEF Fits, Gated
  <1>9. 1 \in Steps(r) /\ \A g \in Library[r].gated : 1 <= g
    BY Lengths DEF Steps
  <1>10. timers \in Seq(Timers) /\ Shifted(e, timers, 0)
    <2>1. timers \in Seq(Timers)
      BY DEF IInv, TypeOK
    <2> QED
      BY <2>1 DEF Shifted
  <1> QED
    BY <1>2, <1>3, <1>4, <1>6, <1>8, <1>9, <1>10, TurnStep

\* "Authorize Step": what paused has no timer, and its current step is the
\* first gate, which is now authorised.
LEMMA ApproveStep ==
    ASSUME IInv, NEW e \in Execs, approveExecutionStep(e)
    PROVE  IInv'
  <1>1. /\ e \in DOMAIN executions /\ executions[e].status = "paused"
        /\ simulation' = simulation
    BY DEF approveExecutionStep, CanAuthorize
  <1>2. PICK r \in DOMAIN Library : executions[e] \in Execution(r)
    BY <1>1 DEF IInv, TypeOK
  <1>3. PICK x \in Execution(r) : x = executions[e]
    BY <1>2
  <1>4. PICK i \in Steps(r) : i = x.current
    BY Fields
  <1> DEFINE approved == <<Log("APPROVED", i)>>
  <1>5. PICK y : y = ResumedAt(x, i)
    OBVIOUS
  <1>6. Turn(e, y, "resume", i, timers, approved)
    BY <1>3, <1>4, <1>5 DEF approveExecutionStep
  <1>7. approved \in Seq(Event) /\ approved[1] = Log("APPROVED", i) /\ 1 \in DOMAIN approved
    BY Lengths DEF Log, Event
  <1>8. Fits(e, x, timers, audit[e])
    BY <1>1, <1>3 DEF IInv
  <1>9. x.runbook = r
    BY Fields
  <1>10. Own(e, timers) = {} /\ i \in Gate(r)
    BY <1>1, <1>3, <1>4, <1>8, <1>9 DEF Fits
  <1>11. Authorised(r, Heard(e, approved))
    <2>1. PICK old \in Seq(Event) : old = audit[e]
      BY DEF IInv, TypeOK, Ids
    <2> HIDE DEF approved
    <2>2. /\ Len(old) + 1 \in DOMAIN (old \o approved)
          /\ (old \o approved)[Len(old) + 1] = approved[1]
      BY <1>7, GrownLog
    <2>3. Heard(e, approved) = old \o approved
      BY <2>1 DEF Heard
    <2>4. Log("APPROVED", i).type = "APPROVED" /\ Log("APPROVED", i).step = i
      BY DEF Log
    <2>5. \A g \in Gate(r) : g = i
      BY <1>10, OneGate
    <2> QED
      BY <1>7, <2>2, <2>3, <2>4, <2>5 DEF Authorised
  <1> HIDE DEF approved
  <1>12. /\ y \in Execution(r) /\ y.status = "running" /\ y.results[i] = "running"
         /\ y.runbook = r
    BY <1>5, PausedResults, Fields
  <1>13. NoSteps(e, timers)
    BY <1>10 DEF NoSteps
  <1>14. Fits(e, y, timers, Heard(e, approved))
    BY <1>10, <1>11, <1>12 DEF Fits, Gated
  <1>15. timers \in Seq(Timers) /\ Shifted(e, timers, 0)
    <2>1. timers \in Seq(Timers)
      BY DEF IInv, TypeOK
    <2> QED
      BY <2>1 DEF Shifted
  <1> QED
    BY <1>1, <1>6, <1>7, <1>11, <1>12, <1>13, <1>14, <1>15, TurnStep

\* The step of the oldest timer succeeded.
LEMMA SteppedStep ==
    ASSUME IInv, StepTimeout
    PROVE  IInv'
  <1>1. timers \in Seq(Timers) /\ timers # <<>> /\ simulation' = simulation
    BY DEF StepTimeout, IInv, TypeOK
  <1>2. PICK h \in Timers : h = Head(timers) /\ h = timers[1]
    BY <1>1, Shorter
  <1>3. PICK e \in Execs : e = h.exec
    BY DEF Timers
  <1>4. 1 \in DOMAIN timers /\ e \in DOMAIN executions
    BY <1>1, <1>2, <1>3, Shorter DEF IInv, TimersOwned
  <1>5. PICK r \in DOMAIN Library : executions[e] \in Execution(r)
    BY <1>4 DEF IInv, TypeOK
  <1>6. PICK x \in Execution(r) : x = executions[e]
    BY <1>5
  <1>7. PICK loop \in {"start", "resume"} : loop = h.loop
    BY <1>2 DEF StepTimeout
  <1>8. PICK y : y = StepSucceeded(x, h.step)
    OBVIOUS
  <1>9. PICK rest \in Seq(Timers) : rest = Tail(timers)
    BY <1>1, Shorter
  <1>10. PICK log \in Seq(Event) : log = audit[e]
    BY DEF IInv, TypeOK, Ids
  <1>11. Fits(e, x, timers, log)
    BY <1>4, <1>6, <1>10 DEF IInv
  <1>12. /\ h.step \in Steps(r)
         /\ loop = "start" => \A g \in Library[r].gated : h.step < g
         /\ loop = "resume" => Authorised(r, log)
         /\ NoSteps(e, rest)
         /\ Fits(e, y, rest, log)
    <2>1. /\ h = timers[1] /\ h.exec = e /\ h.loop \in {"start", "resume"}
          /\ Rest(timers, rest)
      BY <1>1, <1>2, <1>3, <1>7, <1>9, Shorter DEF Rest
    <2>2. timers \in Seq(Timers) /\ Fits(e, x, timers, log)
      BY <1>1, <1>11
    <2>3. NoSteps(e, rest) /\ Fits(e, y, rest, log)
      BY <1>8, <2>1, <2>2, FitsStepped
    <2>4. Waits(x, h, log) /\ x.runbook = r
      BY <2>1, <2>2, Fields DEF Fits, Own, Rest
    <2> QED
      BY <1>7, <2>3, <2>4 DEF Waits
  <1> DEFINE done == <<Log("STEP", h.step)>>
  <1>13. done \in Seq(Event)
    BY <1>12, Lengths DEF Log, Event
  <1>14. \/ /\ h.step < Library[y.runbook].len
            /\ Turn(e, y, loop, h.step + 1, rest, done)
         \/ /\ h.step = Library[y.runbook].len
            /\ Complete(e, y, rest, done)
    BY <1>2, <1>3, <1>6, <1>7, <1>8, <1>9 DEF StepTimeout
  <1> HIDE DEF done
  <1>15. /\ y \in Execution(r) /\ y.runbook = r
         /\ h.step < Library[r].len => y.results[h.step + 1] = "running"
    BY <1>8, <1>12, SucceededResults, Fields
  <1>16. rest \in Seq(Timers) /\ Shifted(e, rest, 1)
    BY <1>1, <1>9, Shorter DEF Shifted
  <1>17. Authorised(r, log) => Authorised(r, Heard(e, done))
    BY <1>10, <1>13, GrownLog DEF Heard
  <1>18. Fits(e, y, rest, Heard(e, done))
    BY <1>12, <1>15, <1>16, <1>17, FitsLonger
  <1>19. CASE h.step < Library[r].len /\ Turn(e, y, loop, h.step + 1, rest, done)
    <2>1. PICK i \in Steps(r) : i = h.step + 1
      BY <1>12, <1>19, Lengths
    <2>2. Turn(e, y, loop, i, rest, done) /\ y.results[i] = "running"
      BY <1>15, <1>19, <2>1
    <2>3. loop = "start" => \A g \in Library[r].gated : i <= g
      BY <1>12, <2>1, Lengths
    <2>4. loop = "resume" => Authorised(r, Heard(e, done))
      BY <1>12, <1>17
    <2> QED
      BY <1>1, <1>12, <1>13, <1>15, <1>16, <1>18, <2>2, <2>3, <2>4, TurnStep
  <1>20. CASE Complete(e, y, rest, done)
    BY <1>1, <1>12, <1>13, <1>15, <1>16, <1>18, <1>20, CompleteStep
  <1> QED
    BY <1>14, <1>15, <1>19, <1>20

\* The rollback of the oldest timer: it is the last of its execution.
LEMMA RestoredStep ==
    ASSUME IInv, RollbackTimeout
    PROVE  IInv'
  <1>1. timers \in Seq(Timers) /\ timers # <<>> /\ simulation' = simulation /\ TypeOK
    BY DEF RollbackTimeout, IInv, TypeOK
  <1>2. PICK h \in Timers : h = Head(timers) /\ h = timers[1]
    BY <1>1, Shorter
  <1>3. PICK e \in Execs : e = h.exec
    BY DEF Timers
  <1>4. 1 \in DOMAIN timers /\ e \in DOMAIN executions
    BY <1>1, <1>2, <1>3, Shorter DEF IInv, TimersOwned
  <1>5. PICK r \in DOMAIN Library : executions[e] \in Execution(r)
    BY <1>4 DEF IInv, TypeOK
  <1>6. PICK x \in Execution(r) : x = executions[e]
    BY <1>5
  <1>7. PICK rest : rest = Tail(timers)
    OBVIOUS
  <1>8. PICK log \in Seq(Event) : log = audit[e]
    BY DEF IInv, TypeOK, Ids
  <1>9. Fits(e, x, timers, log) /\ x.runbook = r
    BY <1>4, <1>6, <1>8, Fields DEF IInv
  <1> DEFINE y == [x EXCEPT !.status = "rolled_back"]
             restored == <<Log("RESTORED", 0)>>
             longer == Heard(e, restored)
  <1>10. Store(e, y) /\ Record(e, restored) /\ timers' = rest /\ h.loop = "rollback"
    BY <1>2, <1>3, <1>6, <1>7 DEF RollbackTimeout
  <1>11. /\ y \in Execution(r) /\ y.status = "rolled_back" /\ y.results = x.results
         /\ y.runbook = r
    BY <1>9 DEF Execution, ExecutionStatus
  <1>12. restored \in Seq(Event)
    BY DEF Log, Event
  <1> HIDE DEF y, restored
  <1>13. rest \in Seq(Timers) /\ Shifted(e, rest, 1)
    BY <1>1, <1>7, Shorter DEF Shifted
  <1>14. longer \in Seq(Event) /\ (Authorised(r, log) => Authorised(r, longer))
    <2>1. log \o restored \in Seq(Event)
      BY <1>12
    <2>2. Authorised(r, log) => Authorised(r, log \o restored)
      BY <1>12, GrownLog
    <2> QED
      BY <1>8, <2>1, <2>2 DEF Heard
  <1>15. Hears(e, longer)
    BY <1>1, <1>10, <1>12, RecordHears
  <1> HIDE DEF longer
  <1>16. Own(e, rest) = {}
    <2> SUFFICES ASSUME NEW k \in Own(e, rest)
                 PROVE  FALSE
      OBVIOUS
    <2>1. k \in Nat \ {0} /\ k + 1 \in Own(e, timers)
      BY <1>1, <1>7, Shorter DEF Own
    <2>2. 1 \in Own(e, timers) /\ timers[1].loop = "rollback"
      BY <1>2, <1>3, <1>4, <1>10 DEF Own
    <2>3. k + 1 <= 1
      BY <1>9, <2>1, <2>2 DEF Fits, Last
    <2> QED
      BY <2>1, <2>3
  <1>17. Fits(e, y, rest, longer)
    BY <1>9, <1>11, <1>14, <1>16 DEF Fits, Gated
  <1> QED
    BY <1>1, <1>10, <1>11, <1>13, <1>14, <1>15, <1>17, Touched

\* "Trigger Rollback": the rollback's timer is set behind all others.
LEMMA RollbackStep ==
    ASSUME IInv, NEW e \in Execs, triggerRollback(e)
    PROVE  IInv'
  <1>1. /\ timers \in Seq(Timers) /\ simulation' = simulation /\ TypeOK
        /\ e \in DOMAIN executions /\ executions[e].status = "running"
    BY DEF triggerRollback, CanRollback, IInv, TypeOK
  <1>2. PICK r \in DOMAIN Library : executions[e] \in Execution(r)
    BY <1>1 DEF IInv, TypeOK
  <1>3. PICK x \in Execution(r) : x = executions[e]
    BY <1>2
  <1>4. PICK log \in Seq(Event) : log = audit[e]
    BY DEF IInv, TypeOK, Ids
  <1>5. Fits(e, x, timers, log) /\ x.runbook = r
    BY <1>1, <1>3, <1>4, Fields DEF IInv
  <1> DEFINE y == RolledBack(x)
             events == <<Log("FAILED", 0), Log("ROLLBACK", 0)>>
             longer == Heard(e, events)
  <1>20. /\ Timer(e, "rollback", 0) \in Timers
         /\ Timer(e, "rollback", 0).exec = e /\ Timer(e, "rollback", 0).loop = "rollback"
    BY DEF Timer, Timers
  <1>9. PICK t \in Timers : t = Timer(e, "rollback", 0) /\ t.exec = e /\ t.loop = "rollback"
    BY <1>20
  <1>19. PICK q : q = Append(timers, t)
    OBVIOUS
  <1>6. Store(e, y) /\ Record(e, events) /\ timers' = q
    BY <1>3, <1>9, <1>19 DEF triggerRollback
  <1>7. /\ y \in Execution(r) /\ y.status = "failed" /\ y.results = x.results
        /\ y.runbook = r
    BY <1>5 DEF Execution, ExecutionStatus, RolledBack
  <1>8. events \in Seq(Event)
    BY DEF Log, Event
  <1> HIDE DEF y, events
  <1>10. PICK n \in Nat \ {0} : /\ q \in Seq(Timers)
                                /\ DOMAIN timers = 1 .. n - 1 /\ DOMAIN q = 1 .. n
                                /\ \A k \in DOMAIN timers : q[k] = timers[k]
                                /\ q[n] = t
    <2>1. /\ q \in Seq(Timers) /\ Len(timers) \in Nat
          /\ DOMAIN timers = 1 .. Len(timers) /\ DOMAIN q = 1 .. Len(timers) + 1
          /\ \A k \in DOMAIN timers : q[k] = timers[k]
          /\ q[Len(timers) + 1] = t
      BY <1>1, <1>19, Longer
    <2>2. Len(timers) + 1 \in Nat \ {0} /\ (Len(timers) + 1) - 1 = Len(timers)
      BY <2>1
    <2> QED
      BY <2>1, <2>2
  <1>11. \A k \in DOMAIN q : k \in Nat /\ (k = n \/ (k \in DOMAIN timers /\ q[k] = timers[k]))
    <2> SUFFICES ASSUME NEW k \in DOMAIN q, k # n
                 PROVE  k \in Nat /\ k \in DOMAIN timers
      BY <1>10
    <2>1. k \in 1 .. n
      BY <1>10
    <2>2. k \in 1 .. n - 1
      BY <2>1
    <2> QED
      BY <1>10, <2>2
  <1>18. Shifted(e, q, 0)
    <2>1. ASSUME NEW k \in DOMAIN q, q[k].exec # e
          PROVE  k + 0 \in DOMAIN timers /\ timers[k + 0] = q[k]
      <3>1. k # n
        BY <1>9, <1>10, <2>1
      <3>2. k + 0 = k
        BY <1>11
      <3> QED
        BY <1>11, <3>1, <3>2
    <2> QED
      BY <2>1 DEF Shifted
  <1>12. longer \in Seq(Event) /\ (Authorised(r, log) => Authorised(r, longer))
    <2>1. log \o events \in Seq(Event)
      BY <1>8
    <2>2. Authorised(r, log) => Authorised(r, log \o events)
      BY <1>8, GrownLog
    <2> QED
      BY <1>4, <2>1, <2>2 DEF Heard
  <1>13. Hears(e, longer)
    BY <1>1, <1>6, <1>8, RecordHears
  <1> HIDE DEF longer
  <1>14. Fits(e, y, q, longer)
    <2>1. /\ \A k \in Own(e, q) : k = n \/ (k \in Own(e, timers) /\ q[k] = timers[k])
          /\ \A k \in Own(e, q) : k <= n
      <3>1. \A k \in Own(e, q) : k \in 1 .. n
        BY <1>10 DEF Own
      <3>2. \A k \in Own(e, q) : k <= n
        BY <3>1
      <3>3. \A k \in Own(e, q) : k = n \/ (k \in Own(e, timers) /\ q[k] = timers[k])
        BY <1>11 DEF Own
      <3> QED
        BY <3>2, <3>3
    <2>2. \A k \in Own(e, timers) : timers[k].loop # "rollback"
      BY <1>1, <1>3, <1>5 DEF Fits, Last
    <2>3. ASSUME NEW k \in Own(e, q), NEW l \in Own(e, q), q[k].loop # "rollback",
                 q[l].loop # "rollback"
          PROVE  k = l
      <3>1. k # n /\ l # n
        BY <1>9, <1>10, <2>3
      <3>2. k \in Own(e, timers) /\ l \in Own(e, timers)
        BY <2>1, <3>1
      <3> QED
        BY <1>5, <2>2, <3>2 DEF Fits
    <2>4. ASSUME NEW k \in Own(e, q), q[k].loop # "rollback"
          PROVE  Waits(y, q[k], longer)
      <3>1. k \in Own(e, timers) /\ q[k] = timers[k]
        <4>1. k # n
          BY <1>9, <1>10, <2>4
        <4> QED
          BY <2>1, <4>1
      <3>2. Waits(x, q[k], log)
        BY <1>5, <2>2, <3>1 DEF Fits
      <3> QED
        BY <1>5, <1>7, <1>12, <3>2 DEF Waits
    <2>5. ASSUME NEW k \in Own(e, q), q[k].loop = "rollback"
          PROVE  Last(e, y, q, k)
      <3>1. k = n
        BY <2>1, <2>2, <2>5
      <3> QED
        BY <1>7, <2>1, <3>1 DEF Last
    <2>6. Gated(y, longer)
      BY <1>5, <1>7, <1>12 DEF Fits, Gated
    <2> QED
      BY <1>7, <2>3, <2>4, <2>5, <2>6 DEF Fits
  <1> QED
    BY <1>1, <1>6, <1>7, <1>10, <1>18, <1>12, <1>13, <1>14, Touched

\* The page starts in the invariant, whatever executions it starts with.
LEMMA InitIInv == Init => IInv
  <1> SUFFICES ASSUME Init
               PROVE  IInv
    OBVIOUS
  <1>1. timers = <<>> /\ timers \in Seq(Timers) /\ DOMAIN timers = {}
    BY DEF Init
  <1>2. audit \in [Ids -> Seq(Event)]
    BY DEF Init
  <1>3. TypeOK
    BY <1>1, <1>2, InitialExecutionsAssumption DEF Init, TypeOK, Ids
  <1>4. TimersOwned
    BY <1>1 DEF TimersOwned
  <1>5. DOMAIN executions \cap Execs = {}
    BY DEF Init
  <1> QED
    BY <1>3, <1>4, <1>5 DEF IInv

\* A step of the panels alone.
LEMMA PanelStep ==
    ASSUME IInv, UNCHANGED <<executions, timers, audit>>,
           activeExecution' \in {activeExecution, None},
           simulation' \in {None} \cup [runbook : DOMAIN Library, loading : BOOLEAN]
    PROVE  IInv'
  <1>1. TypeOK'
    BY DEF IInv, TypeOK
  <1>2. TimersOwned'
    BY DEF IInv, TimersOwned
  <1> QED
    BY <1>1, <1>2 DEF IInv

\* Every step keeps the invariant.
LEMMA Inductive == IInv /\ [Next]_vars => IInv'
  <1> SUFFICES ASSUME IInv, [Next]_vars
               PROVE  IInv'
    OBVIOUS
  <1> USE DEF IInv, TypeOK
  <1>1. ASSUME NEW r \in DOMAIN Library, NEW e \in Execs, Execute(r, e)
        PROVE  IInv'
    BY <1>1, StartStep DEF Execute
  <1>2. ASSUME NEW e \in Execs, DeployRemediation(e)
        PROVE  IInv'
    <2>1. simulation.runbook \in DOMAIN Library /\ startExecution(simulation.runbook, e)
      BY <1>2 DEF DeployRemediation
    <2> QED
      BY <1>2, <2>1, StartStep DEF DeployRemediation
  <1>3. CASE clearActiveExecution
    BY <1>3, PanelStep DEF clearActiveExecution
  <1>4. ASSUME NEW r \in DOMAIN Library, OpenSimulation(r)
        PROVE  IInv'
    BY <1>4, PanelStep DEF OpenSimulation
  <1>5. CASE CloseSimulation
    BY <1>5, PanelStep DEF CloseSimulation
  <1>6. CASE Simulated
    BY <1>6, PanelStep DEF Simulated
  <1>7. CASE UNCHANGED vars
    BY <1>7, PanelStep DEF vars
  <1> QED
    BY <1>1, <1>2, <1>3, <1>4, <1>5, <1>6, <1>7, ApproveStep, RollbackStep, SteppedStep,
       RestoredStep DEF Next, Operator, Timeout

\* The invariant holds in every reachable state.
THEOREM Invariance == Spec => []IInv
  <1> QED
    BY InitIInv, Inductive, PTL DEF Spec

---------------------------------------------------------------------------
(* What follows from it.                                                    *)

\* Executions, timers and audit have their types; the current step of an
\* execution is one of its runbook.
THEOREM TypeCorrect == Spec => []TypeOK
  <1>1. IInv => TypeOK
    BY DEF IInv
  <1> QED
    BY <1>1, Invariance, PTL

\* One loop drives an execution, and it waits for the step that runs; what
\* is paused waits for nothing.
THEOREM SingleLoop == Spec => []OneLoopPerExecution
  <1>1. IInv => OneLoopPerExecution
    <2> SUFFICES ASSUME IInv, NEW e \in DOMAIN executions
                 PROVE  /\ \A k, l \in Stepping(e) : k = l
                        /\ \A k \in Stepping(e) : executions[e].results[timers[k].step] = "running"
                        /\ executions[e].status = "paused" => Pending(e) = {}
      BY DEF OneLoopPerExecution
    <2>1. Pending(e) = Own(e, timers)
      BY DEF Pending, Own
    <2>2. CASE e \in Execs
      <3>1. Fits(e, executions[e], timers, audit[e])
        BY <2>2 DEF IInv
      <3> QED
        BY <2>1, <3>1 DEF Stepping, Fits, Waits
    <2>3. CASE e \notin Execs
      <3>1. \A k \in DOMAIN timers : timers[k] \in Timers
        BY DEF IInv, TypeOK
      <3>2. Pending(e) = {}
        BY <2>3, <3>1 DEF Pending, Timers
      <3> QED
        BY <3>2 DEF Stepping
    <2> QED
      BY <2>2, <2>3
  <1> QED
    BY <1>1, Invariance, PTL

\* Nothing from the first gate on is done before an operator authorised it.
THEOREM GatesHold == Spec => []FirstGateHolds
  <1>1. IInv => FirstGateHolds
    <2> SUFFICES ASSUME IInv, NEW e \in DOMAIN executions \ DOMAIN initialExecutions,
                        NEW i \in Gate(executions[e].runbook),
                        NEW j \in Steps(executions[e].runbook),
                        j >= i, executions[e].results[j] = "succeeded"
                 PROVE  \E k \in Logged(e, "APPROVED") : audit[e][k].step = i
      BY DEF FirstGateHolds
    <2>1. e \in Execs
      BY DEF IInv, TypeOK, Ids
    <2>2. Authorised(executions[e].runbook, audit[e])
      BY <2>1 DEF IInv, Fits, Gated
    <2> QED
      BY <2>2 DEF Authorised, Logged
  <1> QED
    BY <1>1, Invariance, PTL

\* A step of execution e leaves the others as they are.
LEMMA OthersStay ==
    ASSUME TypeOK, NEW e, NEW x, NEW events, Store(e, x), Record(e, events),
           NEW f \in DOMAIN executions, f # e
    PROVE  executions'[f] = executions[f] /\ audit'[f] = audit[f]
  BY DEF Store, Record, TypeOK

\* Leaving a loop, and a turn of one, are such steps.
LEMMA TurnStays ==
    ASSUME TypeOK, NEW e, NEW x, NEW loop, NEW i, NEW queue, NEW events,
           NEW f \in DOMAIN executions, f # e
    PROVE  /\ Complete(e, x, queue, events) =>
                  executions'[f] = executions[f] /\ audit'[f] = audit[f]
           /\ Turn(e, x, loop, i, queue, events) =>
                  executions'[f] = executions[f] /\ audit'[f] = audit[f]
  <1>1. ASSUME NEW y, NEW more, Complete(e, y, queue, more)
        PROVE  executions'[f] = executions[f] /\ audit'[f] = audit[f]
    BY <1>1, OthersStay DEF Complete
  <1> QED
    BY <1>1, OthersStay DEF Turn

\* What was restored has no timer, is not paused and does not run: no step
\* is a step of it.
LEMMA RestoredStays ==
    ASSUME IInv, [Next]_vars, NEW f \in DOMAIN executions, executions[f].status = "rolled_back"
    PROVE  executions'[f] = executions[f] /\ audit'[f] = audit[f]
  <1>1. TypeOK
    BY DEF IInv
  <1>2. timers # <<>> => Head(timers).exec # f
    <2> SUFFICES ASSUME timers # <<>>, Head(timers).exec = f
                 PROVE  FALSE
      OBVIOUS
    <2>1. 1 \in DOMAIN timers /\ timers[1] \in Timers /\ timers[1].exec = f
      BY <1>1, Shorter DEF TypeOK
    <2>2. f \in Execs /\ 1 \in Own(f, timers)
      BY <2>1 DEF Timers, Own
    <2>3. Fits(f, executions[f], timers, audit[f])
      BY <2>2 DEF IInv
    <2> QED
      BY <2>2, <2>3 DEF Fits
  <1>3. ASSUME NEW r, NEW e \in Execs, startExecution(r, e)
        PROVE  executions'[f] = executions[f] /\ audit'[f] = audit[f]
    <2>1. f # e
      BY <1>3 DEF startExecution
    <2> QED
      BY <1>1, <1>3, <2>1, TurnStays DEF startExecution
  <1>4. ASSUME NEW e \in Execs, approveExecutionStep(e)
        PROVE  executions'[f] = executions[f] /\ audit'[f] = audit[f]
    <2>1. f # e
      BY <1>4 DEF approveExecutionStep, CanAuthorize
    <2> QED
      BY <1>1, <1>4, <2>1, TurnStays DEF approveExecutionStep
  <1>5. ASSUME NEW e \in Execs, triggerRollback(e)
        PROVE  executions'[f] = executions[f] /\ audit'[f] = audit[f]
    <2>1. f # e
      BY <1>5 DEF triggerRollback, CanRollback
    <2> QED
      BY <1>1, <1>5, <2>1, OthersStay DEF triggerRollback
  <1>6. CASE StepTimeout
    <2>1. PICK e : e = Head(timers).exec
      OBVIOUS
    <2>2. PICK i : i = Head(timers).step
      OBVIOUS
    <2>3. PICK x : x = StepSucceeded(executions[e], i)
      OBVIOUS
    <2>4. PICK rest : rest = Tail(timers)
      OBVIOUS
    <2>5. PICK done : done = <<Log("STEP", i)>>
      OBVIOUS
    <2>6. PICK loop : loop = Head(timers).loop
      OBVIOUS
    <2>7. e # f
      BY <1>2, <1>6, <2>1 DEF StepTimeout
    <2>8. Turn(e, x, loop, i + 1, rest, done) \/ Complete(e, x, rest, done)
      BY <1>6, <2>1, <2>2, <2>3, <2>4, <2>5, <2>6 DEF StepTimeout
    <2> QED
      BY <1>1, <2>7, <2>8, TurnStays
  <1>7. CASE RollbackTimeout
    BY <1>1, <1>2, <1>7, OthersStay DEF RollbackTimeout
  <1>8. CASE UNCHANGED <<executions, audit>>
    BY <1>8
  <1> QED
    BY <1>3, <1>4, <1>5, <1>6, <1>7, <1>8
       DEF Next, Operator, Timeout, Execute, DeployRemediation, clearActiveExecution,
           OpenSimulation, CloseSimulation, Simulated, vars

\* A restored execution stays as it is.
THEOREM RestoredForGood == Spec => RestoredIsFinal
  <1>1. IInv /\ [Next]_vars =>
           [\A e \in DOMAIN executions :
               executions[e].status = "rolled_back" =>
                  executions'[e] = executions[e] /\ audit'[e] = audit[e]]_vars
    BY RestoredStays
  <1> QED
    BY <1>1, Invariance, PTL DEF Spec, RestoredIsFinal
=============================================================================
