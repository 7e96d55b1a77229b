---------------------- MODULE CommandApproval_proofs ----------------------
(***************************************************************************)
(* Proofs about the command preview and the approval queue of the page,    *)
(* for any commands, operators, initial requests and time limits.          *)
(***************************************************************************)
EXTENDS CommandApproval, TLAPS

USE ConstantsAssumption

---------------------------------------------------------------------------
(* The inductive invariant: a pending request that is not critical has no   *)
(* decision, which is what a sweep relies on, because it is explained.      *)

IInv == TypeOK /\ StatusExplained

USE DEF modalVars, ztaVars, queueVars, hubVars

---------------------------------------------------------------------------
(* Facts about the operators.                                              *)

\* The newest decision is the first of the list, which grows by it.
LEMMA Prepended ==
    ASSUME NEW decisions \in Seq(Decision), NEW d \in Decision
    PROVE  /\ <<d>> \o decisions \in Seq(Decision)
           /\ (<<d>> \o decisions)[1] = d
           /\ Len(<<d>> \o decisions) = 1 + Len(decisions)
           /\ <<d>> \o decisions # <<>>
  OBVIOUS

\* What a decision leaves of a request.
LEMMA DecidedFields ==
    ASSUME NEW request \in Request, NEW by \in DOMAIN operators,
           NEW decision \in ApprovalDecision
    PROVE  /\ Decided(request, by, decision) \in Request
           /\ Decided(request, by, decision).risk = request.risk
           /\ Decided(request, by, decision).decisions # <<>>
           /\ Decided(request, by, decision).decisions[1].decision = decision
           /\ Len(Decided(request, by, decision).decisions) = 1 + Len(request.decisions)
           /\ request.risk # "critical" =>
                 Decided(request, by, decision).status = ClosedBy(decision)
  <1> DEFINE d == [by |-> by, decision |-> decision]
             list == <<d>> \o request.decisions
  <1>1. d \in Decision /\ d.decision = decision
    BY DEF Decision
  <1>2. request.decisions \in Seq(Decision) /\ request.status \in ApprovalStatus
    BY DEF Request
  <1>3. /\ list \in Seq(Decision) /\ list # <<>> /\ list[1] = d
        /\ Len(list) = 1 + Len(request.decisions)
    BY <1>1, <1>2, Prepended
  <1>4. /\ StatusAfter(request, list, decision) \in ApprovalStatus
        /\ request.risk # "critical" =>
              StatusAfter(request, list, decision) = ClosedBy(decision)
    <2>1. CASE decision = "approve"
      BY <1>2, <2>1 DEF StatusAfter, ApprovalStatus, ClosedBy
    <2>2. CASE decision = "reject"
      BY <2>2 DEF StatusAfter, ApprovalStatus, ClosedBy
    <2>3. CASE decision = "request_changes"
      BY <2>3 DEF StatusAfter, ApprovalStatus, ClosedBy
    <2> QED
      BY <2>1, <2>2, <2>3 DEF ApprovalDecision
  <1>5. Decided(request, by, decision) =
           [request EXCEPT !.decisions = list,
                           !.status = StatusAfter(request, list, decision)]
    BY DEF Decided
  <1> HIDE DEF list, d
  <1>6. /\ Decided(request, by, decision) \in Request
        /\ Decided(request, by, decision).risk = request.risk
        /\ Decided(request, by, decision).decisions = list
        /\ Decided(request, by, decision).status = StatusAfter(request, list, decision)
    BY <1>3, <1>4, <1>5 DEF Request
  <1> QED
    BY <1>1, <1>3, <1>4, <1>6 DEF list, d

\* A sweep changes nothing of a request but a status that is pending.
LEMMA SweptFields ==
    ASSUME NEW request \in Request
    PROVE  /\ Swept(request) \in Request
           /\ Swept(request).risk = request.risk
           /\ Swept(request).decisions = request.decisions
           /\ request.status # "pending" => Swept(request) = request
           /\ Swept(request).status \in {request.status, "expired", "escalated"}
  BY DEF Swept, Request, ApprovalStatus

\* A new request is pending and undecided.
LEMMA NewFields ==
    ASSUME TypeOK, NEW intent
    PROVE  /\ NewRequest(intent) \in Request
           /\ NewRequest(intent).status = "pending"
           /\ NewRequest(intent).decisions = <<>>
  <1>1. classifyCommandRisk(intent) \in Risks
    BY DEF classifyCommandRisk, Risks
  <1>2. <<>> \in Seq(Decision)
    OBVIOUS
  <1> QED
    BY <1>1, <1>2 DEF NewRequest, Request, ApprovalStatus, TypeOK

---------------------------------------------------------------------------
(* The initial state and the steps.                                        *)

\* The fixtures satisfy the invariant.
LEMMA InitIInv == Init => IInv
  <1> SUFFICES ASSUME Init
               PROVE  IInv
    OBVIOUS
  <1>1. TypeOK
    BY InitialRequestsAssumption
       DEF Init, TypeOK, CommandMode, ZtaStatus, Environment, Ids, Tabs
  <1>2. StatusExplained
    BY InitialRequestsAssumption DEF Init, StatusExplained
  <1> QED
    BY <1>1, <1>2 DEF IInv

\* What does not touch the requests keeps what is said of them.
LEMMA SameRequests ==
    ASSUME IInv, requests' = requests
    PROVE  StatusExplained'
  BY DEF IInv, StatusExplained

\* The modal and the policy panel.
LEMMA CommandStep ==
    ASSUME IInv, Command \/ Zta \/ Answer \/ Tick \/ UNCHANGED vars
    PROVE  IInv'
  <1> USE DEF IInv
  <1>1. ASSUME NEW intent \in Intents, openPreview(intent)
        PROVE  IInv'
    BY <1>1, SameRequests DEF openPreview, TypeOK, CommandMode
  <1>2. CASE closePreview
    BY <1>2, SameRequests DEF closePreview, TypeOK
  <1>3. ASSUME NEW mode \in CommandMode, setMode(mode)
        PROVE  IInv'
    BY <1>3, SameRequests DEF setMode, TypeOK
  <1>4. ASSUME NEW id \in Requests, RouteToApproval(id)
        PROVE  IInv'
    <2>1. /\ id \notin DOMAIN requests
          /\ requests' = WithRequest(id, NewRequest(preview))
      BY <1>4 DEF RouteToApproval
    <2>2. /\ DOMAIN requests' = DOMAIN requests \cup {id}
          /\ requests'[id] = NewRequest(preview)
          /\ \A r \in DOMAIN requests : requests'[r] = requests[r]
      BY <2>1 DEF WithRequest
    <2>3. /\ NewRequest(preview) \in Request
          /\ NewRequest(preview).status = "pending"
          /\ NewRequest(preview).decisions = <<>>
      BY NewFields
    <2>4. TypeOK'
      BY <1>4, <2>2, <2>3 DEF RouteToApproval, TypeOK, Ids
    <2>5. StatusExplained'
      BY <2>2, <2>3 DEF StatusExplained, Explained, Closed
    <2> QED
      BY <2>4, <2>5
  <1>5. CASE Dispatch
    BY <1>5, SameRequests DEF Dispatch, TypeOK
  <1>6. ASSUME NEW p \in Watched, NEW status \in ZtaStatus, setPillar(p, status)
        PROVE  IInv'
    BY <1>6, SameRequests DEF setPillar, TypeOK
  <1>7. ASSUME NEW env \in Environment, setEnvironment(env)
        PROVE  IInv'
    BY <1>7, SameRequests DEF setEnvironment, TypeOK
  <1>8. CASE resetPosture
    BY <1>8, SameRequests DEF resetPosture, TypeOK, ZtaStatus, Environment
  <1>9. ASSUME NEW id \in Requests, CallReturns(id)
        PROVE  IInv'
    BY <1>9, SameRequests DEF CallReturns, TypeOK
  <1>10. CASE Tick
    BY <1>10, SameRequests DEF Tick, TypeOK
  <1>11. CASE UNCHANGED vars
    BY <1>11, SameRequests DEF vars, TypeOK
  <1> QED
    BY <1>1, <1>2, <1>3, <1>4, <1>5, <1>6, <1>7, <1>8, <1>9, <1>10, <1>11
       DEF Command, Zta, Answer

\* A decision gives a request that is not critical the status it calls for,
\* whatever the dialog was opened on.
LEMMA DecisionStep ==
    ASSUME IInv, NEW id \in Ids, NEW by \in DOMAIN operators, NEW decision \in ApprovalDecision,
           handleSubmit(id, by, decision)
    PROVE  IInv'
  <1> DEFINE new == Decided(requests[id], by, decision)
  <1>1. /\ id \in DOMAIN requests /\ signOff' \subseteq signOff
        /\ requests' = [requests EXCEPT ![id] = new]
        /\ UNCHANGED <<preview, selectedMode, dispatched, posture, environment, calls,
                       rerouted, activeTab, now>>
    BY DEF handleSubmit, addDecision, IInv, TypeOK, Mounted
  <1>2. /\ DOMAIN requests' = DOMAIN requests /\ requests'[id] = new
        /\ \A r \in DOMAIN requests \ {id} : requests'[r] = requests[r]
    BY <1>1
  <1>3. PICK old \in Request : old = requests[id]
    BY <1>1 DEF IInv, TypeOK
  <1>4. /\ new \in Request
        /\ new.risk = old.risk
        /\ new.decisions # <<>>
        /\ new.decisions[1].decision = decision
        /\ old.risk # "critical" => new.status = ClosedBy(decision)
    BY <1>3, DecidedFields
  <1> HIDE DEF new
  <1>5. TypeOK'
    BY <1>1, <1>2, <1>4 DEF IInv, TypeOK
  <1>6. StatusExplained'
    <2>1. Explained(new)
      BY <1>4 DEF Explained
    <2> QED
      BY <1>2, <2>1 DEF IInv, StatusExplained
  <1> QED
    BY <1>5, <1>6 DEF IInv

\* The sweep.
LEMMA SweepStep ==
    ASSUME IInv, runEscalationCheck
    PROVE  IInv'
  <1>1. /\ DOMAIN requests' = DOMAIN requests
        /\ \A r \in DOMAIN requests : requests'[r] = Swept(requests[r])
    BY DEF runEscalationCheck
  <1>2. \A r \in DOMAIN requests : requests[r] \in Request
    BY DEF IInv, TypeOK
  <1>3. signOff' \subseteq signOff
    BY DEF runEscalationCheck, Mounted
  <1>4. TypeOK'
    BY <1>1, <1>2, <1>3, SweptFields DEF runEscalationCheck, IInv, TypeOK
  <1>5. ASSUME NEW r \in DOMAIN requests
        PROVE  Explained(Swept(requests[r]))
    <2>1. requests[r] \in Request /\ Explained(requests[r])
      BY <1>2 DEF IInv, StatusExplained
    <2>2. CASE requests[r].status = "pending"
      BY <2>1, <2>2, SweptFields DEF Explained, Closed, ClosedBy
    <2>3. CASE requests[r].status # "pending"
      BY <2>1, <2>3, SweptFields
    <2> QED
      BY <2>2, <2>3
  <1> QED
    BY <1>1, <1>4, <1>5 DEF IInv, StatusExplained

\* Every step keeps the invariant.
LEMMA Inductive == IInv /\ [Next]_vars => IInv'
  <1> SUFFICES ASSUME IInv, [Next]_vars
               PROVE  IInv'
    OBVIOUS
  <1>1. ASSUME NEW id \in Ids, OpenSignOff(id)
        PROVE  IInv'
    BY <1>1, SameRequests DEF OpenSignOff, IInv, TypeOK
  <1>2. ASSUME NEW id \in Ids, CloseSignOff(id)
        PROVE  IInv'
    BY <1>2, SameRequests DEF CloseSignOff, IInv, TypeOK
  <1>3. ASSUME NEW tab \in Tabs, setActiveTab(tab)
        PROVE  IInv'
    BY <1>3, SameRequests DEF setActiveTab, Mounted, IInv, TypeOK
  <1> QED
    BY <1>1, <1>2, <1>3, CommandStep, DecisionStep, SweepStep DEF Next, Queue

\* The invariant holds in every reachable state.
THEOREM Invariance == Spec => []IInv
  <1> QED
    BY InitIInv, Inductive, PTL DEF Spec

---------------------------------------------------------------------------
(* What follows from it.                                                    *)

\* The store, the modal and the dialogs have their types: in particular the
\* open dialogs and the POSTs under way are of requests in the queue.
THEOREM TypeCorrect == Spec => []TypeOK
  <1>1. IInv => TypeOK
    BY DEF IInv
  <1> QED
    BY <1>1, Invariance, PTL

\* The status of a request is the one its newest decision calls for.
THEOREM Explanations == Spec => []StatusExplained
  <1>1. IInv => StatusExplained
    BY DEF IInv
  <1> QED
    BY <1>1, Invariance, PTL

\* A request that is no longer pending changes only through a dialog that was
\* open on it before.
LEMMA ClosedStep ==
    ASSUME IInv, [Next]_vars, NEW id \in DOMAIN requests,
           requests[id].status # "pending", id \notin signOff
    PROVE  requests'[id] = requests[id]
  <1>1. CASE requests' = requests
    BY <1>1
  <1>2. ASSUME NEW r \in Requests, RouteToApproval(r)
        PROVE  requests'[id] = requests[id]
    BY <1>2 DEF RouteToApproval, WithRequest
  <1>3. ASSUME NEW r \in Ids, NEW by \in DOMAIN operators, NEW decision \in ApprovalDecision,
               handleSubmit(r, by, decision)
        PROVE  requests'[id] = requests[id]
    BY <1>3 DEF handleSubmit, addDecision
  <1>4. CASE runEscalationCheck
    <2>1. requests[id] \in Request
      BY DEF IInv, TypeOK
    <2> QED
      BY <1>4, <2>1, SweptFields DEF runEscalationCheck
  <1> QED
    BY <1>1, <1>2, <1>3, <1>4
       DEF Next, Command, Zta, Queue, Answer, Tick, vars, openPreview, closePreview, setMode,
           Dispatch, setPillar, setEnvironment, resetPosture, OpenSignOff, CloseSignOff, setActiveTab,
           CallReturns

\* A request that has left "pending" never changes any more unless a dialog
\* is still open on it.
THEOREM ClosedForGood == Spec => ClosedUnlessOpen
  <1>1. IInv /\ [Next]_vars =>
           [\A id \in DOMAIN requests :
               requests[id].status # "pending" /\ id \notin signOff =>
                  requests'[id] = requests[id]]_vars
    BY ClosedStep
  <1> QED
    BY <1>1, Invariance, PTL DEF Spec, ClosedUnlessOpen

\* The two copies of the approval rule agree, and a command the policy does
\* not block is one the preview had nothing against.
LEMMA RulesAgree ==
    ASSUME NEW intent \in Intents, NEW zta, NEW env
    PROVE  /\ evaluatePolicy(intent, zta, env).approval_required <=> isApprovalNeeded(intent, env)
           /\ evaluatePolicy(intent, zta, env).decision # "block" => previewBlockers(intent) = {}
  <1>1. evaluatePolicy(intent, zta, env).approval_required <=> isApprovalNeeded(intent, env)
    BY DEF evaluatePolicy, isApprovalNeeded
  <1>2. evaluatePolicy(intent, zta, env).decision # "block" => policyBlockers(intent, zta) = {}
    BY DEF evaluatePolicy
  <1>3. policyBlockers(intent, zta) = {} => classifyCommandRisk(intent) # "critical"
    BY DEF policyBlockers
  <1>4. intent = "unknown" => classifyCommandRisk(intent) = "critical"
    BY DEF classifyCommandRisk
  <1>5. classifyCommandRisk(intent) # "critical" => previewBlockers(intent) = {}
    BY <1>4 DEF previewBlockers
  <1> QED
    BY <1>1, <1>2, <1>3, <1>5

\* What was dispatched was permitted when it was, whatever changed between
\* the preview and the dispatch.
THEOREM PermittedDispatch == Spec => []DispatchedAsPermitted
  <1>1. Init => DispatchedAsPermitted
    BY DEF Init, DispatchedAsPermitted
  <1>2. IInv /\ DispatchedAsPermitted /\ [Next]_vars => DispatchedAsPermitted'
    <2> SUFFICES ASSUME IInv, DispatchedAsPermitted, [Next]_vars
                 PROVE  DispatchedAsPermitted'
      OBVIOUS
    <2>1. CASE dispatched' = dispatched
      BY <2>1 DEF DispatchedAsPermitted
    <2>2. CASE Dispatch
      <3>1. /\ preview \in Intents
            /\ dispatched'.intent = preview /\ dispatched'.mode = selectedMode
            /\ dispatched'.environment = environment
        BY <2>2 DEF Dispatch, IInv, TypeOK
      <3>2. selectedMode = "execute" =>
               ~evaluatePolicy(preview, posture, environment).approval_required
        BY <2>2 DEF Dispatch, routed
      <3>3. selectedMode # "override" =>
               evaluatePolicy(preview, posture, environment).decision # "block"
        BY <2>2 DEF Dispatch, canDispatch, isBlocked
      <3> QED
        BY <3>1, <3>2, <3>3, RulesAgree DEF DispatchedAsPermitted
    <2> QED
      BY <2>1, <2>2
         DEF Next, Command, Zta, Queue, Answer, Tick, vars, openPreview, closePreview, setMode,
             RouteToApproval, setPillar, setEnvironment, resetPosture, OpenSignOff,
             CloseSignOff, setActiveTab, handleSubmit, runEscalationCheck, CallReturns
  <1> QED
    BY <1>1, <1>2, Invariance, PTL DEF Spec
=============================================================================
