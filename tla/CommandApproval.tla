-------------------------- MODULE CommandApproval --------------------------
(***************************************************************************)
(* The operator's commands in the browser: the preview of a command        *)
(* (commandStore.ts, commandExecution.ts), the policy that is evaluated    *)
(* over it (policyEngine.ts, ztaPosture.ts), the modal that dispatches it  *)
(* or routes it to the approval queue (CommandPreviewModal.tsx), and the   *)
(* sign-off of what was routed (approvalStore.ts, ApprovalDecisionModal,   *)
(* EscalationPanel).  All state is local to the page.                      *)
(*                                                                         *)
(* Callbacks are atomic up to an await; the only await that matters is     *)
(* the POST of createApproval, during which the page goes on: its answer   *)
(* is an action of its own.  The overlays of the modals cover the page but *)
(* do not take the keyboard, so nothing else is disabled by them: every    *)
(* card of the queue has a sign-off dialog of its own, which is open as    *)
(* long as the card is on the tab that is shown.                           *)
(***************************************************************************)
EXTENDS Naturals, Sequences, FiniteSets

CONSTANTS Intents,          \* the intents that the commands given have
          Watched,          \* the ZTA pillars an operator changes
          Requests,         \* the approval ids that Math.random can draw
          initialRequests,  \* the requests the page starts with
          operators,        \* operator id -> role
          triggerMinutes,   \* minutes until a high risk request is escalated
          expiryMinutes,    \* minutes until a request expires
          MaxNow,           \* bound of the clock
          None              \* the null of preview

Pillars == {"identity", "device_posture", "network_trust", "session_integrity"}
ZtaStatus == {"verified", "warning", "failed"}
Environment == {"LOCAL", "PROD"}  \* DEV and STAGING are treated as LOCAL is
CommandMode == {"simulate", "execute", "override"}
ApprovalStatus ==
    {"pending", "approved", "rejected", "changes_requested", "expired", "escalated"}
ApprovalDecision == {"approve", "reject", "request_changes"}
Tabs == {"pending", "approved", "rejected", "all"}
Risks == {"low", "medium", "high", "critical"}

ASSUME ConstantsAssumption ==
    /\ Intents \subseteq {"rebalance_workload", "rollback_deploy", "restart_agent",
                          "run_diagnostic", "unknown"}
    /\ Watched \subseteq Pillars
    /\ None \notin Intents
    /\ Requests \cap DOMAIN initialRequests = {}
    /\ \A o \in DOMAIN operators : operators[o] \in STRING
    /\ triggerMinutes \in Nat /\ expiryMinutes \in Nat /\ MaxNow \in Nat

Ids == Requests \cup DOMAIN initialRequests
Decision == [by : DOMAIN operators, decision : ApprovalDecision]
Request == [risk : Risks, created : 0 .. MaxNow, status : ApprovalStatus, decisions : Seq(Decision)]

Closed == {"approved", "rejected", "changes_requested"}

ClosedBy(decision) == CASE decision = "approve" -> "approved"
                        [] decision = "reject" -> "rejected"
                        [] OTHER -> "changes_requested"

\* The status of a request is the one its newest decision calls for; of a
\* critical one only that it is not closed without a decision.
Explained(request) ==
    /\ request.decisions = <<>> => request.status \notin Closed
    /\ request.decisions # <<>> /\ request.risk # "critical" =>
          request.status = ClosedBy(request.decisions[1].decision)

\* As every fixture is: pending or expired without a decision, or decided
\* with the status of that decision.
ASSUME InitialRequestsAssumption ==
    \A r \in DOMAIN initialRequests :
        /\ initialRequests[r] \in Request
        /\ Explained(initialRequests[r])

VARIABLES
    preview,       \* the intent of the command under preview, or None
    selectedMode,  \* the mode selected in the modal
    posture,       \* the ZTA pillars
    environment,
    requests,      \* the approval requests of the store, by id
    calls,         \* the requests whose POST is under way
    rerouted,      \* the requests with an audit event of their routing
    activeTab,     \* the tab of the queue that is shown
    signOff,       \* the requests whose sign-off dialog is open
    dispatched,    \* the last dispatch: None or [intent, mode, environment]
    now            \* the clock

vars == <<preview, selectedMode, posture, environment, requests, calls, rerouted,
          activeTab, signOff, dispatched, now>>
modalVars == <<preview, selectedMode, dispatched>>
ztaVars == <<posture, environment>>
queueVars == <<requests, calls, rerouted>>
hubVars == <<activeTab, signOff>>

-----------------------------------------------------------------------------
(* The command under preview and the policy.                                *)

classifyCommandRisk(intent) ==
    CASE intent = "rollback_deploy" -> "high"
      [] intent \in {"restart_agent", "rebalance_workload"} -> "medium"
      [] intent = "run_diagnostic" -> "low"
      [] OTHER -> "critical"

rollbackAvailable(intent) == intent \in {"rebalance_workload", "rollback_deploy"}

\* What generatePreview finds against the command: it is logged, shown, and
\* never asked for when the command is dispatched.
previewBlockers(intent) ==
    (IF intent = "unknown" THEN {"intent", "policy"} ELSE {})
    \cup (IF classifyCommandRisk(intent) = "critical" THEN {"critical"} ELSE {})

policyBlockers(intent, zta) ==
    {p \in {"identity", "session_integrity"} : zta[p] # "verified"}
    \cup (IF classifyCommandRisk(intent) \in {"high", "critical"} /\ ~rollbackAvailable(intent)
          THEN {"rollback"} ELSE {})
    \cup (IF classifyCommandRisk(intent) = "critical" THEN {"critical"} ELSE {})

policyWarnings(intent, zta, env) ==
    {p \in {"device_posture", "network_trust"} : zta[p] # "verified"}
    \cup (IF env = "PROD" /\ classifyCommandRisk(intent) # "low" THEN {"production"} ELSE {})

evaluatePolicy(intent, zta, env) ==
    [decision |-> IF policyBlockers(intent, zta) # {} THEN "block"
                  ELSE IF policyWarnings(intent, zta, env) # {} THEN "warn" ELSE "allow",
     approval_required |-> env = "PROD" \/ classifyCommandRisk(intent) \in {"high", "critical"}]

\* The second copy of the rule.
isApprovalNeeded(intent, env) ==
    env = "PROD" \/ classifyCommandRisk(intent) \in {"high", "critical"}

hasFailedZta == \E p \in Pillars : posture[p] = "failed"

isBlocked == evaluatePolicy(preview, posture, environment).decision = "block" \/ hasFailedZta

canDispatch == (~isBlocked \/ selectedMode = "override") /\ ~hasFailedZta

-----------------------------------------------------------------------------
Init ==
    /\ preview = None
    /\ selectedMode = "simulate"
    /\ posture = [p \in Pillars |-> "verified"]
    /\ environment = "LOCAL"
    /\ requests = initialRequests
    /\ calls = {}
    /\ rerouted = {}
    /\ activeTab = "pending"
    /\ signOff = {}
    /\ dispatched = None
    /\ now = 0

\* Both buttons of the command input: the mode that "Execute" sets is reset.
openPreview(intent) ==
    /\ preview' = intent
    /\ selectedMode' = "simulate"
    /\ UNCHANGED <<dispatched, ztaVars, queueVars, hubVars, now>>

closePreview ==
    /\ preview # None
    /\ preview' = None
    /\ UNCHANGED <<selectedMode, dispatched, ztaVars, queueVars, hubVars, now>>

setMode(mode) ==
    /\ preview # None
    /\ selectedMode' = mode
    /\ UNCHANGED <<preview, dispatched, ztaVars, queueVars, hubVars, now>>

\* Mutant of routed: by the decision of the policy instead of its requirement.
routedIfWarned ==
    selectedMode = "execute" /\ evaluatePolicy(preview, posture, environment).decision = "warn"

routed ==
    selectedMode = "execute" /\ evaluatePolicy(preview, posture, environment).approval_required

NewRequest(intent) ==
    [risk |-> classifyCommandRisk(intent), created |-> now, status |-> "pending", decisions |-> <<>>]

WithRequest(id, request) ==
    [r \in DOMAIN requests \cup {id} |-> IF r = id THEN request ELSE requests[r]]

\* handleConfirm of a command that needs approval: the request is filed, the
\* POST is sent, and the preview stays open until it is answered.
RouteToApproval(id) ==
    /\ preview # None
    /\ canDispatch
    /\ routed
    /\ id \in Requests \ DOMAIN requests
    /\ requests' = WithRequest(id, NewRequest(preview))
    /\ calls' = calls \cup {id}
    /\ UNCHANGED <<modalVars, ztaVars, rerouted, hubVars, now>>

\* The POST is answered or fails, which is only printed: the routing is
\* logged and the preview closed, whatever is under preview by now.
CallReturns(id) ==
    /\ id \in calls
    /\ calls' = calls \ {id}
    /\ rerouted' = rerouted \cup {id}
    /\ preview' = None
    /\ UNCHANGED <<selectedMode, dispatched, ztaVars, requests, hubVars, now>>

\* handleConfirm of every other command: logged as simulated or executed, and
\* handed to window.executeTaskWithMode, which nothing in the page binds.
Dispatch ==
    /\ preview # None
    /\ canDispatch
    /\ ~routed
    /\ dispatched' = [intent |-> preview, mode |-> selectedMode, environment |-> environment]
    /\ preview' = None
    /\ UNCHANGED <<selectedMode, ztaVars, queueVars, hubVars, now>>

-----------------------------------------------------------------------------
(* The posture, as the policy dashboard changes it.                         *)

setPillar(p, status) ==
    /\ posture' = [posture EXCEPT ![p] = status]
    /\ UNCHANGED <<modalVars, environment, queueVars, hubVars, now>>

setEnvironment(env) ==
    /\ environment' = env
    /\ UNCHANGED <<modalVars, posture, queueVars, hubVars, now>>

resetPosture ==
    /\ posture' = [p \in Pillars |-> "verified"]
    /\ environment' = "LOCAL"
    /\ UNCHANGED <<modalVars, queueVars, hubVars, now>>

-----------------------------------------------------------------------------
(* The approval queue.                                                      *)

required_approver_role(request) == IF request.risk = "critical" THEN "admin" ELSE "approver"

\* The roles are compared only when an administrator is required.
isUnauthorizedRole(request, operator) ==
    required_approver_role(request) = "admin" /\ operators[operator] # "admin"

uniqueApprovers(decisions) ==
    {decisions[i].by : i \in {j \in DOMAIN decisions : decisions[j].decision = "approve"}}

\* Mutant of StatusAfter: the decision itself is stored as the status.
StatusAfterVerb(request, decisions, decision) ==
    IF decision # "approve" THEN decision
    ELSE IF request.risk # "critical" \/ Cardinality(uniqueApprovers(decisions)) >= 2
    THEN "approved"
    ELSE request.status

\* The status of a request whose decisions have become these, the last one
\* being this: it depends on no status the request had, and on no clock.
StatusAfter(request, decisions, decision) ==
    CASE decision = "reject" -> "rejected"
      [] decision = "request_changes" -> "changes_requested"
      [] /\ decision = "approve"
         /\ request.risk # "critical" \/ Cardinality(uniqueApprovers(decisions)) >= 2
            -> "approved"
      [] OTHER -> request.status

Decided(request, by, decision) ==
    LET decisions == <<[by |-> by, decision |-> decision]>> \o request.decisions
    IN [request EXCEPT !.decisions = decisions,
                       !.status = StatusAfter(request, decisions, decision)]

addDecision(id, by, decision) ==
    requests' = [requests EXCEPT ![id] = Decided(requests[id], by, decision)]

OnTab(tab, status) ==
    CASE tab = "pending" -> status \in {"pending", "escalated"}
      [] tab = "approved" -> status = "approved"
      [] tab = "rejected" -> status \in {"rejected", "changes_requested"}
      [] OTHER -> TRUE

\* A card that leaves the tab that is shown takes its dialog with it.
Mounted(open, tab, queue) == {id \in open : OnTab(tab, queue[id].status)}

setActiveTab(tab) ==
    /\ activeTab' = tab
    /\ signOff' = Mounted(signOff, tab, requests)
    /\ UNCHANGED <<modalVars, ztaVars, queueVars, now>>

CanSignOff(id) == requests[id].status = "pending" /\ OnTab(activeTab, "pending")

OpenSignOff(id) ==
    /\ id \in DOMAIN requests \ signOff
    /\ CanSignOff(id)
    /\ signOff' = signOff \cup {id}
    /\ UNCHANGED <<modalVars, ztaVars, queueVars, activeTab, now>>

CloseSignOff(id) ==
    /\ id \in signOff
    /\ signOff' = signOff \ {id}
    /\ UNCHANGED <<modalVars, ztaVars, queueVars, activeTab, now>>

handleSubmit(id, by, decision) ==
    /\ id \in signOff
    /\ ~isUnauthorizedRole(requests[id], by)
    /\ addDecision(id, by, decision)
    /\ signOff' = Mounted(signOff \ {id}, activeTab, requests')
    /\ UNCHANGED <<modalVars, ztaVars, calls, rerouted, activeTab, now>>

Due(request, minutes) == now >= request.created + minutes

\* Mutant of Swept: asks for the clock alone and not for the status.
SweptAlways(request) ==
    IF Due(request, expiryMinutes) THEN [request EXCEPT !.status = "expired"]
    ELSE IF request.risk \in {"high", "critical"} /\ Due(request, triggerMinutes)
    THEN [request EXCEPT !.status = "escalated"]
    ELSE request

\* Mutant of Swept: escalated requests expire as well.
SweptEscalated(request) ==
    IF request.status \notin {"pending", "escalated"} THEN request
    ELSE IF Due(request, expiryMinutes) THEN [request EXCEPT !.status = "expired"]
    ELSE IF request.risk \in {"high", "critical"} /\ Due(request, triggerMinutes)
    THEN [request EXCEPT !.status = "escalated"]
    ELSE request

\* checkRequestEscalation and what the sweep does with its answer.
Swept(request) ==
    IF request.status # "pending" THEN request
    ELSE IF Due(request, expiryMinutes) THEN [request EXCEPT !.status = "expired"]
    ELSE IF request.risk \in {"high", "critical"} /\ Due(request, triggerMinutes)
    THEN [request EXCEPT !.status = "escalated"]
    ELSE request

\* The "Sweep queue" button: there is no timer behind it.
runEscalationCheck ==
    /\ requests' = [id \in DOMAIN requests |-> Swept(requests[id])]
    /\ signOff' = Mounted(signOff, activeTab, requests')
    /\ UNCHANGED <<modalVars, ztaVars, calls, rerouted, activeTab, now>>

Tick ==
    /\ now < MaxNow
    /\ now' = now + 1
    /\ UNCHANGED <<modalVars, ztaVars, queueVars, hubVars>>

-----------------------------------------------------------------------------
Command ==
    \/ \E intent \in Intents : openPreview(intent)
    \/ closePreview
    \/ \E mode \in CommandMode : setMode(mode)
    \/ \E id \in Requests : RouteToApproval(id)
    \/ Dispatch

Zta ==
    \/ \E p \in Watched, status \in ZtaStatus : setPillar(p, status)
    \/ \E env \in Environment : setEnvironment(env)
    \/ resetPosture

Queue ==
    \/ \E tab \in Tabs : setActiveTab(tab)
    \/ \E id \in Ids : OpenSignOff(id) \/ CloseSignOff(id)
    \/ \E id \in Ids, by \in DOMAIN operators, decision \in ApprovalDecision :
          handleSubmit(id, by, decision)
    \/ runEscalationCheck

Answer == \E id \in Requests : CallReturns(id)

Next == Command \/ Zta \/ Queue \/ Answer \/ Tick

Spec == Init /\ [][Next]_vars

-----------------------------------------------------------------------------
(* Properties.                                                              *)

TypeOK ==
    /\ preview \in Intents \cup {None}
    /\ selectedMode \in CommandMode
    /\ posture \in [Pillars -> ZtaStatus]
    /\ environment \in Environment
    /\ DOMAIN requests \subseteq Ids
    /\ DOMAIN initialRequests \subseteq DOMAIN requests
    /\ \A id \in DOMAIN requests : requests[id] \in Request
    /\ calls \subseteq Requests \cap DOMAIN requests
    /\ rerouted \subseteq Requests \cap DOMAIN requests
    /\ activeTab \in Tabs
    /\ signOff \subseteq DOMAIN requests
    /\ dispatched \in {None} \cup [intent : Intents, mode : CommandMode, environment : Environment]
    /\ now \in 0 .. MaxNow

\* The status of a request is the one its newest decision calls for, although
\* decisions, sweeps and the passing of time write it independently: a sweep
\* never turns a decided request into an expired or escalated one.
StatusExplained == \A id \in DOMAIN requests : Explained(requests[id])

\* A routed command is signed off by two operators before it counts as
\* approved, as the operator who routed it is told (CommandPreviewModal.tsx,
\* line 151): what the store requires of a critical request only, and a
\* routed request is never a critical one.
DualSignOff ==
    \A id \in Requests \cap DOMAIN requests :
        requests[id].status = "approved" =>
            Cardinality(uniqueApprovers(requests[id].decisions)) >= 2

\* A request that has left "pending" never changes any more unless a dialog
\* is still open on it: what has been escalated can then not be decided.
ClosedUnlessOpen ==
    [][\A id \in DOMAIN requests :
          requests[id].status # "pending" /\ id \notin signOff => requests'[id] = requests[id]]_vars

\* No change of posture, environment or mode between preview and dispatch
\* gets a command that needs approval executed, or one that is not executable
\* dispatched at all, short of the override.
DispatchedAsPermitted ==
    dispatched # None =>
       /\ dispatched.mode = "execute" =>
             ~isApprovalNeeded(dispatched.intent, dispatched.environment)
       /\ dispatched.mode # "override" => previewBlockers(dispatched.intent) = {}

=============================================================================
