----------------------------- MODULE Approvals -----------------------------
(***************************************************************************)
(* The approval store of the workflow engine                               *)
(* (src/apps/workflow_engine/app/main.py, _approvals).                     *)
(*                                                                         *)
(* An approval is created by the DAG walker when it reaches a gated step,  *)
(* or by POST /internal/approvals, and is decided by                       *)
(* POST /internal/approvals/{id}/decision.  decide_approval is a plain     *)
(* "def" endpoint: FastAPI runs every call on a worker thread, so two      *)
(* decisions of one approval interleave between the test of its status and *)
(* the assignments that record the decision.                               *)
(*                                                                         *)
(* Identifiers are ordinals in creation order: the code's uuid4 ids are    *)
(* fresh and its dicts keep insertion order.  Nothing is ever deleted.     *)
(***************************************************************************)
EXTENDS Integers, FiniteSets

CONSTANTS
    StepIds,        \* step identifiers; a task_id is "wf_step_" + one of them
    NoStep,         \* None as a step identifier
    MaxApprovals,   \* bound on the number of approvals
    MaxRequested,   \* bound on the ids POST /internal/approvals may take
    Deciders,       \* worker threads that may be inside decide_approval
    Users,          \* approver_user_id values
    NoUser          \* None as an approver_user_id

ASSUME ApprovalConstants ==
    /\ MaxApprovals \in Nat
    /\ MaxRequested \in Nat
    /\ NoStep \notin StepIds
    /\ NoUser \notin Users

VARIABLES
    approvals,      \* _approvals: id -> record, status "absent" when unused
    deciders        \* the decide_approval call each worker thread is in

approvalVars == <<approvals, deciders>>

ApprovalIds == 1..MaxApprovals

\* ApprovalStatus; a decision may carry any of its three members.
Decision == {"pending", "approved", "rejected"}

\* The fields of an approval that a property depends on.
Approval ==
    [status : Decision \cup {"absent"},
     task_id : StepIds \cup {NoStep},
     approver_user_id : Users \cup {NoUser}]

NoApproval == [status |-> "absent", task_id |-> NoStep, approver_user_id |-> NoUser]

NewApproval(s) == [status |-> "pending", task_id |-> s, approver_user_id |-> NoUser]

\* A call of decide_approval: not running, past the test of the status, or
\* past the assignment of the status.
DecideCall ==
    [pc : {"idle", "checked", "status_set"},
     approval : ApprovalIds \cup {0},
     decision : Decision,
     user : Users \cup {NoUser}]

NoCall == [pc |-> "idle", approval |-> 0, decision |-> "pending", user |-> NoUser]

\* Type invariant of the approval store and of the calls that decide it.
ApprovalsTypeOK ==
    /\ approvals \in [ApprovalIds -> Approval]
    /\ deciders \in [Deciders -> DecideCall]

ApprovalsInit ==
    /\ approvals = [a \in ApprovalIds |-> NoApproval]
    /\ deciders = [t \in Deciders |-> NoCall]

\* a is the identifier the next insertion takes.
FreshApproval(a) ==
    /\ approvals[a].status = "absent"
    /\ \A b \in ApprovalIds : b < a => approvals[b].status # "absent"

-----------------------------------------------------------------------------
(* One action per handler, or per piece of a handler between two places    *)
(* where another thread's step is observable.                              *)

\* create_approval
CreateApproval(a, s) ==
    /\ a <= MaxRequested
    /\ FreshApproval(a)
    /\ approvals' = [approvals EXCEPT ![a] = NewApproval(s)]
    /\ UNCHANGED deciders

\* Slip: decide_approval without the test of the status.
DecideCheckUntested(t, a, d, u) ==
    /\ deciders[t].pc = "idle"
    /\ approvals[a].status # "absent"
    /\ deciders' = [deciders EXCEPT ![t] =
           [pc |-> "checked", approval |-> a, decision |-> d, user |-> u]]
    /\ UNCHANGED approvals

\* decide_approval finds the approval and passes the test of its status.
DecideCheck(t, a, d, u) ==
    /\ deciders[t].pc = "idle"
    /\ approvals[a].status = "pending"
    /\ deciders' = [deciders EXCEPT ![t] =
           [pc |-> "checked", approval |-> a, decision |-> d, user |-> u]]
    /\ UNCHANGED approvals

\* decide_approval assigns the status of the decision, whichever it is.
DecideStatus(t) ==
    /\ deciders[t].pc = "checked"
    /\ approvals' =
           [approvals EXCEPT ![deciders[t].approval].status = deciders[t].decision]
    /\ deciders' = [deciders EXCEPT ![t].pc = "status_set"]

\* Slip: decide_approval forgets who decided.
DecideRecordNobody(t) ==
    /\ deciders[t].pc = "status_set"
    /\ deciders' = [deciders EXCEPT ![t] = NoCall]
    /\ UNCHANGED approvals

\* decide_approval assigns the approver, the note and the time, and returns.
DecideRecord(t) ==
    /\ deciders[t].pc = "status_set"
    /\ approvals' =
           [approvals EXCEPT ![deciders[t].approval].approver_user_id = deciders[t].user]
    /\ deciders' = [deciders EXCEPT ![t] = NoCall]

ApprovalsNext ==
    \/ \E a \in ApprovalIds, s \in StepIds : CreateApproval(a, s)
    \/ \E t \in Deciders, a \in ApprovalIds, d \in Decision, u \in Users :
           DecideCheck(t, a, d, u)
    \/ \E t \in Deciders : DecideStatus(t)
    \/ \E t \in Deciders : DecideRecord(t)

\* A call that passed the test of the status runs to its end.
ApprovalsFairness ==
    \A t \in Deciders : WF_approvalVars(DecideStatus(t) \/ DecideRecord(t))

ApprovalsSafety == ApprovalsInit /\ [][ApprovalsNext]_approvalVars

ApprovalsSpec == ApprovalsSafety /\ ApprovalsFairness

-----------------------------------------------------------------------------

Resolved(a) == approvals[a].status \in {"approved", "rejected"}

\* No decision of a is between its test and its last assignment.
Quiet(a) == \A t \in Deciders : deciders[t].approval # a

\* Once an approval is resolved and no call is still deciding it, no step
\* changes its status or its approver, and no call gets to decide it again: a
\* later decision is refused with "Approval already resolved" (decide_approval).
SettledForever ==
    [][\A a \in ApprovalIds : Resolved(a) /\ Quiet(a) =>
          approvals'[a] = approvals[a] /\ Quiet(a)']_approvalVars

\* A resolved approval that no call is deciding names the user who decided it:
\* the status becomes visible before the approver (decide_approval), so this
\* holds only once every call that touched the record has returned.
ResolvedIsAttributed ==
    \A a \in ApprovalIds :
        Resolved(a) /\ Quiet(a) => approvals[a].approver_user_id # NoUser

\* What the test in decide_approval ("Approval already resolved") promises of
\* every step: a decision that was taken is never replaced.
DecisionIsFinal ==
    [][\A a \in ApprovalIds :
          Resolved(a) => approvals'[a].status = approvals[a].status]_approvalVars
=============================================================================
