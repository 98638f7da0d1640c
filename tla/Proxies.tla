------------------------------ MODULE Proxies ------------------------------
(***************************************************************************)
(* The services without a state of their own: the API gateway              *)
(* (src/apps/api_gateway/app/main.py) and the transcript webhook of the    *)
(* Ordibl adapter (src/apps/ordibl_adapter/app/main.py).  A handler passes *)
(* a call on to one service, awaits the answer for at most 60 seconds and  *)
(* tells its client.  Handlers are coroutines and share nothing, so calls  *)
(* interleave freely; a call that a handler gave up goes on at the service *)
(* it was passed to.                                                       *)
(***************************************************************************)

CONSTANT Calls   \* the calls clients make, each of them once

VARIABLE calls   \* where each call is

\* The endpoints, each with the service that it is passed on to.
To(service, endpoints) == [service : {service}, endpoint : endpoints]

AuthEndpoints == To("auth", {"login", "register", "me"})

TaskEndpoints == To("runtime", {"execute_task", "list_tasks", "get_task", "retry_task"})

AgentEndpoints ==
    To("organization", {"create_agent", "list_agents", "get_agent", "activate_agent",
                        "deactivate_agent"})

WorkflowEndpoints ==
    To("engine", {"create_workflow", "list_workflows", "get_workflow", "execute_workflow"})

ServiceEndpoints == To("memory", {"retrieve_memory"}) \cup To("adapter", {"initiate_voice_call"})

TenantEndpoints ==
    To("organization", {"get_organization", "update_organization", "create_customer",
                        "list_customers", "get_customer", "update_customer"})

ApprovalEndpoints == To("engine", {"list_approvals", "decide_approval"})

\* The webhook, which the adapter passes on to the runtime as a task.
Transcript == [service |-> "runtime", endpoint |-> "transcript_webhook"]

Endpoints ==
    AuthEndpoints \cup TaskEndpoints \cup AgentEndpoints \cup WorkflowEndpoints
    \cup ServiceEndpoints \cup TenantEndpoints \cup ApprovalEndpoints \cup {Transcript}

NoEndpoint == [service |-> "none", endpoint |-> "none"]

\* How a service answers: done, refused (4xx), or with an error of its own.
Codes == {"200", "4xx", "500"}

\* What a client may be told.
Statuses == Codes \cup {"502"}

\* A call: passed on but not there yet, at work in the service, answered by it,
\* or never to get there; the answer; what the client was told, if anything.
Call == [to : Endpoints \cup {NoEndpoint},
         at : {"unused", "sent", "working", "answered", "lost"},
         code : Codes \cup {"none"},
         told : Statuses \cup {"none"}]

ProxiesTypeOK == calls \in [Calls -> Call]

ProxiesInit ==
    calls = [c \in Calls |-> [to |-> NoEndpoint, at |-> "unused", code |-> "none", told |-> "none"]]

\* What is told when no answer came: the gateway says that the service is
\* unavailable; the adapter's exception passes through its handler.
Unavailable(to) == IF to = Transcript THEN "500" ELSE "502"

\* Slip: the answer is passed on without raise_for_status.
PassedOnUnchecked(to, code) == "200"

\* What is told of an answer.  Only the auth endpoints pass a status on; to the
\* others a refusal and an error are the same as no answer.
PassedOn(to, code) ==
    IF code = "200" \/ to \in AuthEndpoints THEN code ELSE Unavailable(to)

-----------------------------------------------------------------------------

\* A client's request is taken and passed on.
Receive(c, to) ==
    /\ calls[c].at = "unused"
    /\ calls' = [calls EXCEPT ![c].to = to, ![c].at = "sent"]

\* The service cannot be reached: refused, or no connection in 10 seconds.
Unreachable(c) ==
    /\ calls[c].at = "sent"
    /\ calls[c].told = "none"
    /\ calls' = [calls EXCEPT ![c].at = "lost", ![c].told = Unavailable(calls[c].to)]

\* The service takes the call, maybe one that the handler has given up.
Arrive(c) ==
    /\ calls[c].at = "sent"
    /\ calls' = [calls EXCEPT ![c].at = "working"]

\* The service has its answer.
Finish(c, code) ==
    /\ calls[c].at = "working"
    /\ calls' = [calls EXCEPT ![c].at = "answered", ![c].code = code]

\* The service answers in one step.
AnswerAtOnce(c, code) ==
    /\ calls[c].at = "sent"
    /\ calls' = [calls EXCEPT ![c].at = "answered", ![c].code = code]

\* The answer is there in time, and the client told.
Tell(c) ==
    /\ calls[c].at = "answered"
    /\ calls[c].told = "none"
    /\ calls' = [calls EXCEPT ![c].told = PassedOn(calls[c].to, calls[c].code)]

\* After 60 seconds, or when the connection breaks, the client is told that the
\* service is unavailable, and the service is not told anything.
GiveUp(c) ==
    /\ calls[c].at \in {"sent", "working", "answered"}
    /\ calls[c].told = "none"
    /\ calls' = [calls EXCEPT ![c].told = Unavailable(calls[c].to)]

ProxiesNext ==
    \E c \in Calls :
        \/ \E to \in Endpoints : Receive(c, to)
        \/ \E code \in Codes : Finish(c, code) \/ AnswerAtOnce(c, code)
        \/ Unreachable(c) \/ Arrive(c) \/ Tell(c) \/ GiveUp(c)

ProxiesSpec == ProxiesInit /\ [][ProxiesNext]_calls

-----------------------------------------------------------------------------
(* Properties                                                              *)

\* What a client is told is true: "200" when the service did what was asked and
\* "4xx" when it refused to, whatever else was given up meanwhile.  Of a "502"
\* it may believe nothing: the service may have done it, or still do it
\* (raise_for_status before the answer is passed on, in every handler).  The
\* 404s that docs/openapi.yaml:181 and others document are among what is told as
\* "502": of the refusals a client is only told those of login, register and me.
ToldIsTrue ==
    \A c \in Calls : calls[c].told \in {"200", "4xx"} => calls[c].code = calls[c].told
=============================================================================
