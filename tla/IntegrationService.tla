------------------------ MODULE IntegrationService ------------------------
(***************************************************************************)
(* The registered integrations, the validation of a tool and its dispatch. *)
(* The handlers are threads; the validation iterates over _integrations,   *)
(* which only grows, and raises when it grew meanwhile.                    *)
(*                                                                         *)
(* A tool is its type (the part of its name before the dot) and whether    *)
(* TOOL_ADAPTERS lists it.  Every simulated adapter answers "success".     *)
(***************************************************************************)
EXTENDS Naturals, Sequences

CONSTANTS
    IntegrationOrgs,
    NoOrg,             \* the empty organization_id
    ToolThreads,       \* worker threads
    MaxIntegrations    \* bound on _integrations

ASSUME NoOrgAssumption           == NoOrg \notin IntegrationOrgs
ASSUME MaxIntegrationsAssumption == MaxIntegrations \in Nat

VARIABLES
    integrations,   \* _integrations, in the order of their insertion
    toolCalls       \* what each thread runs, and its last answer

toolCallVars == <<integrations, toolCalls>>

AdapterTypes == {"crm", "calendar", "billing", "email", "notification", "erp",
                 "voice"}
ToolTypes == AdapterTypes \cup {"fax"}

Tool == [type : ToolTypes, listed : BOOLEAN]

\* TOOL_ADAPTERS lists tools of its own types only.
ToolNames == {tool \in Tool : tool.listed => tool.type \in AdapterTypes}

Integration == [org : IntegrationOrgs, type : ToolTypes, enabled : BOOLEAN]

\* "size" is that of _integrations when a validation began to iterate.
ToolCall == [at   : {"idle", "validate", "valid", "invalid", "success",
                     "unsupported"},
             tool : ToolNames,
             org  : IntegrationOrgs \cup {NoOrg},
             size : 0 .. MaxIntegrations]

CallOf(at, tool, org, size) ==
    [at |-> at, tool |-> tool, org |-> org, size |-> size]

NoToolCall == CallOf("idle", [type |-> "fax", listed |-> FALSE], NoOrg, 0)

ToolInit ==
    /\ integrations = <<>>
    /\ toolCalls = [t \in ToolThreads |-> NoToolCall]

---------------------------------------------------------------------------

RegisterIntegration(integration) ==
    /\ Len(integrations) < MaxIntegrations
    /\ integrations' = Append(integrations, integration)
    /\ UNCHANGED toolCalls

\* Slip: an integration that was disabled will do.
RegisteredFor(org, type) ==
    \E i \in DOMAIN integrations :
        integrations[i].org = org /\ integrations[i].type = type

\* Some integration of the organization and type is enabled.
ActiveFor(org, type) ==
    \E i \in DOMAIN integrations :
        integrations[i] = [org |-> org, type |-> type, enabled |-> TRUE]

\* A tool nobody lists is answered before the iteration.
Validate(t, tool, org) ==
    /\ toolCalls[t].at # "validate"
    /\ toolCalls' = [toolCalls EXCEPT ![t] =
         IF tool.listed THEN CallOf("validate", tool, org, Len(integrations))
                        ELSE CallOf("invalid", tool, org, 0)]
    /\ UNCHANGED integrations

ValidateEnd(t) ==
    LET c == toolCalls[t]
    IN  /\ c.at = "validate"
        /\ toolCalls' = [toolCalls EXCEPT ![t] =
             IF Len(integrations) # c.size THEN NoToolCall
             ELSE IF c.org = NoOrg \/ ActiveFor(c.org, c.tool.type)
             THEN CallOf("valid", c.tool, c.org, 0)
             ELSE CallOf("invalid", c.tool, c.org, 0)]
        /\ UNCHANGED integrations

\* _run_tool looks at the type alone, and has no adapter for erp.
RunTool(tool) ==
    IF tool.type \in {"calendar", "crm", "email", "billing", "notification",
                      "voice"}
    THEN "success" ELSE "unsupported"

\* execute_tool and invoke_tool.
ExecuteTool(t, tool, org) ==
    /\ toolCalls[t].at # "validate"
    /\ toolCalls' = [toolCalls EXCEPT ![t] = CallOf(RunTool(tool), tool, org, 0)]
    /\ UNCHANGED integrations

ToolNext ==
    \/ \E i \in Integration : RegisterIntegration(i)
    \/ \E t \in ToolThreads :
          \/ \E tool \in ToolNames, org \in IntegrationOrgs :
                ExecuteTool(t, tool, org)
          \/ \E tool \in ToolNames, org \in IntegrationOrgs \cup {NoOrg} :
                Validate(t, tool, org)
          \/ ValidateEnd(t)

ToolSpec == ToolInit /\ [][ToolNext]_toolCallVars

---------------------------------------------------------------------------
(***************************************************************************)
(* Properties                                                              *)
(***************************************************************************)

\* The type of the integrations and of the calls.
ToolTypeOK ==
    /\ integrations \in Seq(Integration) /\ Len(integrations) <= MaxIntegrations
    /\ toolCalls \in [ToolThreads -> ToolCall]

\* A tool that was found valid for an organization, by a validation beside which
\* integrations were registered, is one that it has an enabled integration for,
\* then and ever after (validate_tool).  That it then runs does not follow: the
\* tools of type "erp" are valid and have no branch in _run_tool (RunTool), although
\* the service names ERP among its adapters (main.py:3-5, 33-40).
ValidIsIntegrated ==
    \A t \in ToolThreads :
        LET c == toolCalls[t]
        IN  c.at = "valid" /\ c.org # NoOrg =>
                \E i \in DOMAIN integrations :
                    /\ integrations[i].org = c.org
                    /\ integrations[i].type = c.tool.type
                    /\ integrations[i].enabled
===========================================================================
