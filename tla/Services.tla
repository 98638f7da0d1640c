------------------------------ MODULE Services ------------------------------
(***************************************************************************)
(* The services that serve a call by themselves, and the proxies, beside   *)
(* each other.  They share no state and do not call each other, so their   *)
(* interleavings add nothing: in a behaviour one of them moves and the     *)
(* others rest.                                                            *)
(***************************************************************************)
EXTENDS Approvals, AuthService, MemoryService, AIConfig, IntegrationService,
        OrganizationService, NotificationService, Proxies

VARIABLE service   \* the one that moves

servicesVars ==
    <<service, approvalVars, authVars, memoryVars, configVars, toolCallVars, orgVars,
      notifyVars, calls>>

ServicesInit ==
    /\ service \in {"approvals", "auth", "memory", "config", "tools", "organization",
                    "notification", "proxies"}
    /\ ApprovalsInit /\ AuthInit /\ MemoryInit /\ ConfigInit /\ ToolInit
    /\ OrgInit /\ NotifyInit /\ ProxiesInit

ApprovalsStep ==
    /\ service = "approvals" /\ ApprovalsNext
    /\ UNCHANGED <<service, authVars, memoryVars, configVars, toolCallVars, orgVars,
                   notifyVars, calls>>

AuthStep ==
    /\ service = "auth" /\ AuthNext
    /\ UNCHANGED <<service, approvalVars, memoryVars, configVars, toolCallVars, orgVars,
                   notifyVars, calls>>

MemoryStep ==
    /\ service = "memory" /\ MemoryNext
    /\ UNCHANGED <<service, approvalVars, authVars, configVars, toolCallVars, orgVars,
                   notifyVars, calls>>

ConfigStep ==
    /\ service = "config" /\ ConfigNext
    /\ UNCHANGED <<service, approvalVars, authVars, memoryVars, toolCallVars, orgVars,
                   notifyVars, calls>>

ToolStep ==
    /\ service = "tools" /\ ToolNext
    /\ UNCHANGED <<service, approvalVars, authVars, memoryVars, configVars, orgVars,
                   notifyVars, calls>>

OrgStep ==
    /\ service = "organization" /\ OrgNext
    /\ UNCHANGED <<service, approvalVars, authVars, memoryVars, configVars, toolCallVars,
                   notifyVars, calls>>

NotifyStep ==
    /\ service = "notification" /\ NotifyNext
    /\ UNCHANGED <<service, approvalVars, authVars, memoryVars, configVars, toolCallVars,
                   orgVars, calls>>

ProxiesStep ==
    /\ service = "proxies" /\ ProxiesNext
    /\ UNCHANGED <<service, approvalVars, authVars, memoryVars, configVars, toolCallVars,
                   orgVars, notifyVars>>

ServicesNext ==
    \/ ApprovalsStep \/ AuthStep \/ MemoryStep \/ ConfigStep \/ ToolStep
    \/ OrgStep \/ NotifyStep \/ ProxiesStep

ServicesSpec == ServicesInit /\ [][ServicesNext]_servicesVars

\* The types of the state of all services.
ServicesTypeOK ==
    /\ ApprovalsTypeOK
    /\ AuthTypeOK
    /\ MemoryTypeOK
    /\ ConfigTypeOK
    /\ ToolTypeOK
    /\ OrgTypeOK
    /\ NotifyTypeOK
    /\ ProxiesTypeOK
=============================================================================
