------------------------------ MODULE AIConfig ------------------------------
(***************************************************************************)
(* How resolve_ai_config merges the layers of an agent's configuration,    *)
(* and what is_tool_allowed makes of the result.  Of the fields only the   *)
(* two tool lists and one number stay: the others are merged alike, and    *)
(* nothing compares them.                                                  *)
(***************************************************************************)
EXTENDS Naturals

CONSTANTS
    None,       \* a key that is absent, or given as null
    ToolLists,  \* the lists of tools an organization may give
    StepLimits  \* the limits of steps an organization may give

ConfigTools ==
    {"calendar.check_availability", "calendar.create_event", "voice.transfer",
     "voice.call", "crm.create_task", "crm.get_lead", "crm.update_lead",
     "email.send", "email.draft", "notification.send_sms",
     "workflow.delegate", "billing.create_invoice"}

ASSUME ToolListsAssumption  == ToolLists \subseteq SUBSET ConfigTools
ASSUME StepLimitsAssumption == StepLimits \subseteq Nat
ASSUME NoneAssumption ==
    None \notin Nat /\ \A tools \in SUBSET ConfigTools : tools # None

Fields == {"allowed_tools", "blocked_tools", "max_steps"}

\* A configuration, and what a layer gives of one.
Configuration ==
    [allowed_tools : SUBSET ConfigTools, blocked_tools : SUBSET ConfigTools, max_steps : Nat]

Layer ==
    [allowed_tools : (SUBSET ConfigTools) \cup {None},
     blocked_tools : (SUBSET ConfigTools) \cup {None},
     max_steps     : Nat \cup {None}]

Overrides(allowed, blocked, steps) ==
    [allowed_tools |-> allowed, blocked_tools |-> blocked, max_steps |-> steps]

OrgConfigs ==
    [allowed_tools : ToolLists \cup {None},
     blocked_tools : ToolLists \cup {None},
     max_steps     : StepLimits \cup {None}]

\* The fields of AgentAIConfig; the limit of steps is that of settings.py.
Defaults == Overrides({}, {}, 20)

ConfigRoles == {"receptionist", "sales", "scheduling", "support", "operations",
                "compliance", "orchestrator", "unknown"}

\* ROLE_PRESETS; a role it does not have gives no overrides.
Preset(role) ==
    CASE role = "receptionist" -> Overrides(
           {"calendar.check_availability", "calendar.create_event",
            "voice.transfer", "crm.create_task", "notification.send_sms"},
           None, 10)
      [] role = "sales" -> Overrides(
           {"crm.get_lead", "crm.update_lead", "crm.create_task", "email.send",
            "email.draft", "calendar.check_availability",
            "calendar.create_event"},
           None, 15)
      [] role = "scheduling" -> Overrides(
           {"calendar.check_availability", "calendar.create_event",
            "notification.send_sms"},
           None, 8)
      [] role = "support" -> Overrides(
           {"crm.get_lead", "crm.create_task", "email.send",
            "notification.send_sms"},
           None, 15)
      [] role = "operations" -> Overrides(
           {"crm.get_lead", "crm.update_lead", "calendar.check_availability",
            "workflow.delegate"},
           None, 25)
      [] role = "compliance" -> Overrides(
           None, {"billing.create_invoice", "voice.call"}, 10)
      [] role = "orchestrator" -> Overrides({"workflow.delegate"}, None, 30)
      [] OTHER -> Overrides(None, None, None)

---------------------------------------------------------------------------

\* Slip: a list is added to the one before.
ApplyJoined(cfg, overrides) ==
    [f \in Fields |->
        IF overrides[f] = None THEN cfg[f]
        ELSE IF f = "max_steps" THEN overrides[f]
        ELSE cfg[f] \cup overrides[f]]

\* _apply_overrides: what is given replaces what was there.
Apply(cfg, overrides) ==
    [f \in Fields |-> IF overrides[f] = None THEN cfg[f] ELSE overrides[f]]

\* Slip: the organization has the last word.
ResolveOrgLast(agent, org) == Apply(Apply(Defaults, agent), org)

Resolve(agent, org) == Apply(Apply(Defaults, org), agent)

IsToolAllowed(cfg, tool) ==
    /\ tool \notin cfg.blocked_tools
    /\ cfg.allowed_tools # {} => tool \in cfg.allowed_tools

---------------------------------------------------------------------------

VARIABLES
    configRole, orgConfig,  \* what a configuration is resolved from
    config                  \* what it is resolved to

configVars == <<configRole, orgConfig, config>>

ConfigInit ==
    /\ configRole = "unknown"
    /\ orgConfig = Overrides(None, None, None)
    /\ config = Defaults

ResolveAIConfig(role, org) ==
    /\ configRole' = role
    /\ orgConfig' = org
    /\ config' = Resolve(Preset(role), org)

ConfigNext ==
    \E role \in ConfigRoles, org \in OrgConfigs : ResolveAIConfig(role, org)

ConfigSpec == ConfigInit /\ [][ConfigNext]_configVars

---------------------------------------------------------------------------
(***************************************************************************)
(* Properties                                                              *)
(***************************************************************************)

\* The type of a configuration and of what it is resolved from.
ConfigTypeOK ==
    /\ configRole \in ConfigRoles
    /\ orgConfig \in OrgConfigs
    /\ config \in Configuration

\* "highest priority wins" (ai_config.py:8): a field has the value of the
\* first layer, from the agent's down to the defaults, that gives one.
HighestLayerWins ==
    LET layers == <<Preset(configRole), orgConfig, Defaults>>
    IN  \A f \in Fields : \E i \in DOMAIN layers :
          /\ layers[i][f] # None /\ config[f] = layers[i][f]
          /\ \A j \in 1 .. i - 1 : layers[j][f] = None

\* No organization can give a role a tool beyond the list of its preset, or
\* one its preset blocks; and where the preset blocks nothing, what the
\* organization blocks is blocked (resolve_ai_config with is_tool_allowed).
PresetIsTheLimit ==
    LET preset == Preset(configRole)
    IN  \A tool \in ConfigTools : IsToolAllowed(config, tool) =>
          /\ preset.allowed_tools # None => tool \in preset.allowed_tools
          /\ IF preset.blocked_tools # None
             THEN tool \notin preset.blocked_tools
             ELSE orgConfig.blocked_tools # None =>
                    tool \notin orgConfig.blocked_tools
===========================================================================
