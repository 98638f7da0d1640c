---------------------------- MODULE AgentTasks ----------------------------
(***************************************************************************)
(* What a task of the agent runtime is made of, and the tables of          *)
(* runtime.py: procedures, plans, the choice of a tool, and the tools that *)
(* need an approval.  A task type stands for its prefix, an utterance for  *)
(* the groups of words the code looks for in it.                           *)
(***************************************************************************)
EXTENDS Naturals, Sequences

CONSTANTS
    Runs,            \* calls of run_agent
    Budgets,         \* values of max_steps; one that is not given is 20
    RecursionLimit   \* supersteps after which LangGraph gives up

ASSUME BudgetsAssumption == Budgets \subseteq Nat
ASSUME LimitAssumption   == RecursionLimit \in Nat

Roles   == {"receptionist", "sales", "scheduling", "other"}
Intents == {"book", "call", "email", "transfer"}

\* The input of a run, as far as the loop looks at it.
Tasks == [role : Roles, intents : SUBSET Intents, budget : Budgets]

StepNames == {"classify_intent", "collect_slots", "check_availability",
              "confirm_next_step", "score_lead", "send_intro_email",
              "wait_24h", "call_if_no_reply", "offer_booking_link",
              "review_lead", "identify_channel", "draft_outreach",
              "send_message", "update_crm", "parse_request",
              "check_calendar", "propose_slots", "confirm_booking",
              "analyze_goal", "take_action", "summarize_outcome"}

Tools == {"calendar.create_event", "voice.call", "email.send",
          "voice.transfer", "crm.update_lead", "crm.create_task"}

\* The steps of the procedure recalled for a role, or none.
ProcedureFor(role) ==
    IF role = "receptionist"
    THEN <<"classify_intent", "collect_slots", "confirm_next_step">>
    ELSE IF role = "sales"
    THEN <<"score_lead", "send_intro_email", "wait_24h", "call_if_no_reply",
           "offer_booking_link">>
    ELSE <<>>

\* A recalled procedure is the plan; the lists for the roles that have a
\* procedure are there for the day when nothing is recalled.
PlanFor(role, procedure) ==
    IF procedure # <<>> THEN procedure
    ELSE IF role = "receptionist"
    THEN <<"classify_intent", "collect_slots", "check_availability",
           "confirm_next_step">>
    ELSE IF role = "sales"
    THEN <<"review_lead", "identify_channel", "draft_outreach",
           "send_message", "update_crm">>
    ELSE IF role = "scheduling"
    THEN <<"parse_request", "check_calendar", "propose_slots",
           "confirm_booking">>
    ELSE <<"analyze_goal", "take_action", "summarize_outcome">>

\* The first group of words that occurs decides; the step matters only when
\* none does.
ToolFor(intents, step) ==
    IF "book" \in intents THEN "calendar.create_event"
    ELSE IF "call" \in intents THEN "voice.call"
    ELSE IF "email" \in intents THEN "email.send"
    ELSE IF "transfer" \in intents THEN "voice.transfer"
    ELSE IF step \in {"update_crm", "review_lead"} THEN "crm.update_lead"
    ELSE "crm.create_task"

\* Of the registry's two such tools, the other (billing.create_invoice) is
\* never chosen.
RequiresApproval(tool) == tool = "voice.call"
===========================================================================
