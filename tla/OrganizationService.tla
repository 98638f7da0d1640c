------------------------- MODULE OrganizationService -------------------------
(***************************************************************************)
(* The organization service (src/apps/organization_service/app/main.py):   *)
(* dicts of organizations, agents and customers.  Its handlers are plain   *)
(* functions on worker threads: a patch writes its keys one by one, and a  *)
(* listing that filters iterates over a dict that may grow under it.       *)
(*                                                                         *)
(* A record is named by its place in the order of insertion.  A thread     *)
(* makes one call, and the values it writes are all named after it: two    *)
(* patches differ in every value, which is the worst case.                 *)
(***************************************************************************)
EXTENDS Naturals, Sequences, FiniteSets

CONSTANTS
    Tenants,      \* the organization ids agents and customers are created with
    OrgThreads,   \* worker threads
    Creation,     \* writer of the values a record is created with
    MaxRecords    \* bound on the number of records in the three dicts

ASSUME OrgAssumption == MaxRecords \in Nat /\ Creation \notin OrgThreads

VARIABLES
    dicts,       \* _organizations, _agents and _customers
    orgCalls     \* the call of each thread

orgVars == <<dicts, orgCalls>>

Kinds == {"organizations", "agents", "customers"}

\* The keys that a client sends in a patch: anything for an organization, the
\* fields of CustomerUpdate for a customer, one query parameter for an agent.
Sent(kind) ==
    CASE kind = "organizations" -> {"name", "status", "organization_id"}
      [] kind = "agents"        -> {"status"}
      [] kind = "customers"     -> {"first_name", "phone"}

\* Slip: any key of the payload is written.
WritableAny(kind) == Sent(kind)

\* The keys that are written: "allowed" for an organization.
Writable(kind) == Sent(kind) \ {"organization_id"}

\* Which thread wrote each key of a record; "organization_id" is the tenant it
\* belongs to, and stands for the "id" of an organization.
NewRecord(kind, tenant) ==
    [key \in Sent(kind) \cup {"organization_id"} |->
        IF key = "organization_id" THEN tenant ELSE Creation]

\* A call: what it asks for, the keys sent and those still to be written, or the
\* records found so far and the length of the dict when the iteration began.
\* "before" is a history variable: the patches answered when it began.
NoOrgCall == [at |-> "new", kind |-> "none", of |-> 0, tenant |-> Creation,
              keys |-> {}, sent |-> {}, found |-> {}, index |-> 1, size |-> 0,
              before |-> {}]

OrgTypeOK ==
    /\ \A kind \in Kinds : \A i \in DOMAIN dicts[kind] :
           \A key \in DOMAIN dicts[kind][i] :
               dicts[kind][i][key] \in
                   IF key = "organization_id" THEN Tenants ELSE OrgThreads \cup {Creation}
    /\ \A t \in OrgThreads :
           /\ orgCalls[t].at \in {"new", "patching", "listing", "patched", "listed",
                                  "refused", "error"}
           /\ orgCalls[t].index \in 1 .. orgCalls[t].size + 1

OrgInit ==
    /\ dicts = [kind \in Kinds |-> <<>>]
    /\ orgCalls = [t \in OrgThreads |-> NoOrgCall]

Records(kind) == DOMAIN dicts[kind]

\* The records of a tenant.
Own(kind, tenant) == {i \in Records(kind) : dicts[kind][i].organization_id = tenant}

\* create_organization, create_agent, create_customer
CreateRecord(kind, tenant) ==
    /\ Len(dicts["organizations"]) + Len(dicts["agents"]) + Len(dicts["customers"])
           < MaxRecords
    /\ dicts' = [dicts EXCEPT ![kind] = Append(@, NewRecord(kind, tenant))]
    /\ UNCHANGED orgCalls

-----------------------------------------------------------------------------
(* update_organization, update_agent_status, update_customer               *)

\* The call of t is answered without more.
OrgAnswered(t, at) == orgCalls' = [orgCalls EXCEPT ![t].at = at]

Patched == {t \in OrgThreads : orgCalls[t].at = "patched"}

\* The record is there.
PatchBegin(t, kind, i, keys) ==
    /\ orgCalls[t].at = "new"
    /\ orgCalls' = [orgCalls EXCEPT ![t] = [NoOrgCall EXCEPT
           !.at = "patching", !.kind = kind, !.of = i, !.keys = keys, !.sent = keys,
           !.before = Patched]]
    /\ UNCHANGED dicts

\* No such record, or a status that AgentStatus does not have.
PatchRefused(t) ==
    /\ orgCalls[t].at = "new"
    /\ OrgAnswered(t, "refused")
    /\ UNCHANGED dicts

\* Slip: a key that was not sent gets its default, as without exclude_none.
PatchKeyAndUnset(t, key) ==
    LET call == orgCalls[t]
        set(k) == IF k \in call.sent THEN t ELSE Creation
    IN  /\ call.at = "patching"
        /\ key \in call.keys
        /\ dicts' = [dicts EXCEPT ![call.kind][call.of] =
               [k \in DOMAIN @ |-> IF k = "organization_id" THEN @[k] ELSE set(k)]]
        /\ orgCalls' = [orgCalls EXCEPT ![t].keys = {}]

\* One key of the payload: written, or passed over.  A payload may have them in
\* any order.
PatchKey(t, key) ==
    LET call == orgCalls[t] IN
    /\ call.at = "patching"
    /\ key \in call.keys
    /\ dicts' = IF key \in Writable(call.kind)
                THEN [dicts EXCEPT ![call.kind][call.of][key] = t] ELSE dicts
    /\ orgCalls' = [orgCalls EXCEPT ![t].keys = @ \ {key}]

PatchEnd(t) ==
    /\ orgCalls[t].at = "patching"
    /\ orgCalls[t].keys = {}
    /\ OrgAnswered(t, "patched")
    /\ UNCHANGED dicts

-----------------------------------------------------------------------------
(* list_organizations, list_agents, list_customers                         *)

\* list() copies the values of _organizations in one step.
ListAll(t) ==
    /\ orgCalls[t].at = "new"
    /\ orgCalls' = [orgCalls EXCEPT ![t] = [NoOrgCall EXCEPT
           !.at = "listed", !.kind = "organizations", !.found = Records("organizations"),
           !.size = Len(dicts["organizations"])]]
    /\ UNCHANGED dicts

\* The iteration over _agents or _customers begins.
ListBegin(t, kind, tenant) ==
    /\ orgCalls[t].at = "new"
    /\ orgCalls' = [orgCalls EXCEPT ![t] = [NoOrgCall EXCEPT
           !.at = "listing", !.kind = kind, !.tenant = tenant, !.size = Len(dicts[kind])]]
    /\ UNCHANGED dicts

\* Slip: the iteration goes on over a dict that has grown.
GrownUnnoticed(t) == FALSE

\* The dict has another size than when the iteration began.
Grown(t) == Len(dicts[orgCalls[t].kind]) # orgCalls[t].size

\* The comprehension raises RuntimeError.
ListInterrupted(t) ==
    /\ orgCalls[t].at = "listing"
    /\ Grown(t)
    /\ OrgAnswered(t, "error")
    /\ UNCHANGED dicts

\* The next record, kept if it is the tenant's.
ListNext(t) ==
    LET call == orgCalls[t] IN
    /\ call.at = "listing"
    /\ ~Grown(t)
    /\ call.index \in Records(call.kind)
    /\ orgCalls' = [orgCalls EXCEPT
           ![t].index = @ + 1,
           ![t].found = @ \cup ({call.index} \cap Own(call.kind, call.tenant))]
    /\ UNCHANGED dicts

ListEnd(t) ==
    /\ orgCalls[t].at = "listing"
    /\ ~Grown(t)
    /\ orgCalls[t].index \notin Records(orgCalls[t].kind)
    /\ OrgAnswered(t, "listed")
    /\ UNCHANGED dicts

OrgNext ==
    \/ \E kind \in Kinds, tenant \in Tenants : CreateRecord(kind, tenant)
    \/ \E t \in OrgThreads :
           \/ \E kind \in Kinds : \E i \in Records(kind), keys \in SUBSET Sent(kind) :
                  PatchBegin(t, kind, i, keys)
           \/ PatchRefused(t)
           \/ \E key \in orgCalls[t].keys : PatchKey(t, key)
           \/ PatchEnd(t)
           \/ ListAll(t)
           \/ \E kind \in Kinds \ {"organizations"}, tenant \in Tenants :
                  ListBegin(t, kind, tenant)
           \/ ListInterrupted(t) \/ ListNext(t) \/ ListEnd(t)

OrgSpec == OrgInit /\ [][OrgNext]_orgVars

-----------------------------------------------------------------------------
(* Properties                                                              *)

\* A listing that is answered at all is the list of one moment, when it began:
\* no record of the tenant is left out, and none of another one is in it, then
\* or later (list_agents and list_customers, whose loops give way to inserts
\* and patches).
ListIsComplete ==
    \A t \in OrgThreads :
        LET call == orgCalls[t]
            then == 1 .. call.size
        IN  call.at = "listed" =>
                call.found = IF call.kind = "organizations" THEN then
                             ELSE then \cap Own(call.kind, call.tenant)

\* No patch undoes another: a key that an answered patch sent has its value, or
\* that of a patch that was not over when this one began (update_customer and
\* update_organization assign key by key to the record in the dict).
PatchStands ==
    \A t \in Patched :
        LET call == orgCalls[t] IN
        \A key \in call.sent \cap Writable(call.kind) :
            dicts[call.kind][call.of][key] \notin call.before \cup {Creation}
=============================================================================
