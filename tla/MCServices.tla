----------------------------- MODULE MCServices -----------------------------
(***************************************************************************)
(* An instance of the services for TLC.                                    *)
(***************************************************************************)
EXTENDS Services

CONSTANTS a1, a2, o1, o2

\* The caller is one agent of one organization; the others are the rest.
MCQueries ==
    {[agent |-> a1, org |-> o1, query |-> query, max_results |-> n] :
        query \in BOOLEAN, n \in 0 .. 2}

\* Nothing, a tool no preset lists, one that some list beside it, one of a few.
MCToolLists ==
    {{}, {"voice.call"}, {"crm.get_lead", "voice.call"}, {"email.send"}}
==============================================================================
