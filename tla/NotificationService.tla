------------------------- MODULE NotificationService -------------------------
(***************************************************************************)
(* The notification service (src/apps/notification_service/app/main.py): a *)
(* list of what was sent and a dict of it by id.  A send appends to the    *)
(* one and then inserts into the other, on a worker thread, so that other  *)
(* calls come between.                                                     *)
(*                                                                         *)
(* A notification is named by the thread that sent it; a thread makes one  *)
(* call.  The channel and the text are left out.                           *)
(***************************************************************************)
EXTENDS Pages, Sequences

CONSTANTS
    NotifyThreads,   \* worker threads
    NotifyOrgs,      \* organizations that send and list
    EveryOrg,        \* the empty organization_id of a listing: no filter
    PageLimits       \* values of "limit"; the default is 50

ASSUME NotifyAssumption == PageLimits \subseteq Nat /\ EveryOrg \notin NotifyOrgs

VARIABLES
    sentList,      \* _notifications: the senders, in order
    byId,          \* the keys of _notifications_by_id
    notifyCalls    \* the call of each thread

notifyVars == <<sentList, byId, notifyCalls>>

\* A call: of whom, and for a listing its page, as places in the list, its limit
\* and its total; the page of a lookup is what it asks for.  "before" is a history variable: the
\* sends that were answered when the call came.
NotifyCall == [at : {"new", "appended", "sent", "refused", "paged", "listed",
                     "found", "missing"},
               org : NotifyOrgs \cup {EveryOrg}, page : SUBSET Nat,
               limit : Nat, total : Nat, before : SUBSET NotifyThreads]

NotifyTypeOK ==
    /\ sentList \in Seq(NotifyThreads)
    /\ byId \subseteq NotifyThreads
    /\ notifyCalls \in [NotifyThreads -> NotifyCall]

NotifyInit ==
    /\ sentList = <<>>
    /\ byId = {}
    /\ notifyCalls = [t \in NotifyThreads |->
           [at |-> "new", org |-> EveryOrg, page |-> {}, limit |-> 0, total |-> 0,
            before |-> {}]]

\* The senders that were told so.
SentBy == {t \in NotifyThreads : notifyCalls[t].at = "sent"}

\* A call goes from one place to the next.
NotifyMove(t, from, to) ==
    /\ notifyCalls[t].at = from
    /\ notifyCalls' = [notifyCalls EXCEPT ![t].at = to]

-----------------------------------------------------------------------------
(* unified_send, send_email, send_sms, send_push                           *)

\* unified_send with a template that lacks a variable; and render_template with
\* one, or with a template the store does not have.
SendRefused(t) ==
    /\ NotifyMove(t, "new", "refused")
    /\ UNCHANGED <<sentList, byId>>

\* The record is appended to the list.
SendAppend(t, org) ==
    /\ notifyCalls[t].at = "new"
    /\ notifyCalls' = [notifyCalls EXCEPT ![t].at = "appended", ![t].org = org]
    /\ sentList' = Append(sentList, t)
    /\ UNCHANGED byId

\* Slip: the record is in the list alone.
SendInsertForgotten(t) ==
    /\ NotifyMove(t, "appended", "sent")
    /\ UNCHANGED <<sentList, byId>>

\* The record is inserted by its id, and the call answered.
SendInsert(t) ==
    /\ NotifyMove(t, "appended", "sent")
    /\ byId' = byId \cup {t}
    /\ UNCHANGED sentList

-----------------------------------------------------------------------------
(* list_notifications, get_notification                                    *)

\* What a listing keeps of the list.  It loops over a list that only grows, so
\* that the outcome is that of one step, at the end of the loop.
Matching(org) ==
    {i \in DOMAIN sentList : org = EveryOrg \/ notifyCalls[sentList[i]].org = org}

\* The page is cut out.
ListPage(t, org, limit) ==
    /\ notifyCalls[t].at = "new"
    /\ notifyCalls' = [notifyCalls EXCEPT ![t] =
           [at |-> "paged", org |-> org, limit |-> limit, before |-> SentBy,
            page |-> Latest(Matching(org), limit),
            total |-> Cardinality(Matching(org))]]
    /\ UNCHANGED <<sentList, byId>>

\* The total is counted; without a filter, on the list as it is now.
ListTotal(t) ==
    /\ notifyCalls[t].at = "paged"
    /\ notifyCalls' = [notifyCalls EXCEPT
           ![t].at = "listed",
           ![t].total = IF notifyCalls[t].org = EveryOrg THEN Len(sentList) ELSE @]
    /\ UNCHANGED <<sentList, byId>>

\* The id of a notification that a send or a listing has shown.
Lookup(t, i) ==
    /\ notifyCalls[t].at = "new"
    /\ notifyCalls' = [notifyCalls EXCEPT
           ![t].at = IF sentList[i] \in byId THEN "found" ELSE "missing",
           ![t].page = {i},
           ![t].before = SentBy]
    /\ UNCHANGED <<sentList, byId>>

NotifyNext ==
    \E t \in NotifyThreads :
        \/ \E org \in NotifyOrgs \cup {EveryOrg} :
               \/ SendAppend(t, org)
               \/ \E limit \in PageLimits : ListPage(t, org, limit)
        \/ \E i \in DOMAIN sentList : Lookup(t, i)
        \/ SendRefused(t) \/ SendInsert(t) \/ ListTotal(t)

NotifySpec == NotifyInit /\ [][NotifyNext]_notifyVars

-----------------------------------------------------------------------------
(* Properties                                                              *)

\* A notification whose send was answered before a call came is not lost on it:
\* a lookup finds it, and a listing shows it unless its page is full of later
\* ones; and a listing shows only what is asked for and counts no less than it
\* shows (unified_send's append and insert against list_notifications' page and
\* total, without a lock).
AnsweredIsShown ==
    \A t \in NotifyThreads :
        LET call == notifyCalls[t]
        IN  /\ call.at = "missing" => \A i \in call.page : sentList[i] \notin call.before
            /\ call.at = "listed" =>
                  /\ call.total >= Cardinality(call.page)
                  /\ call.org # EveryOrg =>
                        \A i \in call.page : notifyCalls[sentList[i]].org = call.org
                  /\ \A id \in call.before : call.org \in {EveryOrg, notifyCalls[id].org} =>
                        \E i \in DOMAIN sentList :
                            /\ sentList[i] = id
                            /\ \/ i \in call.page
                               \/ /\ Cardinality(call.page) = call.limit
                                  /\ \A later \in call.page : later > i
=============================================================================
