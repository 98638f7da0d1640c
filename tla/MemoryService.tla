--------------------------- MODULE MemoryService ---------------------------
(***************************************************************************)
(* The four stores of the memory service.  Every handler is a thread: a    *)
(* retrieval reads one store after the other while others are written.     *)
(*                                                                         *)
(* The three lists only grow, and a record of theirs is known by its place.*)
(* The working memory is a dict: a session keeps the place of its first    *)
(* upsert, and one that was cleared leaves a hole.  The iteration of a     *)
(* retrieval raises when the number of sessions is not that of its begin.  *)
(*                                                                         *)
(* "org" of a working entry is the organization whose session it is: the   *)
(* code's entry has no such field, so that no action looks at it.          *)
(***************************************************************************)
EXTENDS Pages, FiniteSetsExt, Sequences

CONSTANTS
    Sessions, Agents, Orgs,
    Queries,     \* the retrievals that clients ask for
    Retrievals,  \* worker threads that run retrieve_context
    MaxStored    \* bound on the records ever inserted into the stores

\* "query" tells whether there is a query; a fact contains it or does not.
Query == [agent : Agents, org : Orgs, query : BOOLEAN, max_results : Nat]

ASSUME QueriesAssumption   == Queries \subseteq Query /\ Queries # {}
ASSUME MaxStoredAssumption == MaxStored \in Nat

VARIABLES
    working, episodes, knowledge, procedures,   \* the stores
    retrievals                                  \* where each retrieval is

stores     == <<working, episodes, knowledge, procedures>>
memoryVars == <<working, episodes, knowledge, procedures, retrievals>>

Entry   == [session : Sessions, agent : Agents, org : Orgs, live : BOOLEAN]
Episode == [agent : Agents, org : Orgs]
Fact    == [org : Orgs, contains : BOOLEAN]

\* A retrieval; "began" are the lengths of the lists when it was called,
\* "next" and "size" belong to the iteration over the sessions, and "working"
\* has the entry it found: the dict itself, which no later upsert changes.  It
\* is empty where the packet gets a new session.
Retrieval ==
    [at       : {"idle", "working", "episodes", "facts", "procedures", "done"},
     query    : Query,
     began    : [episodes : Nat, facts : Nat, procedures : Nat],
     size     : Nat, next : Nat \ {0},
     working  : SUBSET Entry,
     episodes : SUBSET Nat, facts : SUBSET Nat, procedures : SUBSET Nat]

NoRetrieval ==
    [at |-> "idle", query |-> CHOOSE q \in Queries : TRUE,
     began |-> [episodes |-> 0, facts |-> 0, procedures |-> 0],
     size |-> 0, next |-> 1,
     working |-> {}, episodes |-> {}, facts |-> {}, procedures |-> {}]

\* The places of the sessions that were not cleared.
Live == {i \in DOMAIN working : working[i].live}

Called(query) ==
    [at |-> "working", query |-> query,
     began |-> [episodes   |-> Len(episodes),
                facts      |-> Len(knowledge),
                procedures |-> Len(procedures)],
     size |-> Cardinality(Live), next |-> 1,
     working |-> {}, episodes |-> {}, facts |-> {}, procedures |-> {}]

MemoryInit ==
    /\ working = <<>> /\ episodes = <<>>
    /\ knowledge = <<>> /\ procedures = <<>>
    /\ retrievals = [c \in Retrievals |-> NoRetrieval]

---------------------------------------------------------------------------
(***************************************************************************)
(* The stores                                                              *)
(***************************************************************************)

MayStore ==
    Len(working) + Len(episodes) + Len(knowledge) + Len(procedures) < MaxStored

PlaceOf(session) == {i \in Live : working[i].session = session}

Upsert(session, agent, org) ==
    LET entry == [session |-> session, agent |-> agent, org |-> org, live |-> TRUE]
    IN  /\ \/ \E i \in PlaceOf(session) : working' = [working EXCEPT ![i] = entry]
           \/ /\ PlaceOf(session) = {}
              /\ MayStore
              /\ working' = Append(working, entry)
        /\ UNCHANGED <<episodes, knowledge, procedures, retrievals>>

Clear(session) ==
    /\ \E i \in PlaceOf(session) : working' = [working EXCEPT ![i].live = FALSE]
    /\ UNCHANGED <<episodes, knowledge, procedures, retrievals>>

StoreEpisode(episode) ==
    /\ MayStore
    /\ episodes' = Append(episodes, episode)
    /\ UNCHANGED <<working, knowledge, procedures, retrievals>>

StoreKnowledge(fact) ==
    /\ MayStore
    /\ knowledge' = Append(knowledge, fact)
    /\ UNCHANGED <<working, episodes, procedures, retrievals>>

StoreProcedure(org) ==
    /\ MayStore
    /\ procedures' = Append(procedures, org)
    /\ UNCHANGED <<working, episodes, knowledge, retrievals>>

---------------------------------------------------------------------------
(***************************************************************************)
(* retrieve_context                                                        *)
(***************************************************************************)

Retrieve(c, query) ==
    /\ retrievals[c].at \in {"idle", "done"}
    /\ retrievals' = [retrievals EXCEPT ![c] = Called(query)]
    /\ UNCHANGED stores

\* One step of the iteration over the sessions: it raises, or finds a session
\* of the agent and breaks, or goes on, or ends.
WorkingNext(c) ==
    LET r     == retrievals[c]
        later == {i \in Live : i >= r.next}
    IN  /\ r.at = "working"
        /\ retrievals' = [retrievals EXCEPT ![c] =
             IF Cardinality(Live) # r.size THEN NoRetrieval
             ELSE IF later = {} THEN [r EXCEPT !.at = "episodes"]
             ELSE IF working[Min(later)].agent = r.query.agent
             THEN [r EXCEPT !.at = "episodes", !.working = {working[Min(later)]}]
             ELSE [r EXCEPT !.next = Min(later) + 1]]
        /\ UNCHANGED stores

\* Slip: the episodes of the agent's name in every organization.
OwnEpisodeOfAgent(query, i) == episodes[i].agent = query.agent

OwnEpisode(query, i) == episodes[i] = [agent |-> query.agent, org |-> query.org]

EpisodesOf(query) ==
    Latest({i \in DOMAIN episodes : OwnEpisode(query, i)}, query.max_results)

ReadEpisodes(c) ==
    LET r == retrievals[c]
    IN  /\ r.at = "episodes"
        /\ retrievals' = [retrievals EXCEPT ![c] =
             [r EXCEPT !.at = "facts", !.episodes = EpisodesOf(r.query)]]
        /\ UNCHANGED stores

\* With a query the facts that contain it, without one all of them.
OwnFact(query, i) ==
    knowledge[i].org = query.org /\ (query.query => knowledge[i].contains)

ReadFacts(c) ==
    LET r     == retrievals[c]
        facts == {i \in DOMAIN knowledge : OwnFact(r.query, i)}
    IN  /\ r.at = "facts"
        /\ retrievals' = [retrievals EXCEPT ![c] =
             [r EXCEPT !.at = "procedures",
                       !.facts = Earliest(facts, r.query.max_results)]]
        /\ UNCHANGED stores

ReadProcedures(c) ==
    LET r == retrievals[c]
    IN  /\ r.at = "procedures"
        /\ retrievals' = [retrievals EXCEPT ![c] =
             [r EXCEPT !.at = "done",
                       !.procedures = {i \in DOMAIN procedures :
                                         procedures[i] = r.query.org}]]
        /\ UNCHANGED stores

MemoryNext ==
    \/ \E s \in Sessions : Clear(s) \/ \E a \in Agents, o \in Orgs : Upsert(s, a, o)
    \/ \E e \in Episode : StoreEpisode(e)
    \/ \E f \in Fact : StoreKnowledge(f)
    \/ \E o \in Orgs : StoreProcedure(o)
    \/ \E c \in Retrievals :
          \/ \E q \in Queries : Retrieve(c, q)
          \/ WorkingNext(c) \/ ReadEpisodes(c) \/ ReadFacts(c)
          \/ ReadProcedures(c)

MemorySpec == MemoryInit /\ [][MemoryNext]_memoryVars

---------------------------------------------------------------------------
(***************************************************************************)
(* Properties                                                              *)
(***************************************************************************)

\* The type of the stores and of the retrievals.
MemoryTypeOK ==
    /\ working \in Seq(Entry)
    /\ episodes \in Seq(Episode)
    /\ knowledge \in Seq(Fact)
    /\ procedures \in Seq(Orgs)
    /\ retrievals \in [Retrievals -> Retrieval]

\* The episodes in a packet are of the caller's agent and organization, its
\* facts and procedures of the organization, and its session of the agent,
\* whatever is stored, replaced or cleared while it is assembled.  Whose
\* session it is retrieve_context does not ask: see SessionIsOwnOrLatest.
PacketIsOwn ==
    \A c \in Retrievals :
        LET r == retrievals[c]
        IN  /\ \A i \in r.episodes :
                 episodes[i].agent = r.query.agent /\ episodes[i].org = r.query.org
            /\ \A i \in r.facts : knowledge[i].org = r.query.org
            /\ \A i \in r.procedures : procedures[i] = r.query.org
            /\ \A entry \in r.working : entry.agent = r.query.agent

\* "Multi-tenant isolation | Organization-scoped data" (README.md:25) and "Working
\* memory (latest session)" (main.py:200): a packet has no session that is neither
\* of the caller's organization nor the latest of the agent.  Agents of two
\* organizations have the same identifier, "agt_" + role + "_001", retrieve_context
\* compares nothing else and breaks at the first session of the dict, which keeps
\* the order of insertion: this is violated.
SessionIsOwnOrLatest ==
    [][\A c \in Retrievals : retrievals[c].working = {} =>
          \A entry \in retrievals'[c].working :
              \/ entry.org = retrievals[c].query.org
              \/ \A i \in PlaceOf(entry.session), j \in Live :
                     working[j].agent = entry.agent => j <= i]_memoryVars

\* What was stored before the retrieval was called is in the packet, unless
\* the packet is full: of newer episodes, and of older facts.
PacketIsComplete ==
    \A c \in Retrievals : retrievals[c].at = "done" =>
        LET r    == retrievals[c]
            full == r.query.max_results
        IN  /\ \A i \in 1 .. r.began.episodes : OwnEpisode(r.query, i) =>
                 \/ i \in r.episodes
                 \/ /\ Cardinality(r.episodes) = full
                    /\ \A j \in r.episodes : j > i
            /\ \A i \in 1 .. r.began.facts : OwnFact(r.query, i) =>
                 \/ i \in r.facts
                 \/ /\ Cardinality(r.facts) = full
                    /\ \A j \in r.facts : j < i
            /\ \A i \in 1 .. r.began.procedures :
                 procedures[i] = r.query.org => i \in r.procedures
===========================================================================
