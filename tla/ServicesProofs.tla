--------------------------- MODULE ServicesProofs ---------------------------
(***************************************************************************)
(* What the proxies tell, which tools run, what of a decision is settled,  *)
(* which layer of a configuration wins, and why the patches and listings   *)
(* of the organization service may interleave without a lock; and that all *)
(* services, beside each other, keep what each is proved to keep.          *)
(***************************************************************************)
EXTENDS Services, ListsProofs

(***************************************************************************)
(* The proxies                                                             *)
(***************************************************************************)

\* A client is told of an answer only when it is there, and it is final.
ToldOfAnswer(call) ==
    /\ call \in Call
    /\ call.told \in {"200", "4xx"} => call.at = "answered" /\ call.code = call.told

ProxiesInv ==
    /\ calls = [c \in Calls |-> calls[c]]
    /\ \A c \in Calls : ToldOfAnswer(calls[c])

\* The timeout and the unreachable service are never told as an answer.
LEMMA UnavailableIsError ==
    ASSUME NEW to
    PROVE  Unavailable(to) \in {"500", "502"}
BY DEF Unavailable

LEMMA PassedOnIsTrue ==
    ASSUME NEW to, NEW code \in Codes \cup {"none"}
    PROVE  /\ PassedOn(to, code) \in Statuses \cup {"none"}
           /\ PassedOn(to, code) \in {"200", "4xx"} => PassedOn(to, code) = code
BY UnavailableIsError DEF PassedOn, Codes, Statuses

LEMMA ProxiesInductive == ProxiesInv /\ [ProxiesNext]_calls => ProxiesInv'
<1> SUFFICES ASSUME ProxiesInv, [ProxiesNext]_calls
             PROVE  ProxiesInv'
  OBVIOUS
<1>1. CASE UNCHANGED calls
  BY <1>1 DEF ProxiesInv
<1>2. ASSUME NEW c \in Calls,
             \/ \E to \in Endpoints : Receive(c, to)
             \/ \E code \in Codes : Finish(c, code) \/ AnswerAtOnce(c, code)
             \/ Unreachable(c) \/ Arrive(c) \/ Tell(c) \/ GiveUp(c)
      PROVE  ProxiesInv'
  <2>0. ToldOfAnswer(calls[c])
    BY DEF ProxiesInv
  <2>1. SUFFICES ToldOfAnswer(calls'[c])
    <3>1. calls' = [d \in Calls |-> calls'[d]] /\ \A d \in Calls \ {c} : calls'[d] = calls[d]
      BY <1>2 DEF ProxiesInv, Receive, Finish, AnswerAtOnce, Unreachable, Arrive, Tell, GiveUp
    <3> QED BY <2>1, <3>1 DEF ProxiesInv
  <2>2. ASSUME NEW to \in Endpoints, Receive(c, to)
        PROVE  calls'[c] = [calls[c] EXCEPT !.to = to, !.at = "sent"]
               /\ calls[c].at = "unused"
    BY <2>2 DEF ProxiesInv, Receive
  <2>3. CASE \E to \in Endpoints : Receive(c, to)
    BY <2>0, <2>2, <2>3 DEF ToldOfAnswer, Call
  <2>4. CASE \E code \in Codes : Finish(c, code) \/ AnswerAtOnce(c, code)
    <3>1. PICK code \in Codes : Finish(c, code) \/ AnswerAtOnce(c, code)
      BY <2>4
    <3>2. /\ calls'[c] = [calls[c] EXCEPT !.at = "answered", !.code = code]
          /\ calls[c].at \in {"sent", "working"}
      BY <3>1 DEF ProxiesInv, Finish, AnswerAtOnce
    <3> QED BY <2>0, <3>2 DEF ToldOfAnswer, Call
  <2>5. CASE Unreachable(c) \/ GiveUp(c)
    <3> DEFINE told == Unavailable(calls[c].to)
    <3>1. \/ calls'[c] = [calls[c] EXCEPT !.at = "lost", !.told = told]
          \/ calls'[c] = [calls[c] EXCEPT !.told = told]
      BY <2>5 DEF ProxiesInv, Unreachable, GiveUp
    <3>2. told \in {"500", "502"}
      BY UnavailableIsError
    <3> HIDE DEF told
    <3> QED BY <2>0, <3>1, <3>2 DEF ToldOfAnswer, Call, Statuses, Codes
  <2>6. CASE Arrive(c)
    <3>1. calls'[c] = [calls[c] EXCEPT !.at = "working"] /\ calls[c].at = "sent"
      BY <2>6 DEF ProxiesInv, Arrive
    <3> QED BY <2>0, <3>1 DEF ToldOfAnswer, Call
  <2>7. CASE Tell(c)
    <3> DEFINE told == PassedOn(calls[c].to, calls[c].code)
    <3>1. /\ calls'[c] = [calls[c] EXCEPT !.told = told]
          /\ calls[c].at = "answered"
      BY <2>7 DEF ProxiesInv, Tell
    <3>2. /\ told \in Statuses \cup {"none"}
          /\ told \in {"200", "4xx"} => told = calls[c].code
      BY <2>0, PassedOnIsTrue DEF ToldOfAnswer, Call
    <3> HIDE DEF told
    <3> QED BY <2>0, <3>1, <3>2 DEF ToldOfAnswer, Call
  <2> QED BY <1>2, <2>3, <2>4, <2>5, <2>6, <2>7
<1> QED BY <1>1, <1>2 DEF ProxiesNext

LEMMA ProxiesAlways == ProxiesSpec => []ProxiesInv
<1>1. ProxiesInit => ProxiesInv
  BY DEF ProxiesInit, ProxiesInv, ProxiesTypeOK, ToldOfAnswer, Call, Statuses, Codes
<1> QED BY <1>1, ProxiesInductive, PTL DEF ProxiesSpec

\* Whatever times out, is lost or arrives late, a client is told "200" or "4xx"
\* only when that is what the service answered (the handlers of the gateway and
\* the webhook of the adapter).
THEOREM ClientsAreToldTheTruth == ProxiesSpec => []ToldIsTrue
<1>1. ProxiesInv => ToldIsTrue
  BY DEF ProxiesInv, ToldOfAnswer, ToldIsTrue
<1> QED BY <1>1, ProxiesAlways, PTL

-----------------------------------------------------------------------------
(***************************************************************************)
(* The organization service                                                *)
(***************************************************************************)

Keys == {"name", "status", "first_name", "phone", "organization_id"}

RecordOf(kind) ==
    [Sent(kind) \cup {"organization_id"} -> Tenants \cup OrgThreads \cup {Creation}]

DictsType ==
    /\ dicts = [kind \in Kinds |-> dicts[kind]]
    /\ \A kind \in Kinds : dicts[kind] \in Seq(RecordOf(kind))

OrgCall ==
    [at : {"new", "patching", "listing", "patched", "listed", "refused", "error"},
     kind : Kinds \cup {"none"}, of : Nat, tenant : Tenants \cup {Creation},
     keys : SUBSET Keys, sent : SUBSET Keys, found : SUBSET Nat, index : Nat, size : Nat,
     before : SUBSET OrgThreads]

\* What a patch has written is of no patch that was answered before it came.
PatchInv(call) ==
    call.at \in {"patching", "patched"} =>
        /\ call.kind \in Kinds
        /\ call.of \in Records(call.kind)
        /\ call.sent \subseteq Sent(call.kind)
        /\ call.keys \subseteq call.sent
        /\ call.at = "patched" => call.keys = {}
        /\ call.before \subseteq Patched
        /\ \A key \in (call.sent \cap Writable(call.kind)) \ call.keys :
               dicts[call.kind][call.of][key] \notin call.before \cup {Creation}

\* What a listing has found is what it has looked at and is the tenant's.
ListInv(call) ==
    /\ call.at \in {"listing", "listed"} =>
           call.kind \in Kinds /\ call.size \in 0 .. Len(dicts[call.kind])
    /\ call.at = "listing" =>
           /\ call.kind # "organizations"
           /\ call.index \in 1 .. call.size + 1
           /\ call.found = 1 .. (call.index - 1) \cap Own(call.kind, call.tenant)
    /\ call.at = "listed" =>
           call.found = IF call.kind = "organizations" THEN 1 .. call.size
                        ELSE 1 .. call.size \cap Own(call.kind, call.tenant)

OrgInv ==
    /\ DictsType
    /\ orgCalls \in [OrgThreads -> OrgCall]
    /\ \A t \in OrgThreads : PatchInv(orgCalls[t]) /\ ListInv(orgCalls[t])

LEMMA OrgInitially == OrgInit => OrgInv
<1> SUFFICES ASSUME OrgInit PROVE OrgInv
  OBVIOUS
<1>1. DictsType
  BY DEF OrgInit, DictsType
<1>2. orgCalls \in [OrgThreads -> OrgCall]
  BY DEF OrgInit, OrgCall, NoOrgCall
<1>3. \A t \in OrgThreads : orgCalls[t].at = "new"
  BY DEF OrgInit, NoOrgCall
<1> QED BY <1>1, <1>2, <1>3 DEF OrgInv, PatchInv, ListInv

\* What a step of another thread may do to the dicts: records are added, and keys
\* that may be patched get the value of a thread that is not answered yet.
DictsKept ==
    \A kind \in Kinds :
        /\ Len(dicts[kind]) =< Len(dicts'[kind])
        /\ \A i \in 1 .. Len(dicts[kind]) :
               /\ dicts'[kind][i].organization_id = dicts[kind][i].organization_id
               /\ \A key \in Writable(kind) :
                      \/ dicts'[kind][i][key] = dicts[kind][i][key]
                      \/ dicts'[kind][i][key] \in OrgThreads \ Patched

LEMMA RecordsAreNumbers ==
    ASSUME DictsType, NEW kind \in Kinds
    PROVE  Records(kind) = 1 .. Len(dicts[kind]) /\ Len(dicts[kind]) \in Nat
BY DEF DictsType, Records

LEMMA RecordsGrow ==
    ASSUME DictsType, DictsType', DictsKept, NEW kind \in Kinds
    PROVE  1 .. Len(dicts[kind]) \subseteq DOMAIN dicts'[kind]
<1>1. DOMAIN dicts'[kind] = 1 .. Len(dicts'[kind]) /\ Len(dicts'[kind]) \in Nat
  BY DEF DictsType
<1>2. Len(dicts[kind]) \in Nat /\ Len(dicts[kind]) =< Len(dicts'[kind])
  BY RecordsAreNumbers DEF DictsKept
<1> QED BY <1>1, <1>2

\* The records of a tenant among the first n do not change when there are n.
LEMMA OwnKept ==
    ASSUME DictsType, DictsType', DictsKept, NEW kind \in Kinds, NEW tenant,
           NEW n \in 0 .. Len(dicts[kind])
    PROVE  1 .. n \cap Own(kind, tenant) = 1 .. n \cap Own(kind, tenant)'
<1>1. Records(kind)' = 1 .. Len(dicts'[kind]) /\ Len(dicts'[kind]) \in Nat
  BY DEF DictsType, Records
<1>2. 1 .. n \subseteq Records(kind) /\ 1 .. n \subseteq Records(kind)'
  BY <1>1, RecordsAreNumbers DEF DictsKept
<1> QED BY <1>2, RecordsAreNumbers DEF Own, DictsKept

\* Calls that do not move keep their part of the invariant.
LEMMA RestKept ==
    ASSUME OrgInv, DictsType', DictsKept, Patched \subseteq Patched',
           NEW t \in OrgThreads, orgCalls'[t] = orgCalls[t]
    PROVE  PatchInv(orgCalls[t])' /\ ListInv(orgCalls[t])'
<1> DEFINE call == orgCalls[t]
<1>0. call \in OrgCall /\ PatchInv(call) /\ ListInv(call) /\ DictsType /\ call' = call
  BY DEF OrgInv
<1>1. PatchInv(orgCalls[t])'
  <2> SUFFICES ASSUME call.at \in {"patching", "patched"}
               PROVE  PatchInv(orgCalls[t])'
    BY DEF PatchInv
  <2>1. /\ call.kind \in Kinds
        /\ call.of \in Records(call.kind)
        /\ call.sent \subseteq Sent(call.kind)
        /\ call.keys \subseteq call.sent
        /\ call.at = "patched" => call.keys = {}
        /\ call.before \subseteq Patched
        /\ \A key \in (call.sent \cap Writable(call.kind)) \ call.keys :
               dicts[call.kind][call.of][key] \notin call.before \cup {Creation}
    BY <1>0 DEF PatchInv
  <2>2. call.of \in 1 .. Len(dicts[call.kind]) /\ call.of \in Records(call.kind)'
    BY <1>0, <2>1, RecordsAreNumbers DEF DictsKept, DictsType, Records
  <2>3. \A key \in Writable(call.kind) :
            \/ dicts'[call.kind][call.of][key] = dicts[call.kind][call.of][key]
            \/ dicts'[call.kind][call.of][key] \in OrgThreads \ Patched
    BY <2>1, <2>2 DEF DictsKept
  <2>4. \A key \in (call.sent \cap Writable(call.kind)) \ call.keys :
            dicts'[call.kind][call.of][key] \notin call.before \cup {Creation}
    BY <2>1, <2>3, OrgAssumption DEF OrgAssumption
  <2> QED BY <1>0, <2>1, <2>2, <2>4 DEF PatchInv
<1>2. ListInv(orgCalls[t])'
  <2> SUFFICES ASSUME call.at \in {"listing", "listed"}
               PROVE  ListInv(orgCalls[t])'
    BY <1>0 DEF ListInv
  <2>1. call.kind \in Kinds /\ call.size \in 0 .. Len(dicts[call.kind])
    BY <1>0 DEF ListInv
  <2>2. call.size \in 0 .. Len(dicts'[call.kind])
    BY <1>0, <2>1 DEF DictsKept, DictsType
  <2>3. CASE call.at = "listing"
    <3>1. /\ call.kind # "organizations"
          /\ call.index \in 1 .. call.size + 1
          /\ call.found = 1 .. (call.index - 1) \cap Own(call.kind, call.tenant)
      BY <1>0, <2>3 DEF ListInv
    <3>2. call.index - 1 \in 0 .. Len(dicts[call.kind])
      BY <1>0, <2>1, <3>1, RecordsAreNumbers
    <3>3. call.found = 1 .. (call.index - 1) \cap Own(call.kind, call.tenant)'
      BY <1>0, <2>1, <3>1, <3>2, OwnKept
    <3> QED BY <1>0, <2>1, <2>2, <2>3, <3>1, <3>3 DEF ListInv
  <2>4. CASE call.at = "listed"
    <3>1. call.found = IF call.kind = "organizations" THEN 1 .. call.size
                       ELSE 1 .. call.size \cap Own(call.kind, call.tenant)
      BY <1>0, <2>4 DEF ListInv
    <3>2. 1 .. call.size \cap Own(call.kind, call.tenant)
          = 1 .. call.size \cap Own(call.kind, call.tenant)'
      BY <1>0, <2>1, OwnKept
    <3> QED BY <1>0, <2>1, <2>2, <2>4, <3>1, <3>2 DEF ListInv
  <2> QED BY <2>3, <2>4
<1> QED BY <1>1, <1>2

\* The dicts may stay as they are.
LEMMA DictsAtRest ==
    ASSUME DictsType, UNCHANGED dicts
    PROVE  DictsType' /\ DictsKept
<1>1. DictsType'
  BY DEF DictsType
<1>2. \A kind \in Kinds : Len(dicts[kind]) \in Nat
  BY DEF DictsType
<1> QED BY <1>1, <1>2 DEF DictsKept

\* A step of thread t: its call moves, the dicts are kept.
LEMMA ThreadStep ==
    ASSUME OrgInv, NEW t \in OrgThreads, NEW call \in OrgCall,
           orgCalls' = [orgCalls EXCEPT ![t] = call],
           orgCalls[t].at # "patched", DictsType', DictsKept,
           PatchInv(orgCalls[t])', ListInv(orgCalls[t])'
    PROVE  OrgInv'
<1>1. orgCalls' \in [OrgThreads -> OrgCall] /\ orgCalls'[t] = call
  BY DEF OrgInv
<1>2. \A u \in OrgThreads \ {t} : orgCalls'[u] = orgCalls[u]
  BY DEF OrgInv
<1>3. Patched \subseteq Patched'
  BY <1>2 DEF Patched
<1>4. \A u \in OrgThreads \ {t} : PatchInv(orgCalls[u])' /\ ListInv(orgCalls[u])'
  BY <1>2, <1>3, RestKept
<1> QED BY <1>1, <1>4 DEF OrgInv

LEMMA CreateRecordInv ==
    ASSUME OrgInv, NEW kind \in Kinds, NEW tenant \in Tenants, CreateRecord(kind, tenant)
    PROVE  OrgInv'
<1>1. NewRecord(kind, tenant) \in RecordOf(kind)
  BY DEF NewRecord, RecordOf
<1>2. /\ DictsType
      /\ dicts[kind] \in Seq(RecordOf(kind))
      /\ dicts' = [dicts EXCEPT ![kind] = Append(dicts[kind], NewRecord(kind, tenant))]
  BY DEF OrgInv, DictsType, CreateRecord
<1>3. dicts'[kind] = Append(dicts[kind], NewRecord(kind, tenant))
  BY <1>2 DEF DictsType
<1>4. \A other \in Kinds \ {kind} : dicts'[other] = dicts[other]
  BY <1>2 DEF DictsType
<1>5. DictsType'
  <2>1. dicts' = [other \in Kinds |-> dicts'[other]]
    BY <1>2 DEF DictsType
  <2>2. dicts'[kind] \in Seq(RecordOf(kind))
    BY <1>1, <1>2, <1>3
  <2>3. \A other \in Kinds \ {kind} : dicts'[other] \in Seq(RecordOf(other))
    BY <1>2, <1>4 DEF DictsType
  <2>4. \A other \in Kinds : dicts'[other] \in Seq(RecordOf(other))
    BY <2>2, <2>3
  <2>5. \A other \in Kinds : RecordOf(other)' = RecordOf(other)
    BY DEF RecordOf, Sent
  <2> QED BY <2>1, <2>4, <2>5 DEF DictsType
<1>6. DictsKept
  <2>1. /\ Len(dicts[kind]) =< Len(dicts'[kind])
        /\ \A i \in 1 .. Len(dicts[kind]) : dicts'[kind][i] = dicts[kind][i]
    BY <1>1, <1>2, <1>3
  <2>2. \A other \in Kinds : Len(dicts[other]) \in Nat
    BY <1>2 DEF DictsType
  <2> QED BY <2>1, <2>2, <1>4 DEF DictsKept
<1>7. UNCHANGED orgCalls /\ Patched = Patched'
  BY DEF CreateRecord, Patched
<1>8. \A t \in OrgThreads : PatchInv(orgCalls[t])' /\ ListInv(orgCalls[t])'
  BY <1>5, <1>6, <1>7, RestKept
<1> QED BY <1>5, <1>7, <1>8 DEF OrgInv

\* A call that is answered without a word on what it found or wrote.
LEMMA OnlyAnswered ==
    ASSUME OrgInv, NEW t \in OrgThreads, NEW at \in {"refused", "error"},
           OrgAnswered(t, at), UNCHANGED dicts, orgCalls[t].at \in {"new", "listing"}
    PROVE  OrgInv'
<1> DEFINE call == [orgCalls[t] EXCEPT !.at = at]
<1>1. call \in OrgCall /\ call.at = at
  BY DEF OrgInv, OrgCall
<1>2. orgCalls' = [orgCalls EXCEPT ![t] = call] /\ orgCalls'[t] = call
  BY DEF OrgInv, OrgAnswered
<1>3. PatchInv(orgCalls[t])' /\ ListInv(orgCalls[t])'
  BY <1>1, <1>2 DEF PatchInv, ListInv
<1>4. DictsType' /\ DictsKept
  BY DictsAtRest DEF OrgInv
<1> HIDE DEF call
<1> QED BY <1>1, <1>2, <1>3, <1>4, ThreadStep

LEMMA PatchBeginInv ==
    ASSUME OrgInv, NEW t \in OrgThreads, NEW kind \in Kinds, NEW i \in Records(kind),
           NEW keys \in SUBSET Sent(kind), PatchBegin(t, kind, i, keys)
    PROVE  OrgInv'
<1> DEFINE call == [NoOrgCall EXCEPT !.at = "patching", !.kind = kind, !.of = i,
                                     !.keys = keys, !.sent = keys, !.before = Patched]
<1>1. /\ call \in OrgCall
      /\ call.at = "patching" /\ call.kind = kind /\ call.of = i
      /\ call.keys = keys /\ call.sent = keys /\ call.before = Patched
  <2>1. i \in Nat
    BY RecordsAreNumbers DEF OrgInv
  <2>2. keys \subseteq Keys
    BY DEF Sent, Keys, Kinds
  <2> QED BY <2>1, <2>2 DEF NoOrgCall, OrgCall, Patched
<1>2. orgCalls' = [orgCalls EXCEPT ![t] = call] /\ orgCalls'[t] = call
  BY DEF OrgInv, PatchBegin
<1>3. orgCalls[t].at = "new" /\ UNCHANGED dicts
  BY DEF PatchBegin
<1>4. DictsType' /\ DictsKept
  BY <1>3, DictsAtRest DEF OrgInv
<1>5. Patched' = Patched
  BY <1>1, <1>2, <1>3 DEF Patched, OrgInv
<1> HIDE DEF call
<1>6. PatchInv(orgCalls[t])'
  BY <1>1, <1>2, <1>3, <1>5 DEF PatchInv, Records
<1>7. ListInv(orgCalls[t])'
  BY <1>1, <1>2 DEF ListInv
<1> QED BY <1>1, <1>2, <1>3, <1>4, <1>6, <1>7, ThreadStep

\* What a patch is known to be while it writes.
LEMMA Patching ==
    ASSUME OrgInv, NEW t \in OrgThreads, orgCalls[t].at = "patching"
    PROVE  /\ orgCalls[t] \in OrgCall
           /\ orgCalls[t].kind \in Kinds
           /\ orgCalls[t].of \in 1 .. Len(dicts[orgCalls[t].kind])
           /\ orgCalls[t].sent \subseteq Sent(orgCalls[t].kind)
           /\ orgCalls[t].keys \subseteq orgCalls[t].sent
           /\ orgCalls[t].before \subseteq Patched
           /\ \A key \in (orgCalls[t].sent \cap Writable(orgCalls[t].kind)) \ orgCalls[t].keys :
                  dicts[orgCalls[t].kind][orgCalls[t].of][key]
                      \notin orgCalls[t].before \cup {Creation}
BY RecordsAreNumbers DEF OrgInv, PatchInv

\* One element of a sequence is replaced.
LEMMA SeqExcept ==
    ASSUME NEW S, NEW seq \in Seq(S), NEW n \in 1 .. Len(seq), NEW e \in S
    PROVE  /\ [seq EXCEPT ![n] = e] \in Seq(S)
           /\ Len([seq EXCEPT ![n] = e]) = Len(seq)
           /\ [seq EXCEPT ![n] = e][n] = e
           /\ \A j \in 1 .. Len(seq) \ {n} : [seq EXCEPT ![n] = e][j] = seq[j]
OBVIOUS

\* One key of one record gets the thread's value.
LEMMA PatchWrites ==
    ASSUME OrgInv, NEW t \in OrgThreads, orgCalls[t].at = "patching",
           NEW key \in orgCalls[t].keys, key \in Writable(orgCalls[t].kind),
           dicts' = [dicts EXCEPT ![orgCalls[t].kind][orgCalls[t].of][key] = t]
    PROVE  /\ DictsType'
           /\ DictsKept
           /\ dicts'[orgCalls[t].kind][orgCalls[t].of][key] = t
           /\ \A other \in Writable(orgCalls[t].kind) \ {key} :
                  dicts'[orgCalls[t].kind][orgCalls[t].of][other]
                      = dicts[orgCalls[t].kind][orgCalls[t].of][other]
<1> DEFINE kind == orgCalls[t].kind
           i == orgCalls[t].of
           record == [dicts[kind][i] EXCEPT ![key] = t]
<1>1. kind \in Kinds /\ i \in 1 .. Len(dicts[kind]) /\ key \in Sent(kind)
  BY Patching
<1>2. dicts[kind] \in Seq(RecordOf(kind)) /\ dicts = [k \in Kinds |-> dicts[k]]
  BY <1>1 DEF OrgInv, DictsType
<1>3. dicts[kind][i] \in RecordOf(kind)
  BY <1>1, <1>2
<1>4. /\ record \in RecordOf(kind)
      /\ record[key] = t
      /\ \A other \in (Sent(kind) \cup {"organization_id"}) \ {key} :
             record[other] = dicts[kind][i][other]
  BY <1>1, <1>3 DEF RecordOf
<1>5. /\ dicts' = [k \in Kinds |-> dicts'[k]]
      /\ dicts'[kind] = [dicts[kind] EXCEPT ![i] = record]
      /\ \A k \in Kinds \ {kind} : dicts'[k] = dicts[k]
  BY <1>1, <1>2
<1> HIDE DEF record, kind, i
<1>6. /\ dicts'[kind] \in Seq(RecordOf(kind))
      /\ Len(dicts'[kind]) = Len(dicts[kind])
      /\ dicts'[kind][i] = record
      /\ \A j \in 1 .. Len(dicts[kind]) \ {i} : dicts'[kind][j] = dicts[kind][j]
  <2>1. record \in RecordOf(kind)
    BY <1>4
  <2>2. dicts[kind] \in Seq(RecordOf(kind)) /\ i \in 1 .. Len(dicts[kind])
    BY <1>1, <1>2
  <2>3. /\ [dicts[kind] EXCEPT ![i] = record] \in Seq(RecordOf(kind))
        /\ Len([dicts[kind] EXCEPT ![i] = record]) = Len(dicts[kind])
        /\ [dicts[kind] EXCEPT ![i] = record][i] = record
        /\ \A j \in 1 .. Len(dicts[kind]) \ {i} :
               [dicts[kind] EXCEPT ![i] = record][j] = dicts[kind][j]
    BY <2>1, <2>2, SeqExcept
  <2> QED BY <1>5, <2>3
<1>7. DictsType'
  <2>1. \A k \in Kinds \ {kind} : dicts'[k] \in Seq(RecordOf(k))
    BY <1>5 DEF OrgInv, DictsType
  <2>2. \A k \in Kinds : RecordOf(k)' = RecordOf(k)
    BY DEF RecordOf, Sent
  <2> QED BY <1>5, <1>6, <2>1, <2>2 DEF DictsType
<1>8. Writable(kind) \subseteq Sent(kind) /\ "organization_id" \notin Writable(kind)
  BY DEF Writable
<1>9. key # "organization_id"
  BY <1>8 DEF kind
<1>10. t \in OrgThreads \ Patched
  BY DEF Patched
<1>11. DictsKept
  <2>1. \A k \in Kinds : Len(dicts[k]) \in Nat
    BY DEF OrgInv, DictsType
  <2>2. record.organization_id = dicts[kind][i].organization_id
    BY <1>4, <1>9
  <2>3. \A other \in Writable(kind) :
            record[other] = dicts[kind][i][other] \/ record[other] \in OrgThreads \ Patched
    BY <1>4, <1>8, <1>10
  <2>4. Len(dicts[kind]) =< Len(dicts'[kind])
    BY <1>1, <1>6, <2>1
  <2>5. \A j \in 1 .. Len(dicts[kind]) : j = i \/ dicts'[kind][j] = dicts[kind][j]
    BY <1>6
  <2>6. \A k \in Kinds \ {kind} : Len(dicts[k]) =< Len(dicts'[k])
    BY <1>5, <2>1
  <2>7. \A j \in 1 .. Len(dicts[kind]) :
            /\ dicts'[kind][j].organization_id = dicts[kind][j].organization_id
            /\ \A other \in Writable(kind) :
                   \/ dicts'[kind][j][other] = dicts[kind][j][other]
                   \/ dicts'[kind][j][other] \in OrgThreads \ Patched
    BY <1>6, <2>2, <2>3, <2>5
  <2> QED BY <1>5, <2>4, <2>6, <2>7 DEF DictsKept
<1> QED BY <1>1, <1>4, <1>6, <1>7, <1>8, <1>11 DEF kind, i

LEMMA PatchKeyInv ==
    ASSUME OrgInv, NEW t \in OrgThreads, NEW key \in orgCalls[t].keys, PatchKey(t, key)
    PROVE  OrgInv'
<1> DEFINE old == orgCalls[t]
           call == [old EXCEPT !.keys = old.keys \ {key}]
<1>1. /\ old \in OrgCall
      /\ old.at = "patching" /\ old.kind \in Kinds
      /\ old.of \in 1 .. Len(dicts[old.kind])
      /\ old.sent \subseteq Sent(old.kind) /\ old.keys \subseteq old.sent
      /\ old.before \subseteq Patched
      /\ \A k \in (old.sent \cap Writable(old.kind)) \ old.keys :
             dicts[old.kind][old.of][k] \notin old.before \cup {Creation}
  BY Patching DEF PatchKey
<1>2. orgCalls' = [orgCalls EXCEPT ![t] = call] /\ orgCalls'[t] = call
  BY DEF OrgInv, PatchKey
<1>3. /\ call \in OrgCall
      /\ call.at = "patching" /\ call.kind = old.kind /\ call.of = old.of
      /\ call.keys = old.keys \ {key} /\ call.sent = old.sent /\ call.before = old.before
  BY <1>1 DEF OrgCall
<1>4. /\ DictsType' /\ DictsKept
      /\ key \in Writable(old.kind) => dicts'[old.kind][old.of][key] = t
      /\ \A k \in Writable(old.kind) \ {key} :
             dicts'[old.kind][old.of][k] = dicts[old.kind][old.of][k]
  <2>1. CASE key \in Writable(old.kind)
    BY <1>1, <2>1, PatchWrites DEF PatchKey
  <2>2. CASE key \notin Writable(old.kind)
    <3>1. UNCHANGED dicts
      BY <2>2 DEF PatchKey
    <3> QED BY <2>2, <3>1, DictsAtRest DEF OrgInv
  <2> QED BY <2>1, <2>2
<1> HIDE DEF call
<1>5. Patched \subseteq Patched' /\ t \notin Patched
  BY <1>1, <1>2 DEF Patched, OrgInv
<1>6. PatchInv(orgCalls[t])'
  <2>1. old.of \in DOMAIN dicts'[old.kind]
    BY <1>1, <1>4, RecordsGrow DEF OrgInv
  <2>2. \A k \in (call.sent \cap Writable(call.kind)) \ call.keys :
            dicts'[call.kind][call.of][k] \notin call.before \cup {Creation}
    <3> TAKE k \in (call.sent \cap Writable(call.kind)) \ call.keys
    <3>1. CASE k = key
      BY <1>1, <1>3, <1>4, <1>5, <3>1, OrgAssumption DEF OrgAssumption
    <3>2. CASE k # key
      BY <1>1, <1>3, <1>4, <3>2
    <3> QED BY <3>1, <3>2
  <2> QED BY <1>1, <1>2, <1>3, <1>5, <2>1, <2>2 DEF PatchInv, Records
<1>7. ListInv(orgCalls[t])'
  BY <1>2, <1>3 DEF ListInv
<1> QED BY <1>1, <1>2, <1>3, <1>4, <1>6, <1>7, ThreadStep

LEMMA PatchEndInv ==
    ASSUME OrgInv, NEW t \in OrgThreads, PatchEnd(t)
    PROVE  OrgInv'
<1> DEFINE old == orgCalls[t]
           call == [old EXCEPT !.at = "patched"]
<1>1. /\ old \in OrgCall
      /\ old.at = "patching" /\ old.keys = {} /\ old.kind \in Kinds
      /\ old.of \in Records(old.kind)
      /\ old.sent \subseteq Sent(old.kind)
      /\ old.before \subseteq Patched
      /\ \A k \in (old.sent \cap Writable(old.kind)) \ old.keys :
             dicts[old.kind][old.of][k] \notin old.before \cup {Creation}
  BY DEF OrgInv, PatchInv, PatchEnd
<1>2. orgCalls' = [orgCalls EXCEPT ![t] = call] /\ orgCalls'[t] = call /\ UNCHANGED dicts
  BY DEF OrgInv, PatchEnd, OrgAnswered
<1>3. /\ call \in OrgCall
      /\ call.at = "patched" /\ call.kind = old.kind /\ call.of = old.of
      /\ call.keys = {} /\ call.sent = old.sent /\ call.before = old.before
  BY <1>1 DEF OrgCall
<1> HIDE DEF call
<1>4. DictsType' /\ DictsKept
  BY <1>2, DictsAtRest DEF OrgInv
<1>5. Patched \subseteq Patched'
  BY <1>1, <1>2 DEF Patched, OrgInv
<1>6. PatchInv(orgCalls[t])'
  BY <1>1, <1>2, <1>3, <1>5 DEF PatchInv, Records
<1>7. ListInv(orgCalls[t])'
  BY <1>2, <1>3 DEF ListInv
<1> QED BY <1>1, <1>2, <1>3, <1>4, <1>6, <1>7, ThreadStep

LEMMA ListAllInv ==
    ASSUME OrgInv, NEW t \in OrgThreads, ListAll(t)
    PROVE  OrgInv'
<1> DEFINE call == [NoOrgCall EXCEPT
               !.at = "listed", !.kind = "organizations", !.found = Records("organizations"),
               !.size = Len(dicts["organizations"])]
<1>1. /\ Records("organizations") = 1 .. Len(dicts["organizations"])
      /\ Len(dicts["organizations"]) \in Nat
  BY RecordsAreNumbers DEF OrgInv, Kinds
<1>2. orgCalls' = [orgCalls EXCEPT ![t] = call] /\ orgCalls'[t] = call /\ UNCHANGED dicts
  BY DEF OrgInv, ListAll
<1>3. /\ call \in OrgCall
      /\ call.at = "listed" /\ call.kind = "organizations"
      /\ call.found = 1 .. call.size /\ call.size = Len(dicts["organizations"])
  <2> DEFINE found == Records("organizations")
             size == Len(dicts["organizations"])
  <2>1. found = 1 .. size /\ found \in SUBSET Nat /\ size \in Nat
    BY <1>1
  <2> HIDE DEF found, size
  <2>2. call = [NoOrgCall EXCEPT !.at = "listed", !.kind = "organizations",
                                 !.found = found, !.size = size]
    BY DEF found, size
  <2> HIDE DEF call
  <2>3. /\ call \in OrgCall
        /\ call.at = "listed" /\ call.kind = "organizations"
        /\ call.found = found /\ call.size = size
    BY <2>1, <2>2 DEF NoOrgCall, OrgCall, Kinds
  <2> QED BY <2>1, <2>3 DEF size
<1> HIDE DEF call
<1>4. DictsType' /\ DictsKept
  BY <1>2, DictsAtRest DEF OrgInv
<1>5. PatchInv(orgCalls[t])'
  BY <1>2, <1>3 DEF PatchInv
<1>6. ListInv(orgCalls[t])'
  BY <1>1, <1>2, <1>3 DEF ListInv, Kinds
<1> QED BY <1>2, <1>3, <1>4, <1>5, <1>6, ThreadStep DEF ListAll

LEMMA ListBeginInv ==
    ASSUME OrgInv, NEW t \in OrgThreads, NEW kind \in Kinds \ {"organizations"},
           NEW tenant \in Tenants, ListBegin(t, kind, tenant)
    PROVE  OrgInv'
<1> DEFINE size == Len(dicts[kind])
           call == [NoOrgCall EXCEPT !.at = "listing", !.kind = kind, !.tenant = tenant,
                                     !.size = size]
<1>1. size \in Nat
  BY RecordsAreNumbers DEF OrgInv
<1>2. orgCalls' = [orgCalls EXCEPT ![t] = call] /\ orgCalls'[t] = call /\ UNCHANGED dicts
  BY DEF OrgInv, ListBegin
<1> HIDE DEF size
<1>3. /\ call \in OrgCall
      /\ call.at = "listing" /\ call.kind = kind /\ call.tenant = tenant
      /\ call.index = 1 /\ call.found = {} /\ call.size = size
  BY <1>1 DEF NoOrgCall, OrgCall
<1> HIDE DEF call
<1>4. DictsType' /\ DictsKept
  BY <1>2, DictsAtRest DEF OrgInv
<1>5. PatchInv(orgCalls[t])'
  BY <1>2, <1>3 DEF PatchInv
<1>6. ListInv(orgCalls[t])'
  <2>1. 1 .. (1 - 1) = {}
    OBVIOUS
  <2> QED BY <1>1, <1>2, <1>3, <2>1 DEF ListInv, size
<1> QED BY <1>2, <1>3, <1>4, <1>5, <1>6, ThreadStep DEF ListBegin

\* What an iteration over a dict that has kept its size is known to have found.
LEMMA Listing ==
    ASSUME OrgInv, NEW t \in OrgThreads, orgCalls[t].at = "listing", ~Grown(t)
    PROVE  /\ orgCalls[t] \in OrgCall
           /\ orgCalls[t].kind \in Kinds \ {"organizations"}
           /\ orgCalls[t].size = Len(dicts[orgCalls[t].kind])
           /\ orgCalls[t].size \in Nat
           /\ Records(orgCalls[t].kind) = 1 .. orgCalls[t].size
           /\ orgCalls[t].index \in 1 .. orgCalls[t].size + 1
           /\ orgCalls[t].found = 1 .. (orgCalls[t].index - 1)
                                  \cap Own(orgCalls[t].kind, orgCalls[t].tenant)
<1>1. orgCalls[t] \in OrgCall /\ ListInv(orgCalls[t]) /\ DictsType
  BY DEF OrgInv
<1>2. orgCalls[t].size = Len(dicts[orgCalls[t].kind])
  BY DEF Grown
<1>3. orgCalls[t].kind \in Kinds
  BY <1>1 DEF ListInv
<1> QED BY <1>1, <1>2, <1>3, RecordsAreNumbers DEF ListInv

\* The iteration has looked at one record more.
LEMMA ListNextInv ==
    ASSUME OrgInv, NEW t \in OrgThreads, ListNext(t)
    PROVE  OrgInv'
<1> DEFINE old == orgCalls[t]
           own == Own(old.kind, old.tenant)
           found == old.found \cup ({old.index} \cap own)
           call == [old EXCEPT !.index = old.index + 1, !.found = found]
<1>1. /\ old \in OrgCall
      /\ old.at = "listing" /\ old.kind \in Kinds \ {"organizations"}
      /\ old.size = Len(dicts[old.kind]) /\ old.size \in Nat
      /\ old.index \in 1 .. old.size
      /\ old.found = 1 .. (old.index - 1) \cap own
  BY Listing DEF ListNext
<1>2. orgCalls' = [orgCalls EXCEPT ![t] = call] /\ orgCalls'[t] = call /\ UNCHANGED dicts
  BY DEF OrgInv, ListNext
<1> HIDE DEF own
<1>3. found = 1 .. old.index \cap own /\ found \in SUBSET Nat /\ old.index + 1 \in Nat
  BY <1>1
<1> HIDE DEF found
<1>4. /\ call \in OrgCall
      /\ call.at = "listing" /\ call.kind = old.kind /\ call.tenant = old.tenant
      /\ call.index = old.index + 1 /\ call.found = found /\ call.size = old.size
  BY <1>1, <1>3 DEF OrgCall
<1> HIDE DEF call
<1>5. DictsType' /\ DictsKept
  BY <1>2, DictsAtRest DEF OrgInv
<1>6. PatchInv(orgCalls[t])'
  BY <1>2, <1>4 DEF PatchInv
<1>7. ListInv(orgCalls[t])'
  <2>1. call.index - 1 = old.index
    BY <1>1, <1>4
  <2>2. call.found = 1 .. (call.index - 1) \cap Own(call.kind, call.tenant)
    BY <1>3, <1>4, <2>1 DEF own
  <2>3. /\ call.size \in 0 .. Len(dicts[call.kind]) /\ call.kind \in Kinds \ {"organizations"}
        /\ call.index \in 1 .. call.size + 1
    BY <1>1, <1>4
  <2> QED BY <1>2, <1>4, <2>2, <2>3 DEF ListInv, Own, Records
<1> QED BY <1>1, <1>2, <1>4, <1>5, <1>6, <1>7, ThreadStep

LEMMA ListEndInv ==
    ASSUME OrgInv, NEW t \in OrgThreads, ListEnd(t)
    PROVE  OrgInv'
<1> DEFINE old == orgCalls[t]
           own == Own(old.kind, old.tenant)
           call == [old EXCEPT !.at = "listed"]
<1>1. /\ old \in OrgCall
      /\ old.at = "listing" /\ old.kind \in Kinds \ {"organizations"}
      /\ old.size = Len(dicts[old.kind]) /\ old.size \in Nat
      /\ old.index = old.size + 1
      /\ old.found = 1 .. (old.index - 1) \cap own
  BY Listing DEF ListEnd
<1>2. orgCalls' = [orgCalls EXCEPT ![t] = call] /\ orgCalls'[t] = call /\ UNCHANGED dicts
  BY DEF OrgInv, ListEnd, OrgAnswered
<1>3. /\ call \in OrgCall
      /\ call.at = "listed" /\ call.kind = old.kind /\ call.tenant = old.tenant
      /\ call.found = old.found /\ call.size = old.size
  BY <1>1 DEF OrgCall
<1> HIDE DEF call, own
<1>4. DictsType' /\ DictsKept
  BY <1>2, DictsAtRest DEF OrgInv
<1>5. PatchInv(orgCalls[t])'
  BY <1>2, <1>3 DEF PatchInv
<1>6. ListInv(orgCalls[t])'
  <2>1. old.found = 1 .. old.size \cap own
    BY <1>1
  <2>2. call.found = 1 .. call.size \cap Own(call.kind, call.tenant)
    BY <1>3, <2>1 DEF own
  <2>3. call.size \in 0 .. Len(dicts[call.kind]) /\ call.kind \in Kinds \ {"organizations"}
    BY <1>1, <1>3
  <2> QED BY <1>2, <1>3, <2>2, <2>3 DEF ListInv, Own, Records
<1> QED BY <1>1, <1>2, <1>3, <1>4, <1>5, <1>6, ThreadStep

LEMMA OrgInductive == OrgInv /\ [OrgNext]_orgVars => OrgInv'
<1> SUFFICES ASSUME OrgInv, [OrgNext]_orgVars
             PROVE  OrgInv'
  OBVIOUS
<1>1. CASE UNCHANGED orgVars
  <2>1. UNCHANGED <<dicts, orgCalls>> /\ Patched' = Patched
    BY <1>1 DEF orgVars, Patched
  <2>2. DictsType' /\ DictsKept
    BY <2>1, DictsAtRest DEF OrgInv
  <2>3. \A t \in OrgThreads : PatchInv(orgCalls[t])' /\ ListInv(orgCalls[t])'
    BY <2>1, <2>2, RestKept
  <2> QED BY <2>1, <2>2, <2>3 DEF OrgInv
<1>2. ASSUME NEW t \in OrgThreads, PatchRefused(t) \/ ListInterrupted(t)
      PROVE  OrgInv'
  BY <1>2, OnlyAnswered DEF PatchRefused, ListInterrupted
<1> QED BY <1>1, <1>2, CreateRecordInv, PatchBeginInv, PatchKeyInv, PatchEndInv, ListAllInv,
           ListBeginInv, ListNextInv, ListEndInv DEF OrgNext

LEMMA OrgAlways == OrgSpec => []OrgInv
BY OrgInitially, OrgInductive, PTL DEF OrgSpec

\* A listing that is answered is that of one moment, for any number of threads and
\* records (list_agents and list_customers beside inserts and patches).
THEOREM ListingsAreComplete == OrgSpec => []ListIsComplete
<1>1. OrgInv => ListIsComplete
  BY DEF OrgInv, ListInv, ListIsComplete
<1> QED BY <1>1, OrgAlways, PTL

\* No patch undoes one that was answered before it came, for any number of patches
\* of one record (update_organization, update_agent_status, update_customer).
THEOREM PatchesStand == OrgSpec => []PatchStands
<1>1. OrgInv => PatchStands
  BY DEF OrgInv, PatchInv, PatchStands, Patched
<1> QED BY <1>1, OrgAlways, PTL

-----------------------------------------------------------------------------
(***************************************************************************)
(* The integration service                                                 *)
(***************************************************************************)

ToolInv ==
    /\ ToolTypeOK
    /\ ValidIsIntegrated

LEMMA ToolInitially == ToolInit => ToolInv
<1> SUFFICES ASSUME ToolInit PROVE ToolInv
  OBVIOUS
<1>1. NoToolCall \in ToolCall /\ NoToolCall.at = "idle"
  BY MaxIntegrationsAssumption DEF NoToolCall, CallOf, ToolCall, ToolNames, Tool, ToolTypes
<1> HIDE DEF NoToolCall
<1>2. ToolTypeOK
  BY <1>1, MaxIntegrationsAssumption DEF ToolInit, ToolTypeOK
<1> QED BY <1>1, <1>2 DEF ToolInit, ToolInv, ValidIsIntegrated

LEMMA RegisterIntegrationInv ==
    ASSUME ToolInv, NEW new \in Integration, RegisterIntegration(new)
    PROVE  ToolInv'
<1>1. /\ integrations' \in Seq(Integration) /\ Len(integrations') <= MaxIntegrations
      /\ \A i \in DOMAIN integrations :
             i \in DOMAIN integrations' /\ integrations'[i] = integrations[i]
      /\ UNCHANGED toolCalls
  BY MaxIntegrationsAssumption DEF ToolInv, ToolTypeOK, RegisterIntegration
<1>2. ToolTypeOK'
  BY <1>1 DEF ToolInv, ToolTypeOK
<1>3. ValidIsIntegrated'
  BY <1>1 DEF ToolInv, ValidIsIntegrated
<1> QED BY <1>2, <1>3 DEF ToolInv

\* A step of thread t on the integrations as they are.
LEMMA ToolCallStep ==
    ASSUME ToolInv, NEW t \in ToolThreads, NEW call \in ToolCall, UNCHANGED integrations,
           toolCalls' = [toolCalls EXCEPT ![t] = call],
           call.at = "valid" /\ call.org # NoOrg => ActiveFor(call.org, call.tool.type)
    PROVE  ToolInv'
<1>1. /\ toolCalls' \in [ToolThreads -> ToolCall]
      /\ toolCalls'[t] = call
      /\ \A u \in ToolThreads \ {t} : toolCalls'[u] = toolCalls[u]
  BY DEF ToolInv, ToolTypeOK
<1>2. call.at = "valid" /\ call.org # NoOrg =>
          \E i \in DOMAIN integrations :
              /\ integrations[i].org = call.org
              /\ integrations[i].type = call.tool.type
              /\ integrations[i].enabled
  BY DEF ActiveFor
<1>3. ToolTypeOK'
  BY <1>1 DEF ToolInv, ToolTypeOK
<1>4. ValidIsIntegrated'
  BY <1>1, <1>2 DEF ToolInv, ValidIsIntegrated
<1> QED BY <1>3, <1>4 DEF ToolInv

\* A call is of its type.
LEMMA CallOfType ==
    ASSUME NEW at \in {"idle", "validate", "valid", "invalid", "success", "unsupported"},
           NEW tool \in ToolNames, NEW org \in IntegrationOrgs \cup {NoOrg},
           NEW size \in 0 .. MaxIntegrations
    PROVE  /\ CallOf(at, tool, org, size) \in ToolCall
           /\ CallOf(at, tool, org, size).at = at
           /\ CallOf(at, tool, org, size).tool = tool
           /\ CallOf(at, tool, org, size).org = org
BY DEF CallOf, ToolCall

LEMMA ToolInductive == ToolInv /\ [ToolNext]_toolCallVars => ToolInv'
<1> SUFFICES ASSUME ToolInv, [ToolNext]_toolCallVars
             PROVE  ToolInv'
  OBVIOUS
<1>0. /\ toolCalls \in [ToolThreads -> ToolCall]
      /\ Len(integrations) \in 0 .. MaxIntegrations /\ 0 \in 0 .. MaxIntegrations
  BY MaxIntegrationsAssumption DEF ToolInv, ToolTypeOK
<1>1. CASE UNCHANGED toolCallVars
  BY <1>1 DEF toolCallVars, ToolInv, ToolTypeOK, ValidIsIntegrated
<1>2. ASSUME NEW t \in ToolThreads, NEW tool \in ToolNames, NEW org \in IntegrationOrgs,
             ExecuteTool(t, tool, org)
      PROVE  ToolInv'
  <2> DEFINE call == CallOf(RunTool(tool), tool, org, 0)
  <2>1. toolCalls' = [toolCalls EXCEPT ![t] = call] /\ UNCHANGED integrations
    BY <1>2 DEF ExecuteTool
  <2>2. RunTool(tool) \in {"success", "unsupported"}
    BY DEF RunTool
  <2>3. call \in ToolCall /\ call.at # "valid"
    BY <1>0, <2>2, CallOfType
  <2> HIDE DEF call
  <2> QED BY <2>1, <2>3, ToolCallStep
<1>3. ASSUME NEW t \in ToolThreads, NEW tool \in ToolNames,
             NEW org \in IntegrationOrgs \cup {NoOrg}, Validate(t, tool, org)
      PROVE  ToolInv'
  <2> DEFINE call == IF tool.listed THEN CallOf("validate", tool, org, Len(integrations))
                     ELSE CallOf("invalid", tool, org, 0)
  <2>1. toolCalls' = [toolCalls EXCEPT ![t] = call] /\ UNCHANGED integrations
    BY <1>3 DEF Validate
  <2>2. call \in ToolCall /\ call.at # "valid"
    BY <1>0, CallOfType
  <2> HIDE DEF call
  <2> QED BY <2>1, <2>2, ToolCallStep
<1>4. ASSUME NEW t \in ToolThreads, ValidateEnd(t)
      PROVE  ToolInv'
  <2> DEFINE c == toolCalls[t]
             call == IF Len(integrations) # c.size THEN NoToolCall
                     ELSE IF c.org = NoOrg \/ ActiveFor(c.org, c.tool.type)
                     THEN CallOf("valid", c.tool, c.org, 0)
                     ELSE CallOf("invalid", c.tool, c.org, 0)
  <2>1. toolCalls' = [toolCalls EXCEPT ![t] = call] /\ UNCHANGED integrations
    BY <1>4 DEF ValidateEnd
  <2>2. c.tool \in ToolNames /\ c.org \in IntegrationOrgs \cup {NoOrg}
    BY <1>0 DEF ToolCall
  <2>3. NoToolCall \in ToolCall /\ NoToolCall.at = "idle"
    BY MaxIntegrationsAssumption DEF NoToolCall, CallOf, ToolCall, ToolNames, Tool, ToolTypes
  <2> HIDE DEF c, NoToolCall
  <2>4. /\ call \in ToolCall
        /\ call.at = "valid" =>
               /\ call.tool = c.tool /\ call.org = c.org
               /\ c.org = NoOrg \/ ActiveFor(c.org, c.tool.type)
    <3> DEFINE valid == CallOf("valid", c.tool, c.org, 0)
               invalid == CallOf("invalid", c.tool, c.org, 0)
    <3>1. /\ valid \in ToolCall /\ valid.tool = c.tool /\ valid.org = c.org
          /\ invalid \in ToolCall /\ invalid.at = "invalid"
      <4>1. 0 \in 0 .. MaxIntegrations
        BY <1>0
      <4> QED BY <2>2, <4>1, CallOfType
    <3>2. \/ call = NoToolCall \/ call = invalid
          \/ call = valid /\ (c.org = NoOrg \/ ActiveFor(c.org, c.tool.type))
      BY DEF ActiveFor
    <3> HIDE DEF valid, invalid, call
    <3> QED BY <2>3, <3>1, <3>2
  <2> HIDE DEF call
  <2> QED BY <2>1, <2>4, ToolCallStep
<1> QED BY <1>1, <1>2, <1>3, <1>4, RegisterIntegrationInv DEF ToolNext

LEMMA ToolAlways == ToolSpec => []ToolInv
BY ToolInitially, ToolInductive, PTL DEF ToolSpec

\* A tool found valid for an organization, beside any number of registrations, is
\* backed by an enabled integration of it from then on (validate_tool).
THEOREM ValidToolsAreIntegrated == ToolSpec => []ValidIsIntegrated
<1>1. ToolInv => ValidIsIntegrated
  BY DEF ToolInv
<1> QED BY <1>1, ToolAlways, PTL

-----------------------------------------------------------------------------
(***************************************************************************)
(* The approvals                                                           *)
(***************************************************************************)

\* A resolved approval names its approver, or a call is about to name one.
Attributed(a) ==
    Resolved(a) =>
        \/ approvals[a].approver_user_id # NoUser
        \/ \E t \in Deciders : deciders[t].pc # "idle" /\ deciders[t].approval = a

ApprovalsInv ==
    /\ ApprovalsTypeOK
    /\ \A t \in Deciders : deciders[t].pc # "idle" => deciders[t].user \in Users
    /\ \A a \in ApprovalIds : Attributed(a)

LEMMA ApprovalsInitially == ApprovalsInit => ApprovalsInv
BY DEF ApprovalsInit, ApprovalsInv, ApprovalsTypeOK, Attributed, Resolved, NoApproval, NoCall,
       Approval, DecideCall, Decision

LEMMA ApprovalsInductive == ApprovalsInv /\ [ApprovalsNext]_approvalVars => ApprovalsInv'
<1> SUFFICES ASSUME ApprovalsInv, [ApprovalsNext]_approvalVars
             PROVE  ApprovalsInv'
  OBVIOUS
<1>1. CASE UNCHANGED approvalVars
  BY <1>1 DEF approvalVars, ApprovalsInv, ApprovalsTypeOK, Attributed, Resolved
<1>2. ASSUME NEW a \in ApprovalIds, NEW s \in StepIds, CreateApproval(a, s)
      PROVE  ApprovalsInv'
  <2>1. NewApproval(s) \in Approval /\ NewApproval(s).status = "pending"
    BY DEF NewApproval, Approval, Decision
  <2> QED BY <1>2, <2>1 DEF CreateApproval, ApprovalsInv, ApprovalsTypeOK, Attributed, Resolved
<1>3. ASSUME NEW t \in Deciders, NEW a \in ApprovalIds, NEW d \in Decision, NEW u \in Users,
             DecideCheck(t, a, d, u)
      PROVE  ApprovalsInv'
  <2> DEFINE call == [pc |-> "checked", approval |-> a, decision |-> d, user |-> u]
  <2>1. call \in DecideCall /\ call.pc = "checked" /\ call.user = u
    BY DEF DecideCall
  <2>2. /\ UNCHANGED approvals /\ deciders[t].pc = "idle"
        /\ deciders' = [deciders EXCEPT ![t] = call]
    BY <1>3 DEF DecideCheck
  <2> HIDE DEF call
  <2> QED BY <2>1, <2>2 DEF ApprovalsInv, ApprovalsTypeOK, Attributed, Resolved
<1>4. ASSUME NEW t \in Deciders, DecideStatus(t)
      PROVE  ApprovalsInv'
  <2> DEFINE old == deciders[t]
             call == [old EXCEPT !.pc = "status_set"]
  <2>1. old \in DecideCall /\ old.user \in Users
    BY <1>4 DEF ApprovalsInv, ApprovalsTypeOK, DecideStatus
  <2>2. /\ call \in DecideCall /\ call.pc = "status_set"
        /\ call.user \in Users /\ call.approval = old.approval
    BY <2>1 DEF DecideCall
  <2>3. deciders' = [deciders EXCEPT ![t] = call]
    BY <1>4 DEF DecideStatus
  <2>4. /\ approvals' \in [ApprovalIds -> Approval]
        /\ \A a \in ApprovalIds : approvals'[a] = approvals[a] \/ old.approval = a
    BY <1>4, <2>1 DEF DecideStatus, ApprovalsInv, ApprovalsTypeOK, Approval, DecideCall
  <2> HIDE DEF call
  <2> QED BY <2>2, <2>3, <2>4 DEF ApprovalsInv, ApprovalsTypeOK, Attributed, Resolved
<1>5. ASSUME NEW t \in Deciders, DecideRecord(t)
      PROVE  ApprovalsInv'
  <2> DEFINE old == deciders[t]
  <2>1. old \in DecideCall /\ old.user \in Users
    BY <1>5 DEF ApprovalsInv, ApprovalsTypeOK, DecideRecord
  <2>2. /\ approvals' \in [ApprovalIds -> Approval]
        /\ \A a \in ApprovalIds \ {old.approval} : approvals'[a] = approvals[a]
        /\ \A a \in ApprovalIds \cap {old.approval} :
               approvals'[a].approver_user_id = old.user
    BY <1>5, <2>1 DEF DecideRecord, ApprovalsInv, ApprovalsTypeOK, Approval
  <2>3. NoCall \in DecideCall /\ NoCall.pc = "idle"
    BY DEF NoCall, DecideCall, Decision
  <2>4. deciders' = [deciders EXCEPT ![t] = NoCall]
    BY <1>5 DEF DecideRecord
  <2>5. \A a \in ApprovalIds \cap {old.approval} : approvals'[a].approver_user_id # NoUser
    BY <2>1, <2>2, ApprovalConstants
  <2> QED BY <2>2, <2>3, <2>4, <2>5 DEF ApprovalsInv, ApprovalsTypeOK, Attributed, Resolved
<1> QED BY <1>1, <1>2, <1>3, <1>4, <1>5 DEF ApprovalsNext

\* A resolved approval that no call is deciding names the user who decided it, for
\* any number of decisions that race (decide_approval).
THEOREM ResolutionsAreAttributed == ApprovalsSafety => []ResolvedIsAttributed
<1>1. ApprovalsInv => ResolvedIsAttributed
  BY DEF ApprovalsInv, Attributed, ResolvedIsAttributed, Quiet
<1> QED BY <1>1, ApprovalsInitially, ApprovalsInductive, PTL DEF ApprovalsSafety

\* Once an approval is resolved and no call is still deciding it, it never changes
\* and nobody decides it again (decide_approval's test of "pending").
THEOREM ResolutionsAreFinal == ApprovalsSafety => SettledForever
<1>1. ASSUME ApprovalsInv, [ApprovalsNext]_approvalVars, NEW a \in ApprovalIds,
             Resolved(a), Quiet(a)
      PROVE  approvals'[a] = approvals[a] /\ Quiet(a)'
  <2> USE <1>1 DEF Resolved, Quiet
  <2>1. CASE UNCHANGED approvalVars
    BY <2>1 DEF approvalVars
  <2>2. ASSUME NEW b \in ApprovalIds, NEW s \in StepIds, CreateApproval(b, s)
        PROVE  approvals'[a] = approvals[a] /\ Quiet(a)'
    BY <2>2 DEF CreateApproval, FreshApproval, ApprovalsInv
  <2>3. ASSUME NEW t \in Deciders, NEW b \in ApprovalIds, NEW d \in Decision, NEW u \in Users,
               DecideCheck(t, b, d, u)
        PROVE  approvals'[a] = approvals[a] /\ Quiet(a)'
    BY <2>3 DEF DecideCheck, ApprovalsInv
  <2>4. ASSUME NEW t \in Deciders, DecideStatus(t)
        PROVE  approvals'[a] = approvals[a] /\ Quiet(a)'
    BY <2>4 DEF DecideStatus, ApprovalsInv
  <2>5. ASSUME NEW t \in Deciders, DecideRecord(t)
        PROVE  approvals'[a] = approvals[a] /\ Quiet(a)'
    BY <2>5 DEF DecideRecord, NoCall, ApprovalsInv, ApprovalIds
  <2> QED BY <2>1, <2>2, <2>3, <2>4, <2>5 DEF ApprovalsNext
<1>2. ApprovalsInv /\ [ApprovalsNext]_approvalVars =>
          [\A a \in ApprovalIds : Resolved(a) /\ Quiet(a) =>
              approvals'[a] = approvals[a] /\ Quiet(a)']_approvalVars
  BY <1>1
<1> QED BY <1>2, ApprovalsInitially, ApprovalsInductive, PTL DEF ApprovalsSafety, SettledForever

-----------------------------------------------------------------------------
(***************************************************************************)
(* The configuration                                                       *)
(***************************************************************************)

\* What the layers give, field by field.
ConfigInv ==
    /\ configRole \in ConfigRoles
    /\ \A f \in Fields :
           config[f] = IF Preset(configRole)[f] # None THEN Preset(configRole)[f]
                       ELSE IF orgConfig[f] # None THEN orgConfig[f]
                       ELSE Defaults[f]

\* A preset that gives a list of allowed tools gives one that is not empty, which
\* would allow everything.
LEMMA PresetsAllowSomething ==
    ASSUME NEW role \in ConfigRoles, Preset(role).allowed_tools # None
    PROVE  Preset(role).allowed_tools # {}
BY DEF ConfigRoles, Preset, Overrides

LEMMA DefaultsAreGiven == \A f \in Fields : Defaults[f] # None
BY NoneAssumption DEF Fields, Defaults, Overrides

LEMMA ConfigInitially == ConfigInit => ConfigInv
BY DEF ConfigInit, ConfigInv, ConfigRoles, Fields, Preset, Overrides

LEMMA ConfigInductive == ConfigInv /\ [ConfigNext]_configVars => ConfigInv'
<1>1. ASSUME ConfigInv, UNCHANGED configVars PROVE ConfigInv'
  BY <1>1 DEF ConfigInv, configVars
<1>2. ASSUME NEW role \in ConfigRoles, NEW org \in OrgConfigs, ResolveAIConfig(role, org)
      PROVE  ConfigInv'
  BY <1>2 DEF ResolveAIConfig, Resolve, Apply, ConfigInv
<1> QED BY <1>1, <1>2 DEF ConfigNext

LEMMA ConfigAlways == ConfigSpec => []ConfigInv
BY ConfigInitially, ConfigInductive, PTL DEF ConfigSpec

LEMMA OverridesAreALayer ==
    ASSUME NEW allowed \in (SUBSET ConfigTools) \cup {None},
           NEW blocked \in (SUBSET ConfigTools) \cup {None}, NEW steps \in Nat \cup {None}
    PROVE  Overrides(allowed, blocked, steps) \in Layer
BY DEF Overrides, Layer

LEMMA LayersAreTyped ==
    /\ Defaults \in Configuration
    /\ \A role \in ConfigRoles : Preset(role) \in Layer
    /\ OrgConfigs \subseteq Layer
<1>1. Defaults \in Configuration
  BY DEF Defaults, Overrides, Configuration
<1>2. ASSUME NEW role \in ConfigRoles PROVE Preset(role) \in Layer
  BY <1>2, OverridesAreALayer DEF ConfigRoles, Preset, ConfigTools
<1>3. OrgConfigs \subseteq Layer
  BY ToolListsAssumption, StepLimitsAssumption DEF OrgConfigs, Layer
<1> QED BY <1>1, <1>2, <1>3

LEMMA AppliedIsTyped ==
    ASSUME NEW cfg \in Configuration, NEW overrides \in Layer
    PROVE  Apply(cfg, overrides) \in Configuration
<1>1. /\ cfg.allowed_tools \in SUBSET ConfigTools /\ cfg.blocked_tools \in SUBSET ConfigTools
      /\ cfg.max_steps \in Nat
      /\ overrides.allowed_tools \in (SUBSET ConfigTools) \cup {None}
      /\ overrides.blocked_tools \in (SUBSET ConfigTools) \cup {None}
      /\ overrides.max_steps \in Nat \cup {None}
  BY DEF Configuration, Layer
<1>2. Apply(cfg, overrides) =
          [f \in Fields |-> IF overrides[f] = None THEN cfg[f] ELSE overrides[f]]
  BY DEF Apply
<1> DEFINE allowed == IF overrides.allowed_tools = None THEN cfg.allowed_tools
                      ELSE overrides.allowed_tools
           blocked == IF overrides.blocked_tools = None THEN cfg.blocked_tools
                      ELSE overrides.blocked_tools
           steps == IF overrides.max_steps = None THEN cfg.max_steps
                    ELSE overrides.max_steps
<1>3. /\ allowed \in SUBSET ConfigTools /\ blocked \in SUBSET ConfigTools
      /\ steps \in Nat
  BY <1>1
<1>4. Apply(cfg, overrides) =
          [allowed_tools |-> allowed, blocked_tools |-> blocked, max_steps |-> steps]
  BY <1>2 DEF Fields
<1> HIDE DEF allowed, blocked, steps
<1> QED BY <1>3, <1>4 DEF Configuration

LEMMA ConfigTyped == ConfigSpec => []ConfigTypeOK
<1>1. ConfigInit => ConfigTypeOK
  BY LayersAreTyped DEF ConfigInit, ConfigTypeOK, ConfigRoles, OrgConfigs, Overrides
<1>2. ConfigTypeOK /\ [ConfigNext]_configVars => ConfigTypeOK'
  <2>1. ASSUME NEW role \in ConfigRoles, NEW org \in OrgConfigs, ResolveAIConfig(role, org)
        PROVE  ConfigTypeOK'
    BY <2>1, LayersAreTyped, AppliedIsTyped DEF ResolveAIConfig, Resolve, ConfigTypeOK
  <2> QED BY <2>1 DEF ConfigNext, ConfigTypeOK, configVars
<1> QED BY <1>1, <1>2, PTL DEF ConfigSpec

\* A field has the value of the highest layer that gives one: the agent's before
\* the organization's before the defaults (resolve_ai_config).
THEOREM TheHighestLayerWins == ConfigSpec => []HighestLayerWins
<1>1. ASSUME ConfigInv PROVE HighestLayerWins
  <2> DEFINE layers == <<Preset(configRole), orgConfig, Defaults>>
  <2> SUFFICES ASSUME NEW f \in Fields
               PROVE  \E i \in DOMAIN layers :
                          /\ layers[i][f] # None /\ config[f] = layers[i][f]
                          /\ \A j \in 1 .. i - 1 : layers[j][f] = None
    BY DEF HighestLayerWins
  <2>1. DOMAIN layers = 1 .. 3 /\ layers[1] = Preset(configRole)
        /\ layers[2] = orgConfig /\ layers[3] = Defaults
    OBVIOUS
  <2> HIDE DEF layers
  <2>2. CASE layers[1][f] # None
    <3>1. config[f] = layers[1][f] /\ 1 \in DOMAIN layers /\ \A j \in 1 .. 1 - 1 : FALSE
      BY <1>1, <2>1, <2>2 DEF ConfigInv
    <3> QED BY <2>2, <3>1
  <2>3. CASE layers[1][f] = None /\ layers[2][f] # None
    <3>1. config[f] = layers[2][f] /\ 2 \in DOMAIN layers /\ \A j \in 1 .. 2 - 1 : j = 1
      BY <1>1, <2>1, <2>3 DEF ConfigInv
    <3> QED BY <2>3, <3>1
  <2>4. CASE layers[1][f] = None /\ layers[2][f] = None
    <3>1. /\ config[f] = layers[3][f] /\ 3 \in DOMAIN layers
          /\ \A j \in 1 .. 3 - 1 : j = 1 \/ j = 2
      BY <1>1, <2>1, <2>4 DEF ConfigInv
    <3> QED BY <2>1, <2>4, <3>1, DefaultsAreGiven
  <2> QED BY <2>2, <2>3, <2>4
<1> QED BY <1>1, ConfigAlways, PTL

\* Whatever an organization configures, its agents get no tool beyond the preset of
\* their role, which includes that no list of theirs becomes the empty one that
\* allows all (resolve_ai_config, is_tool_allowed).
THEOREM PresetsAreTheLimit == ConfigSpec => []PresetIsTheLimit
<1>1. ASSUME ConfigInv PROVE PresetIsTheLimit
  <2> DEFINE preset == Preset(configRole)
  <2> SUFFICES ASSUME NEW tool \in ConfigTools, IsToolAllowed(config, tool)
               PROVE  /\ preset.allowed_tools # None => tool \in preset.allowed_tools
                      /\ IF preset.blocked_tools # None
                         THEN tool \notin preset.blocked_tools
                         ELSE orgConfig.blocked_tools # None =>
                                tool \notin orgConfig.blocked_tools
    BY DEF PresetIsTheLimit
  <2>1. /\ "allowed_tools" \in Fields /\ "blocked_tools" \in Fields
        /\ preset.allowed_tools # None => preset.allowed_tools # {}
    BY <1>1, PresetsAllowSomething DEF ConfigInv, Fields
  <2>2. /\ preset.allowed_tools # None => config.allowed_tools = preset.allowed_tools
        /\ preset.blocked_tools # None => config.blocked_tools = preset.blocked_tools
        /\ preset.blocked_tools = None /\ orgConfig.blocked_tools # None =>
               config.blocked_tools = orgConfig.blocked_tools
    BY <1>1, <2>1 DEF ConfigInv
  <2> HIDE DEF preset
  <2> QED BY <2>1, <2>2 DEF IsToolAllowed
<1> QED BY <1>1, ConfigAlways, PTL

-----------------------------------------------------------------------------
(***************************************************************************)
(* All services beside each other                                          *)
(***************************************************************************)

LEMMA OrgTypeInductive == OrgInv /\ OrgTypeOK /\ [OrgNext]_orgVars => OrgTypeOK'
<1> SUFFICES ASSUME OrgInv, OrgTypeOK, [OrgNext]_orgVars
             PROVE  OrgTypeOK'
  OBVIOUS
<1> DEFINE Typed(record) ==
        \A key \in DOMAIN record :
            record[key] \in
                IF key = "organization_id" THEN Tenants ELSE OrgThreads \cup {Creation}
           Placed(call) ==
        /\ call.at \in {"new", "patching", "listing", "patched", "listed", "refused", "error"}
        /\ call.index \in 1 .. call.size + 1
<1>1. /\ \A kind \in Kinds : \A i \in DOMAIN dicts[kind] : Typed(dicts[kind][i])
      /\ \A t \in OrgThreads : Placed(orgCalls[t])
      /\ dicts = [kind \in Kinds |-> dicts[kind]]
      /\ \A kind \in Kinds : dicts[kind] \in Seq(RecordOf(kind))
      /\ orgCalls \in [OrgThreads -> OrgCall]
  BY DEF OrgTypeOK, OrgInv, DictsType
<1>2. SUFFICES /\ \A kind \in Kinds : \A i \in DOMAIN dicts'[kind] : Typed(dicts'[kind][i])
               /\ \A t \in OrgThreads : Placed(orgCalls'[t])
  BY DEF OrgTypeOK
<1> HIDE DEF Typed, Placed
<1>3. CASE UNCHANGED orgVars
  BY <1>1, <1>3 DEF orgVars
<1>4. ASSUME NEW kind \in Kinds, NEW tenant \in Tenants, CreateRecord(kind, tenant)
      PROVE  /\ \A k \in Kinds : \A i \in DOMAIN dicts'[k] : Typed(dicts'[k][i])
             /\ \A t \in OrgThreads : Placed(orgCalls'[t])
  <2>1. Typed(NewRecord(kind, tenant))
    BY DEF Typed, NewRecord
  <2>2. dicts' = [dicts EXCEPT ![kind] = Append(dicts[kind], NewRecord(kind, tenant))]
        /\ orgCalls' = orgCalls
    BY <1>4 DEF CreateRecord
  <2>3. dicts'[kind] = Append(dicts[kind], NewRecord(kind, tenant))
        /\ \A k \in Kinds \ {kind} : dicts'[k] = dicts[k]
    BY <1>1, <2>2
  <2>4. NewRecord(kind, tenant) \in RecordOf(kind)
    BY DEF NewRecord, RecordOf
  <2>5. \A i \in DOMAIN dicts'[kind] : Typed(dicts'[kind][i])
    <3>1. dicts[kind] \in Seq(RecordOf(kind))
      BY <1>1
    <3> QED BY <1>1, <2>1, <2>3, <2>4, <3>1
  <2> QED BY <1>1, <2>2, <2>3, <2>5
<1>5. ASSUME NEW t \in OrgThreads, NEW key \in orgCalls[t].keys, PatchKey(t, key)
      PROVE  /\ \A k \in Kinds : \A i \in DOMAIN dicts'[k] : Typed(dicts'[k][i])
             /\ \A u \in OrgThreads : Placed(orgCalls'[u])
  <2> DEFINE call == orgCalls[t]
  <2>1. /\ call.kind \in Kinds /\ call.of \in DOMAIN dicts[call.kind]
        /\ dicts' = IF key \in Writable(call.kind)
                    THEN [dicts EXCEPT ![call.kind][call.of][key] = t] ELSE dicts
    BY <1>5 DEF PatchKey, OrgInv, PatchInv, Records
  <2>2. \A u \in OrgThreads : /\ orgCalls'[u].at = orgCalls[u].at
                              /\ orgCalls'[u].index = orgCalls[u].index
                              /\ orgCalls'[u].size = orgCalls[u].size
    BY <1>1, <1>5 DEF PatchKey, OrgCall
  <2>3. \A u \in OrgThreads : Placed(orgCalls'[u])
    BY <1>1, <2>2 DEF Placed
  <2>4. CASE key \in Writable(call.kind)
    <3> DEFINE old == dicts[call.kind][call.of]
               record == [old EXCEPT ![key] = t]
    <3>1. dicts'[call.kind] = [dicts[call.kind] EXCEPT ![call.of] = record]
          /\ \A k \in Kinds \ {call.kind} : dicts'[k] = dicts[k]
      BY <1>1, <2>1, <2>4
    <3>2. Typed(record)
      BY <1>1, <2>1, <2>4 DEF Typed, Writable
    <3> HIDE DEF record, call
    <3>3. \A i \in DOMAIN dicts'[call.kind] : Typed(dicts'[call.kind][i])
      BY <1>1, <2>1, <3>1, <3>2
    <3> QED BY <1>1, <2>3, <3>1, <3>3
  <2>5. CASE key \notin Writable(call.kind)
    BY <1>1, <2>1, <2>3, <2>5
  <2> QED BY <2>4, <2>5
<1>6. ASSUME NEW t \in OrgThreads, UNCHANGED dicts, NEW call,
             orgCalls' = [orgCalls EXCEPT ![t] = call], Placed(call)
      PROVE  /\ \A k \in Kinds : \A i \in DOMAIN dicts'[k] : Typed(dicts'[k][i])
             /\ \A u \in OrgThreads : Placed(orgCalls'[u])
  BY <1>1, <1>6
<1>7. ASSUME NEW t \in OrgThreads,
             \/ \E kind \in Kinds : \E i \in Records(kind), keys \in SUBSET Sent(kind) :
                    PatchBegin(t, kind, i, keys)
             \/ \E kind \in Kinds \ {"organizations"}, tenant \in Tenants :
                    ListBegin(t, kind, tenant)
             \/ ListAll(t)
      PROVE  /\ UNCHANGED dicts
             /\ \E call : orgCalls' = [orgCalls EXCEPT ![t] = call] /\ Placed(call)
  <2>1. \A kind \in Kinds : Len(dicts[kind]) \in Nat
    BY <1>1
  <2>2. ASSUME NEW kind \in Kinds, NEW i, NEW keys, PatchBegin(t, kind, i, keys)
        PROVE  \E call : orgCalls' = [orgCalls EXCEPT ![t] = call] /\ Placed(call)
    <3> DEFINE call == [NoOrgCall EXCEPT !.at = "patching", !.kind = kind, !.of = i,
                                         !.keys = keys, !.sent = keys, !.before = Patched]
    <3>1. orgCalls' = [orgCalls EXCEPT ![t] = call]
      BY <2>2 DEF PatchBegin
    <3>2. Placed(call)
      BY DEF NoOrgCall, Placed
    <3> QED BY <3>1, <3>2
  <2>3. ASSUME NEW kind \in Kinds, NEW tenant, ListBegin(t, kind, tenant)
        PROVE  \E call : orgCalls' = [orgCalls EXCEPT ![t] = call] /\ Placed(call)
    <3> DEFINE call == [NoOrgCall EXCEPT !.at = "listing", !.kind = kind,
                                         !.tenant = tenant, !.size = Len(dicts[kind])]
    <3>1. orgCalls' = [orgCalls EXCEPT ![t] = call]
      BY <2>3 DEF ListBegin
    <3>2. Placed(call)
      BY <2>1 DEF NoOrgCall, Placed
    <3> QED BY <3>1, <3>2
  <2>4. ASSUME ListAll(t)
        PROVE  \E call : orgCalls' = [orgCalls EXCEPT ![t] = call] /\ Placed(call)
    <3> DEFINE call == [NoOrgCall EXCEPT
                   !.at = "listed", !.kind = "organizations",
                   !.found = Records("organizations"), !.size = Len(dicts["organizations"])]
    <3>1. orgCalls' = [orgCalls EXCEPT ![t] = call]
      BY <2>4 DEF ListAll
    <3>2. Placed(call)
      BY <2>1 DEF NoOrgCall, Placed, Kinds
    <3> QED BY <3>1, <3>2
  <2>5. UNCHANGED dicts
    BY <1>7 DEF PatchBegin, ListBegin, ListAll
  <2> QED BY <1>7, <2>2, <2>3, <2>4, <2>5
<1>8. ASSUME NEW t \in OrgThreads,
             PatchRefused(t) \/ PatchEnd(t) \/ ListInterrupted(t) \/ ListNext(t) \/ ListEnd(t)
      PROVE  /\ UNCHANGED dicts
             /\ \E call : orgCalls' = [orgCalls EXCEPT ![t] = call] /\ Placed(call)
  <2> DEFINE old == orgCalls[t]
  <2>0. old \in OrgCall /\ Placed(old) /\ orgCalls \in [OrgThreads -> OrgCall]
    BY <1>1
  <2>1. ASSUME NEW at \in {"refused", "patched", "error", "listed"}, OrgAnswered(t, at)
        PROVE  \E call : orgCalls' = [orgCalls EXCEPT ![t] = call] /\ Placed(call)
    <3> DEFINE call == [old EXCEPT !.at = at]
    <3>1. orgCalls' = [orgCalls EXCEPT ![t] = call]
      BY <2>1 DEF OrgAnswered
    <3>2. Placed(call)
      BY <2>0 DEF Placed, OrgCall
    <3> QED BY <3>1, <3>2
  <2>2. ASSUME ListNext(t)
        PROVE  \E call : orgCalls' = [orgCalls EXCEPT ![t] = call] /\ Placed(call)
    <3> DEFINE found == old.found \cup ({old.index} \cap Own(old.kind, old.tenant))
               call == [old EXCEPT !.index = old.index + 1, !.found = found]
    <3>1. /\ old.at = "listing" /\ old.index \in DOMAIN dicts[old.kind]
          /\ Len(dicts[old.kind]) = old.size /\ old.kind \in Kinds
          /\ orgCalls' = [orgCalls EXCEPT ![t].index = @ + 1, ![t].found = found]
      BY <2>2 DEF ListNext, Grown, Records, OrgInv, ListInv
    <3>2. old.index \in 1 .. old.size /\ old.size \in Nat
      <4>1. DOMAIN dicts[old.kind] = 1 .. Len(dicts[old.kind]) /\ Len(dicts[old.kind]) \in Nat
        BY <1>1, <3>1
      <4> QED BY <3>1, <4>1
    <3> HIDE DEF found
    <3>3. orgCalls' = [orgCalls EXCEPT ![t] = call]
      BY <2>0, <3>1
    <3>4. Placed(call)
      BY <2>0, <3>1, <3>2 DEF Placed, OrgCall
    <3> QED BY <3>3, <3>4
  <2> QED BY <1>8, <2>1, <2>2 DEF PatchRefused, PatchEnd, ListInterrupted, ListNext, ListEnd
<1> QED BY <1>3, <1>4, <1>5, <1>6, <1>7, <1>8 DEF OrgNext

LEMMA OrgTyped == OrgSpec => []OrgTypeOK
<1>1. OrgInit => OrgTypeOK
  BY DEF OrgInit, OrgTypeOK, NoOrgCall
<1> QED BY <1>1, OrgAlways, OrgTypeInductive, PTL DEF OrgSpec

\* All that is proved of a service alone holds of it beside the others: their
\* state is their own.
THEOREM EachServiceIsItself ==
    ServicesSpec => /\ ApprovalsSafety /\ AuthSpec /\ MemorySpec /\ ConfigSpec
                    /\ ToolSpec /\ OrgSpec /\ NotifySpec /\ ProxiesSpec
<1>1. ServicesInit => /\ ApprovalsInit /\ AuthInit /\ MemoryInit /\ ConfigInit
                      /\ ToolInit /\ OrgInit /\ NotifyInit /\ ProxiesInit
  BY DEF ServicesInit
<1>2. [ServicesNext]_servicesVars =>
          /\ [ApprovalsNext]_approvalVars /\ [AuthNext]_authVars
          /\ [MemoryNext]_memoryVars /\ [ConfigNext]_configVars
          /\ [ToolNext]_toolCallVars /\ [OrgNext]_orgVars
          /\ [NotifyNext]_notifyVars /\ [ProxiesNext]_calls
  BY DEF ServicesNext, servicesVars, ApprovalsStep, AuthStep, MemoryStep, ConfigStep,
         ToolStep, OrgStep, NotifyStep, ProxiesStep
<1> QED BY <1>1, <1>2, PTL DEF ServicesSpec, ApprovalsSafety, AuthSpec, MemorySpec,
           ConfigSpec, ToolSpec, OrgSpec, NotifySpec, ProxiesSpec

\* The state of every service keeps its type, for any number of threads, records
\* and calls (each handler writes what its readers expect).
THEOREM ServicesTypesCorrect == ServicesSpec => []ServicesTypeOK
<1>1. ApprovalsSafety => []ApprovalsTypeOK
  <2>1. ApprovalsInv => ApprovalsTypeOK
    BY DEF ApprovalsInv
  <2> QED BY <2>1, ApprovalsInitially, ApprovalsInductive, PTL DEF ApprovalsSafety
<1>2. MemorySpec => []MemoryTypeOK
  <2>1. MemoryInv => MemoryTypeOK
    BY DEF MemoryInv
  <2> QED BY <2>1, MemoryAlways, PTL
<1>3. NotifySpec => []NotifyTypeOK
  <2>1. NotifyInv => NotifyTypeOK
    BY DEF NotifyInv
  <2> QED BY <2>1, NotifyAlways, PTL
<1>4. ProxiesSpec => []ProxiesTypeOK
  <2>1. ProxiesInv => ProxiesTypeOK
    BY DEF ProxiesInv, ToldOfAnswer, ProxiesTypeOK
  <2> QED BY <2>1, ProxiesAlways, PTL
<1>5. ToolSpec => []ToolTypeOK
  <2>1. ToolInv => ToolTypeOK
    BY DEF ToolInv
  <2> QED BY <2>1, ToolAlways, PTL
<1>6. ASSUME ApprovalsTypeOK, AuthTypeOK, MemoryTypeOK, ConfigTypeOK, ToolTypeOK, OrgTypeOK,
             NotifyTypeOK, ProxiesTypeOK
      PROVE  ServicesTypeOK
  BY <1>6 DEF ServicesTypeOK
<1> QED BY <1>1, <1>2, <1>3, <1>4, <1>5, <1>6, AuthTyped, ConfigTyped, OrgTyped,
           EachServiceIsItself, PTL
=============================================================================
