----------------------------- MODULE ListsProofs -----------------------------
(***************************************************************************)
(* Three services keep lists that only grow, and look at them without a    *)
(* lock: the auth service for the first user of an email, the memory and   *)
(* the notification service for a page.  What they find stays right.       *)
(***************************************************************************)
EXTENDS AuthService, MemoryService, NotificationService, FiniteSetTheorems,
        WellFoundedInduction, TLAPS

(***************************************************************************)
(* The first of a set of places                                            *)
(***************************************************************************)

First(places) == CHOOSE i \in places : \A j \in places : i <= j

LEMMA FirstExists ==
    ASSUME NEW places \in SUBSET Nat, places # {}
    PROVE  First(places) \in places /\ \A j \in places : First(places) <= j
<1>1. PICK i \in places : \A j \in places : <<j, i>> \notin OpToRel(<, Nat)
  BY WFMin, NatLessThanWellFounded
<1>2. \A j \in places : i <= j
  <2>1. \A j \in Nat : j < i => <<j, i>> \in OpToRel(<, Nat)
    BY DEF OpToRel
  <2>2. \A j \in Nat : j < i \/ i <= j
    OBVIOUS
  <2> QED BY <1>1, <2>1, <2>2
<1> QED BY <1>2 DEF First

\* Places behind all others leave the first one as it is.
LEMMA FirstStays ==
    ASSUME NEW places \in SUBSET Nat, places # {}, NEW more \in SUBSET Nat,
           places \subseteq more,
           \A j \in more \ places : \A i \in places : i < j
    PROVE  First(more) = First(places)
<1>1. /\ First(places) \in places /\ First(more) \in more
      /\ First(more) <= First(places)
      /\ First(places) \in Nat /\ First(more) \in Nat
  BY FirstExists
<1>2. First(more) \in places
  <2>1. ~(First(places) < First(more))
    BY <1>1
  <2> QED BY <1>1, <2>1
<1>3. First(places) <= First(more)
  BY <1>2, FirstExists
<1> QED BY <1>1, <1>3

------------------------------------------------------------------------------
(***************************************************************************)
(* The pages of a list                                                     *)
(***************************************************************************)

\* The elements of S that f places higher than i.
Ahead(S, f, i) == {j \in S : f[j] > f[i]}

LEMMA AheadIsFinite ==
    ASSUME NEW S, IsFiniteSet(S), NEW f, NEW i
    PROVE  IsFiniteSet(Ahead(S, f, i)) /\ Cardinality(Ahead(S, f, i)) \in Nat
BY FS_Subset, FS_CardinalityType DEF Ahead

\* The higher an element, the fewer are ahead of it.
LEMMA HigherHasFewer ==
    ASSUME NEW S, IsFiniteSet(S), NEW f \in [S -> Int], NEW i \in S, NEW j \in S, f[j] > f[i]
    PROVE  Cardinality(Ahead(S, f, j)) < Cardinality(Ahead(S, f, i))
<1>1. /\ Ahead(S, f, j) \in SUBSET Ahead(S, f, i)
      /\ j \in Ahead(S, f, i) /\ j \notin Ahead(S, f, j)
  BY DEF Ahead
<1>2. /\ Cardinality(Ahead(S, f, j)) <= Cardinality(Ahead(S, f, i))
      /\ Cardinality(Ahead(S, f, j)) # Cardinality(Ahead(S, f, i))
  BY <1>1, AheadIsFinite, FS_Subset
<1> QED BY <1>2, AheadIsFinite

\* Where one element has n ahead of it, the n highest are n, and ahead of it.
LEMMA HighestAreFull ==
    ASSUME NEW S, IsFiniteSet(S), NEW f \in [S -> Int],
           \A i, j \in S : f[i] = f[j] => i = j,
           NEW n \in Nat, NEW x \in S, Cardinality(Ahead(S, f, x)) >= n
    PROVE  /\ Cardinality({i \in S : Cardinality(Ahead(S, f, i)) < n}) = n
           /\ \A j \in S : Cardinality(Ahead(S, f, j)) < n => f[j] > f[x]
<1> DEFINE count(i) == Cardinality(Ahead(S, f, i))
           highest == {i \in S : count(i) < n}
<1>1. \A i \in S : count(i) \in Nat
  BY AheadIsFinite
<1>2. \A i, j \in S : f[j] > f[i] => count(j) < count(i)
  BY HigherHasFewer
<1>3. \A i, j \in S : i = j \/ f[i] > f[j] \/ f[j] > f[i]
  OBVIOUS
<1>4. PICK k \in S : count(k) >= n /\ \A i \in S : count(i) >= n => count(k) <= count(i)
  <2> DEFINE counts == {count(i) : i \in {i \in S : count(i) >= n}}
  <2>1. counts \in SUBSET Nat /\ counts # {}
    BY <1>1
  <2>2. First(counts) \in counts /\ \A m \in counts : First(counts) <= m
    BY <2>1, FirstExists
  <2>3. PICK k \in S : count(k) >= n /\ First(counts) = count(k)
    BY <2>2
  <2> HIDE DEF count
  <2>4. \A i \in S : count(i) >= n => count(i) \in counts
    OBVIOUS
  <2> HIDE DEF counts
  <2> QED BY <2>2, <2>3, <2>4
<1>5. highest = Ahead(S, f, k)
  <2> SUFFICES ASSUME NEW i \in S PROVE count(i) < n <=> f[i] > f[k]
    BY DEF Ahead
  <2>1. f[i] > f[k] => count(i) < n
    BY <1>1, <1>2, <1>4
  <2>2. i = k \/ f[k] > f[i] => count(i) >= n
    BY <1>1, <1>2, <1>4
  <2> HIDE DEF count
  <2>3. f[k] \in Int /\ f[i] \in Int /\ count(i) \in Nat
    BY <1>1
  <2> QED BY <1>3, <2>1, <2>2, <2>3
<1>6. ~(count(k) > n)
  <2> SUFFICES ASSUME count(k) > n PROVE FALSE
    OBVIOUS
  <2>1. Ahead(S, f, k) # {}
    BY <1>1, FS_EmptySet
  <2>2. PICK l \in Ahead(S, f, k) : \A j \in Ahead(S, f, k) : count(j) <= count(l)
    <3> DEFINE gaps == {count(k) - count(j) : j \in Ahead(S, f, k)}
    <3>1. \A j \in Ahead(S, f, k) : count(j) \in Nat /\ count(j) < count(k)
      BY <1>1, <1>2 DEF Ahead
    <3>2. gaps \in SUBSET Nat /\ gaps # {}
      BY <1>1, <2>1, <3>1
    <3>3. First(gaps) \in gaps /\ \A m \in gaps : First(gaps) <= m
      BY <3>2, FirstExists
    <3>4. PICK l \in Ahead(S, f, k) : First(gaps) = count(k) - count(l)
      BY <3>3
    <3>5. \A j \in Ahead(S, f, k) : count(k) - count(l) <= count(k) - count(j)
      BY <3>3, <3>4
    <3> HIDE DEF count
    <3> QED BY <1>1, <3>1, <3>5
  <2>3. Ahead(S, f, k) \subseteq Ahead(S, f, l) \cup {l}
    <3> SUFFICES ASSUME NEW j \in Ahead(S, f, k), j # l PROVE f[j] > f[l]
      BY DEF Ahead
    <3>1. j \in S /\ l \in S /\ (f[l] > f[j] => count(l) < count(j)) /\ count(j) <= count(l)
      BY <1>2, <2>2 DEF Ahead
    <3>2. count(j) \in Nat /\ count(l) \in Nat
      BY <1>1, <3>1
    <3> QED BY <1>3, <3>1, <3>2
  <2>4. Ahead(S, f, k) \ {l} \in SUBSET Ahead(S, f, l)
    BY <2>3
  <2>5. Cardinality(Ahead(S, f, k) \ {l}) <= count(l)
    BY <2>4, AheadIsFinite, FS_Subset
  <2>6. Cardinality(Ahead(S, f, k) \ {l}) = count(k) - 1
    BY AheadIsFinite, FS_RemoveElement
  <2>7. count(l) < n /\ count(l) \in Nat
    BY <1>1, <1>5 DEF Ahead
  <2> HIDE DEF count
  <2> QED BY <1>1, <2>5, <2>6, <2>7
<1>7. count(k) = n
  BY <1>1, <1>4, <1>6
<1>8. ~(f[x] > f[k])
  <2>1. x \notin highest
    BY <1>1
  <2> QED BY <1>5, <2>1 DEF Ahead
<1>9. \A j \in Ahead(S, f, k) : f[j] > f[x]
  <2>1. f[x] \in Int /\ f[k] \in Int /\ \A j \in S : f[j] \in Int
    OBVIOUS
  <2> QED BY <1>8, <2>1 DEF Ahead
<1> HIDE DEF highest
<1>10. Cardinality(highest) = n /\ \A j \in highest : f[j] > f[x]
  BY <1>5, <1>7, <1>9
<1> QED BY <1>10 DEF highest

\* What is not among the last n of a list is before all of them, and they are n.
LEMMA LatestAreFull ==
    ASSUME NEW places \in SUBSET Nat, IsFiniteSet(places), NEW n \in Nat, NEW x \in places,
           x \notin Latest(places, n)
    PROVE  /\ Cardinality(Latest(places, n)) = n
           /\ \A j \in Latest(places, n) : j > x
<1> DEFINE f == [i \in places |-> i]
<1>1. \A i \in places : Ahead(places, f, i) = {j \in places : j > i}
  BY DEF Ahead
<1>2. Latest(places, n) = {i \in places : Cardinality(Ahead(places, f, i)) < n}
  BY <1>1 DEF Latest
<1>3. f \in [places -> Int] /\ \A i, j \in places : f[i] = f[j] => i = j
  OBVIOUS
<1>4. Cardinality(Ahead(places, f, x)) >= n
  BY <1>2, AheadIsFinite
<1>5. /\ Cardinality(Latest(places, n)) = n
      /\ \A j \in Latest(places, n) : f[j] > f[x]
  <2> HIDE DEF f
  <2>1. /\ Cardinality({i \in places : Cardinality(Ahead(places, f, i)) < n}) = n
        /\ \A j \in places : Cardinality(Ahead(places, f, j)) < n => f[j] > f[x]
    BY <1>3, <1>4, HighestAreFull
  <2> QED BY <1>2, <2>1
<1> QED BY <1>5 DEF Latest

\* What is not among the first n is behind all of them, and they are n.
LEMMA EarliestAreFull ==
    ASSUME NEW places \in SUBSET Nat, IsFiniteSet(places), NEW n \in Nat, NEW x \in places,
           x \notin Earliest(places, n)
    PROVE  /\ Cardinality(Earliest(places, n)) = n
           /\ \A j \in Earliest(places, n) : j < x
<1> DEFINE f == [i \in places |-> -i]
<1>1. \A i \in places : Ahead(places, f, i) = {j \in places : j < i}
  <2>1. \A i, j \in places : f[j] > f[i] <=> j < i
    OBVIOUS
  <2> QED BY <2>1 DEF Ahead
<1>2. Earliest(places, n) = {i \in places : Cardinality(Ahead(places, f, i)) < n}
  BY <1>1 DEF Earliest
<1>3. f \in [places -> Int] /\ \A i, j \in places : f[i] = f[j] => i = j
  OBVIOUS
<1>4. Cardinality(Ahead(places, f, x)) >= n
  BY <1>2, AheadIsFinite
<1>5. /\ Cardinality(Earliest(places, n)) = n
      /\ \A j \in Earliest(places, n) : f[j] > f[x]
  <2> HIDE DEF f
  <2>1. /\ Cardinality({i \in places : Cardinality(Ahead(places, f, i)) < n}) = n
        /\ \A j \in places : Cardinality(Ahead(places, f, j)) < n => f[j] > f[x]
    BY <1>3, <1>4, HighestAreFull
  <2> QED BY <1>2, <2>1
<1> QED BY <1>5 DEF Earliest

\* A page is of the list.
LEMMA PageIsPart ==
    ASSUME NEW places, NEW n
    PROVE  Latest(places, n) \subseteq places /\ Earliest(places, n) \subseteq places
BY DEF Latest, Earliest

\* Places of a list.
LEMMA PlacesAreFinite ==
    ASSUME NEW length \in Nat, NEW places \in SUBSET (1 .. length)
    PROVE  /\ places \in SUBSET Nat /\ 0 \notin places /\ IsFiniteSet(places)
           /\ Cardinality(places) \in Nat /\ Cardinality(places) <= length
<1>1. IsFiniteSet(1 .. length) /\ Cardinality(1 .. length) = length
  BY FS_Interval
<1>2. IsFiniteSet(places) /\ Cardinality(places) <= length
  BY <1>1, FS_Subset
<1>3. Cardinality(places) \in Nat
  BY <1>2, FS_CardinalityType
<1> QED BY <1>2, <1>3

------------------------------------------------------------------------------
(***************************************************************************)
(* The auth service                                                        *)
(***************************************************************************)

UsersType == users \in Seq(User) /\ Len(users) \in 0 .. MaxUsers

\* A request began when there were no more users than now.
CallsType ==
    /\ authCalls \in [AuthThreads -> AuthCall]
    /\ \A t \in AuthThreads : authCalls[t].size \in 0 .. Len(users)

\* Who is about to be inserted was not there when the iteration began.
InsertIsNew ==
    \A t \in AuthThreads : authCalls[t].at = "insert" =>
        UsersOf(authCalls[t].user.email, authCalls[t].size) = {}

\* What was granted is the first user of its email.
GrantedFits ==
    \A t \in AuthThreads : authCalls[t].at = "granted" =>
        /\ Known(authCalls[t].user.email)
        /\ users[FirstOf(authCalls[t].user.email, Len(users))] = authCalls[t].user

AuthInv == UsersType /\ CallsType /\ InsertIsNew /\ GrantedFits

LEMMA FirstOfIsFirst ==
    ASSUME NEW email, NEW size
    PROVE  FirstOf(email, size) = First(UsersOf(email, size))
BY DEF FirstOf, First

\* Whoever was inserted after an iteration began comes behind.
LEMMA FirstOfIteration ==
    ASSUME UsersType, NEW email, NEW size \in 0 .. Len(users), UsersOf(email, size) # {}
    PROVE  /\ Known(email)
           /\ FirstOf(email, Len(users)) = FirstOf(email, size)
           /\ FirstOf(email, size) \in 1 .. size
<1> DEFINE places == UsersOf(email, size)
           more == UsersOf(email, Len(users))
<1>1. /\ places \in SUBSET Nat /\ more \in SUBSET Nat /\ places \subseteq more
      /\ \A j \in more \ places : \A i \in places : i < j
      /\ places \subseteq 1 .. size
  BY DEF UsersType, UsersOf
<1>2. First(more) = First(places) /\ First(places) \in places
  BY <1>1, FirstStays, FirstExists
<1> QED BY <1>1, <1>2, FirstOfIsFirst DEF Known

\* A user inserted at the end leaves the first one of every email.
LEMMA InsertKeepsFirst ==
    ASSUME UsersType, NEW user \in User, users' = Append(users, user), NEW email, Known(email)
    PROVE  /\ Known(email)'
           /\ FirstOf(email, Len(users))' = FirstOf(email, Len(users))
           /\ FirstOf(email, Len(users)) \in 1 .. Len(users)
           /\ users'[FirstOf(email, Len(users))] = users[FirstOf(email, Len(users))]
<1> DEFINE n == Len(users)
           places == {i \in 1 .. n : users[i].email = email}
           more == {i \in 1 .. Len(users') : users'[i].email = email}
<1>1. /\ n \in Nat /\ Len(users') = n + 1
      /\ \A i \in 1 .. n : users'[i] = users[i]
  BY DEF UsersType
<1>2. /\ places = UsersOf(email, Len(users)) /\ more = UsersOf(email, Len(users))'
      /\ places # {}
  BY DEF UsersOf, Known
<1> HIDE DEF n
<1>3. /\ places \in SUBSET Nat /\ more \in SUBSET Nat /\ places \subseteq more
      /\ \A j \in more \ places : \A i \in places : i < j
      /\ places \subseteq 1 .. n
  BY <1>1
<1> HIDE DEF places, more
<1>4. First(more) = First(places) /\ First(places) \in places
  BY <1>2, <1>3, FirstStays, FirstExists
<1>5. /\ FirstOf(email, Len(users)) = First(places)
      /\ FirstOf(email, Len(users))' = First(more)
  BY <1>2 DEF FirstOf, First
<1>6. Known(email)'
  BY <1>2, <1>3 DEF Known
<1> QED BY <1>1, <1>3, <1>4, <1>5, <1>6 DEF n

-----------------------------------------------------------------------------
(***************************************************************************)
(* The invariant                                                           *)
(***************************************************************************)

LEMMA IdleCallType ==
    ASSUME UsersType
    PROVE  /\ NoAuthCall \in AuthCall /\ NoAuthCall.at = "idle"
           /\ NoAuthCall.size \in 0 .. Len(users)
<1>1. SomeUser \in User
  BY AuthAssumption DEF SomeUser, User
<1> QED BY <1>1, MaxUsersAssumption DEF NoAuthCall, AuthCall, UsersType

LEMMA AuthInitially == AuthInit => AuthInv
<1> SUFFICES ASSUME AuthInit PROVE AuthInv
  OBVIOUS
<1>1. UsersType
  BY MaxUsersAssumption DEF AuthInit, UsersType
<1>2. \A t \in AuthThreads : authCalls[t].at = "idle"
  BY DEF AuthInit, NoAuthCall
<1>3. CallsType
  BY <1>1, IdleCallType DEF AuthInit, CallsType
<1> QED BY <1>1, <1>2, <1>3 DEF AuthInv, InsertIsNew, GrantedFits

\* A step of thread t that leaves the users alone.
LEMMA CallStep ==
    ASSUME AuthInv, NEW t \in AuthThreads, NEW call \in AuthCall, UNCHANGED users,
           authCalls' = [authCalls EXCEPT ![t] = call],
           call.size \in 0 .. Len(users),
           call.at = "insert" => UsersOf(call.user.email, call.size) = {},
           call.at = "granted" =>
               /\ Known(call.user.email)
               /\ users[FirstOf(call.user.email, Len(users))] = call.user
    PROVE  AuthInv'
<1>1. /\ authCalls' \in [AuthThreads -> AuthCall]
      /\ authCalls'[t] = call
      /\ \A u \in AuthThreads \ {t} : authCalls'[u] = authCalls[u]
  BY DEF AuthInv, CallsType
<1>2. UsersType' /\ CallsType' /\ InsertIsNew'
  BY <1>1 DEF AuthInv, UsersType, CallsType, InsertIsNew, UsersOf
<1>3. ASSUME NEW u \in AuthThreads, authCalls'[u].at = "granted"
      PROVE  /\ Known(authCalls'[u].user.email)
             /\ users[FirstOf(authCalls'[u].user.email, Len(users))] = authCalls'[u].user
  BY <1>1, <1>3 DEF AuthInv, GrantedFits
<1>4. \A email : /\ Known(email)' <=> Known(email)
                 /\ FirstOf(email, Len(users))' = FirstOf(email, Len(users))
  BY DEF Known, FirstOf, UsersOf
<1>5. GrantedFits'
  BY <1>3, <1>4 DEF GrantedFits
<1> QED BY <1>2, <1>5 DEF AuthInv

LEMMA AnsweredInv ==
    ASSUME AuthInv, NEW t \in AuthThreads, Answered(t), UNCHANGED users
    PROVE  AuthInv'
BY CallStep, IdleCallType DEF Answered, AuthInv

LEMMA IterateInv ==
    ASSUME AuthInv, NEW t \in AuthThreads, NEW at \in {"register", "login"},
           NEW user \in User, Iterate(t, at, user)
    PROVE  AuthInv'
<1> DEFINE call == [at |-> at, user |-> user, size |-> Len(users)]
<1>1. /\ authCalls' = [authCalls EXCEPT ![t] = call] /\ UNCHANGED users
      /\ call \in AuthCall /\ call.size \in 0 .. Len(users) /\ call.at \notin {"granted", "insert"}
  BY MaxUsersAssumption DEF Iterate, AuthInv, UsersType, AuthCall
<1> HIDE DEF call
<1> QED BY <1>1, CallStep

LEMMA RegisterFreeInv ==
    ASSUME AuthInv, NEW t \in AuthThreads, RegisterFree(t)
    PROVE  AuthInv'
<1> DEFINE call == [authCalls[t] EXCEPT !.at = "insert"]
<1>1. authCalls' = [authCalls EXCEPT ![t] = call] /\ UNCHANGED users
  BY DEF RegisterFree, Goes
<1>2. /\ call \in AuthCall /\ call.at # "granted" /\ call.size \in 0 .. Len(users)
      /\ UsersOf(call.user.email, call.size) = {}
  BY DEF AuthInv, CallsType, RegisterFree, AuthCall, Known
<1> HIDE DEF call
<1> QED BY <1>1, <1>2, CallStep

LEMMA LoginAnswerInv ==
    ASSUME AuthInv, NEW t \in AuthThreads, LoginAnswer(t)
    PROVE  AuthInv'
<1>1. CASE ~Fits(t)
  BY <1>1, AnsweredInv DEF LoginAnswer
<1>2. CASE Fits(t)
  <2> DEFINE old == authCalls[t]
             call == [old EXCEPT !.at = "granted"]
  <2>1. authCalls' = [authCalls EXCEPT ![t] = call] /\ UNCHANGED users
    BY <1>2 DEF LoginAnswer, Goes
  <2>2. /\ UsersType /\ old \in AuthCall /\ old.user \in User /\ old.size \in 0 .. Len(users)
        /\ UsersOf(old.user.email, old.size) # {}
        /\ users[FirstOf(old.user.email, old.size)] = old.user
    BY <1>2 DEF AuthInv, CallsType, AuthCall, LoginAnswer, Fits
  <2>3. /\ call \in AuthCall /\ call.at = "granted"
        /\ call.user = old.user /\ call.size = old.size
    BY <2>2 DEF AuthCall
  <2> HIDE DEF call
  <2>4. Known(old.user.email) /\ users[FirstOf(old.user.email, Len(users))] = old.user
    BY <2>2, FirstOfIteration
  <2> QED BY <2>1, <2>2, <2>3, <2>4, CallStep
<1> QED BY <1>1, <1>2

LEMMA RegisterInsertInv ==
    ASSUME AuthInv, NEW t \in AuthThreads, RegisterInsert(t)
    PROVE  AuthInv'
<1> DEFINE user == authCalls[t].user
<1>1. /\ user \in User /\ UsersType /\ users' = Append(users, user)
      /\ Len(users) < MaxUsers
  BY DEF RegisterInsert, AuthInv, CallsType, AuthCall
<1>2. UsersType' /\ Len(users) \in Nat /\ Len(users') = Len(users) + 1
  BY <1>1, MaxUsersAssumption DEF UsersType
<1>3. /\ authCalls' \in [AuthThreads -> AuthCall]
      /\ authCalls'[t] = NoAuthCall /\ NoAuthCall.at = "idle"
      /\ NoAuthCall.size \in 0 .. Len(users)
      /\ \A u \in AuthThreads \ {t} : authCalls'[u] = authCalls[u]
  BY IdleCallType DEF RegisterInsert, Answered, AuthInv, CallsType
<1>4. CallsType'
  BY <1>2, <1>3 DEF AuthInv, CallsType
<1>7. InsertIsNew'
  <2>1. \A i \in 1 .. Len(users) : users'[i] = users[i]
    BY <1>1 DEF UsersType
  <2> QED BY <1>2, <1>3, <2>1 DEF AuthInv, CallsType, InsertIsNew, UsersOf
<1> HIDE DEF user
<1>5. ASSUME NEW u \in AuthThreads, authCalls'[u].at = "granted"
      PROVE  (Known(authCalls[u].user.email)
                /\ users[FirstOf(authCalls[u].user.email, Len(users))] = authCalls[u].user)'
  <2>1. authCalls'[u] = authCalls[u]
    BY <1>3, <1>5
  <2>2. /\ Known(authCalls[u].user.email)
        /\ users[FirstOf(authCalls[u].user.email, Len(users))] = authCalls[u].user
    BY <1>5, <2>1 DEF AuthInv, GrantedFits
  <2>3. PICK email : email = authCalls[u].user.email
    OBVIOUS
  <2>4. /\ Known(email)'
        /\ users'[FirstOf(email, Len(users))'] = authCalls[u].user
    BY <1>1, <2>2, <2>3, InsertKeepsFirst
  <2> QED BY <2>1, <2>3, <2>4
<1>6. GrantedFits'
  BY <1>5 DEF GrantedFits
<1> QED BY <1>2, <1>4, <1>6, <1>7 DEF AuthInv

LEMMA AuthInductive == AuthInv /\ [AuthNext]_authVars => AuthInv'
<1> SUFFICES ASSUME AuthInv, [AuthNext]_authVars
             PROVE  AuthInv'
  OBVIOUS
<1>1. CASE UNCHANGED authVars
  BY <1>1 DEF authVars, AuthInv, UsersType, CallsType, InsertIsNew, GrantedFits, Known, FirstOf, UsersOf
<1>2. ASSUME NEW t \in AuthThreads, Interrupted(t) \/ RegisterTaken(t)
      PROVE  AuthInv'
  BY <1>2, AnsweredInv DEF Interrupted, RegisterTaken
<1>3. ASSUME NEW t \in AuthThreads, NEW user \in User, Register(t, user) \/ Login(t, user)
      PROVE  AuthInv'
  BY <1>3, IterateInv DEF Register, Login
<1> QED BY <1>1, <1>2, <1>3, RegisterFreeInv, RegisterInsertInv, LoginAnswerInv DEF AuthNext

LEMMA AuthAlways == AuthSpec => []AuthInv
BY AuthInitially, AuthInductive, PTL DEF AuthSpec

LEMMA AuthTyped == AuthSpec => []AuthTypeOK
<1>1. ASSUME AuthInv PROVE AuthTypeOK
  <2>1. users \in Seq(User) /\ Len(users) <= MaxUsers
    BY <1>1, MaxUsersAssumption DEF AuthInv, UsersType
  <2> QED BY <1>1, <2>1 DEF AuthInv, CallsType, InsertIsNew, AuthTypeOK
<1> QED BY <1>1, AuthAlways, PTL

\* A login that was granted had the password of the user its email logs in as, then
\* and ever after, for any number of registrations that race (login).
THEOREM GrantedLoginsFit == AuthSpec => []GrantedToFirst
<1>1. AuthInv => GrantedToFirst
  BY DEF AuthInv, GrantedFits, GrantedToFirst
<1> QED BY <1>1, AuthAlways, PTL

\* No registration changes whom an email logs in as, once there is somebody, though
\* two of them may both find the email free (register).
THEOREM LoginsStand == AuthSpec => LoginStands
<1>1. ASSUME AuthInv, [AuthNext]_authVars, NEW email \in Emails, Known(email)
      PROVE  users'[FirstOf(email, Len(users))] = users[FirstOf(email, Len(users))]
  <2>1. CASE UNCHANGED users
    BY <2>1
  <2>2. CASE \E t \in AuthThreads : RegisterInsert(t)
    <3>1. PICK t \in AuthThreads : RegisterInsert(t)
      BY <2>2
    <3>2. /\ authCalls[t].user \in User /\ UsersType
          /\ users' = Append(users, authCalls[t].user)
      BY <1>1, <3>1 DEF RegisterInsert, AuthInv, CallsType, AuthCall
    <3> QED BY <1>1, <3>2, InsertKeepsFirst
  <2>3. UNCHANGED users \/ \E t \in AuthThreads : RegisterInsert(t)
    BY <1>1 DEF AuthNext, authVars, Register, Login, Iterate, Interrupted, RegisterTaken,
                RegisterFree, LoginAnswer
  <2> QED BY <2>1, <2>2, <2>3
<1>2. AuthInv /\ [AuthNext]_authVars =>
          [\A email \in Emails : Known(email) =>
              LET i == FirstOf(email, Len(users)) IN users'[i] = users[i]]_authVars
  BY <1>1
<1> QED BY <1>2, AuthAlways, PTL DEF AuthSpec, LoginStands

------------------------------------------------------------------------------
(***************************************************************************)
(* The memory service                                                      *)
(***************************************************************************)

\* What was stored before retrieval r was called and is the caller's own, is in
\* the packet or does not fit into it.
EpisodesShown(r) ==
    \A i \in 1 .. r.began.episodes : OwnEpisode(r.query, i) =>
        \/ i \in r.episodes
        \/ Cardinality(r.episodes) = r.query.max_results /\ \A j \in r.episodes : j > i

FactsShown(r) ==
    \A i \in 1 .. r.began.facts : OwnFact(r.query, i) =>
        \/ i \in r.facts
        \/ Cardinality(r.facts) = r.query.max_results /\ \A j \in r.facts : j < i

ProceduresShown(r) ==
    \A i \in 1 .. r.began.procedures : procedures[i] = r.query.org => i \in r.procedures

\* What a packet has so far is the caller's own, and what it has done with is
\* complete.
PacketInv(r) ==
    /\ r.began.episodes <= Len(episodes)
    /\ r.began.facts <= Len(knowledge)
    /\ r.began.procedures <= Len(procedures)
    /\ \A i \in r.episodes : i \in DOMAIN episodes /\ OwnEpisode(r.query, i)
    /\ \A i \in r.facts : i \in DOMAIN knowledge /\ OwnFact(r.query, i)
    /\ \A i \in r.procedures : i \in DOMAIN procedures /\ procedures[i] = r.query.org
    /\ \A entry \in r.working : entry.agent = r.query.agent
    /\ r.at \in {"facts", "procedures", "done"} => EpisodesShown(r)
    /\ r.at \in {"procedures", "done"} => FactsShown(r)
    /\ r.at = "done" => ProceduresShown(r)

MemoryInv == MemoryTypeOK /\ \A c \in Retrievals : PacketInv(retrievals[c])

LEMMA NoRetrievalInv ==
    ASSUME MemoryTypeOK
    PROVE  NoRetrieval \in Retrieval /\ PacketInv(NoRetrieval)
<1>1. (CHOOSE q \in Queries : TRUE) \in Query
  BY QueriesAssumption
<1>2. NoRetrieval \in Retrieval
  BY <1>1 DEF NoRetrieval, Retrieval
<1>3. Len(episodes) \in Nat /\ Len(knowledge) \in Nat /\ Len(procedures) \in Nat
  BY DEF MemoryTypeOK
<1> QED BY <1>2, <1>3 DEF PacketInv, NoRetrieval

LEMMA MemoryInitially == MemoryInit => MemoryInv
<1> SUFFICES ASSUME MemoryInit PROVE MemoryInv
  OBVIOUS
<1>1. (CHOOSE q \in Queries : TRUE) \in Query
  BY QueriesAssumption
<1>2. NoRetrieval \in Retrieval
  BY <1>1 DEF NoRetrieval, Retrieval
<1>3. MemoryTypeOK
  BY <1>2 DEF MemoryInit, MemoryTypeOK
<1> QED BY <1>3, NoRetrievalInv DEF MemoryInit, MemoryInv

\* What is appended to a list does not disturb a packet.
LEMMA ListsGrow ==
    ASSUME MemoryInv, MemoryTypeOK', UNCHANGED retrievals,
           Len(episodes) <= Len(episodes'), Len(knowledge) <= Len(knowledge'),
           Len(procedures) <= Len(procedures'),
           \A i \in DOMAIN episodes : episodes'[i] = episodes[i],
           \A i \in DOMAIN knowledge : knowledge'[i] = knowledge[i],
           \A i \in DOMAIN procedures : procedures'[i] = procedures[i]
    PROVE  MemoryInv'
<1> SUFFICES ASSUME NEW c \in Retrievals PROVE PacketInv(retrievals[c])'
  BY DEF MemoryInv
<1> DEFINE r == retrievals[c]
<1>1. /\ r \in Retrieval /\ r.query \in Query /\ PacketInv(r) /\ r' = r
      /\ r.began.episodes \in Nat /\ r.began.facts \in Nat /\ r.began.procedures \in Nat
  BY DEF MemoryInv, MemoryTypeOK, Retrieval
<1> HIDE DEF r
<1>2. /\ DOMAIN episodes = 1 .. Len(episodes) /\ DOMAIN episodes' = 1 .. Len(episodes')
      /\ DOMAIN knowledge = 1 .. Len(knowledge) /\ DOMAIN knowledge' = 1 .. Len(knowledge')
      /\ DOMAIN procedures = 1 .. Len(procedures)
      /\ DOMAIN procedures' = 1 .. Len(procedures')
      /\ Len(episodes) \in Nat /\ Len(knowledge) \in Nat /\ Len(procedures) \in Nat
      /\ Len(episodes') \in Nat /\ Len(knowledge') \in Nat /\ Len(procedures') \in Nat
  BY DEF MemoryInv, MemoryTypeOK
<1>3. /\ \A i \in DOMAIN episodes : i \in DOMAIN episodes'
                                    /\ (OwnEpisode(r.query, i)' <=> OwnEpisode(r.query, i))
      /\ \A i \in DOMAIN knowledge : i \in DOMAIN knowledge'
                                     /\ (OwnFact(r.query, i)' <=> OwnFact(r.query, i))
      /\ \A i \in DOMAIN procedures : i \in DOMAIN procedures'
  BY <1>1, <1>2 DEF OwnEpisode, OwnFact
<1>4. /\ 1 .. r.began.episodes \subseteq DOMAIN episodes
      /\ 1 .. r.began.facts \subseteq DOMAIN knowledge
      /\ 1 .. r.began.procedures \subseteq DOMAIN procedures
      /\ r.began.episodes <= Len(episodes') /\ r.began.facts <= Len(knowledge')
      /\ r.began.procedures <= Len(procedures')
  BY <1>1, <1>2 DEF PacketInv
<1>5. EpisodesShown(r) => EpisodesShown(r)'
  BY <1>1, <1>3, <1>4 DEF EpisodesShown
<1>6. FactsShown(r) => FactsShown(r)'
  BY <1>1, <1>3, <1>4 DEF FactsShown
<1>7. ProceduresShown(r) => ProceduresShown(r)'
  BY <1>1, <1>3, <1>4 DEF ProceduresShown
<1>8. PacketInv(r)'
  BY <1>1, <1>3, <1>4, <1>5, <1>6, <1>7 DEF PacketInv
<1> QED BY <1>8 DEF r

\* A retrieval that goes on leaves the stores and the other retrievals alone.
LEMMA RetrievalStep ==
    ASSUME MemoryInv, NEW c \in Retrievals, NEW r \in Retrieval, PacketInv(r),
           retrievals' = [retrievals EXCEPT ![c] = r], UNCHANGED stores
    PROVE  MemoryInv'
<1>1. /\ retrievals' \in [Retrievals -> Retrieval] /\ retrievals'[c] = r
      /\ \A d \in Retrievals \ {c} : retrievals'[d] = retrievals[d]
  BY DEF MemoryInv, MemoryTypeOK
<1>2. MemoryTypeOK'
  BY <1>1 DEF MemoryInv, MemoryTypeOK, stores
<1>3. ASSUME NEW d \in Retrievals PROVE PacketInv(retrievals'[d])
  BY <1>1 DEF MemoryInv
<1>4. ASSUME NEW d \in Retrievals PROVE PacketInv(retrievals[d])'
  BY <1>3 DEF PacketInv, EpisodesShown, FactsShown, ProceduresShown, OwnEpisode, OwnFact, stores
<1> QED BY <1>2, <1>4 DEF MemoryInv

LEMMA LiveIsFinite ==
    ASSUME MemoryTypeOK
    PROVE  Live \in SUBSET Nat /\ Cardinality(Live) \in Nat /\ 0 \notin Live
<1>1. Live \in SUBSET (1 .. Len(working)) /\ Len(working) \in Nat
  BY DEF Live, MemoryTypeOK
<1> QED BY <1>1, PlacesAreFinite

LEMMA RetrieveInv ==
    ASSUME MemoryInv, NEW c \in Retrievals, NEW query \in Queries, Retrieve(c, query)
    PROVE  MemoryInv'
<1>1. /\ Len(episodes) \in Nat /\ Len(knowledge) \in Nat /\ Len(procedures) \in Nat
      /\ MemoryTypeOK /\ query \in Query
  BY QueriesAssumption DEF MemoryInv, MemoryTypeOK
<1>2. Called(query) \in Retrieval
  BY <1>1, LiveIsFinite DEF Called, Retrieval
<1>3. PacketInv(Called(query))
  BY <1>1 DEF PacketInv, Called
<1> QED BY <1>2, <1>3, RetrievalStep DEF Retrieve

LEMMA WorkingNextInv ==
    ASSUME MemoryInv, NEW c \in Retrievals, WorkingNext(c)
    PROVE  MemoryInv'
<1> DEFINE r == retrievals[c]
           later == {i \in Live : i >= r.next}
<1>1. MemoryTypeOK /\ r \in Retrieval /\ PacketInv(r) /\ r.at = "working"
  BY DEF MemoryInv, MemoryTypeOK, WorkingNext
<1>2. later # {} => Min(later) \in Nat \ {0} /\ working[Min(later)] \in Entry
  <2>1. later \in SUBSET Nat /\ 0 \notin later
    BY <1>1, LiveIsFinite
  <2>2. \A i \in later : working[i] \in Entry
    BY <1>1 DEF MemoryTypeOK, Live
  <2> HIDE DEF later
  <2>3. later # {} => First(later) \in later
    BY <2>1, FirstExists
  <2>4. Min(later) = First(later)
    BY DEF Min, First
  <2> QED BY <2>1, <2>2, <2>3, <2>4
<1>3. PICK s : /\ retrievals' = [retrievals EXCEPT ![c] = s]
               /\ \/ s = NoRetrieval
                  \/ s = [r EXCEPT !.at = "episodes"]
                  \/ /\ later # {} /\ working[Min(later)].agent = r.query.agent
                     /\ s = [r EXCEPT !.at = "episodes", !.working = {working[Min(later)]}]
                  \/ later # {} /\ s = [r EXCEPT !.next = Min(later) + 1]
  BY DEF WorkingNext
<1>4. UNCHANGED stores
  BY DEF WorkingNext
<1> HIDE DEF r, later
<1>5. s \in Retrieval /\ PacketInv(s)
  <2>1. CASE s = NoRetrieval
    BY <1>1, <2>1, NoRetrievalInv
  <2>2. CASE s = [r EXCEPT !.at = "episodes"]
    BY <1>1, <2>2 DEF Retrieval, PacketInv
  <2>3. CASE /\ later # {}
             /\ s = [r EXCEPT !.at = "episodes", !.working = {working[Min(later)]}]
             /\ working[Min(later)].agent = r.query.agent
    BY <1>1, <1>2, <2>3 DEF Retrieval, PacketInv
  <2>4. CASE later # {} /\ s = [r EXCEPT !.next = Min(later) + 1]
    BY <1>1, <1>2, <2>4 DEF Retrieval, PacketInv
  <2> QED BY <1>3, <2>1, <2>2, <2>3, <2>4
<1> QED BY <1>3, <1>4, <1>5, RetrievalStep

LEMMA ReadEpisodesInv ==
    ASSUME MemoryInv, NEW c \in Retrievals, ReadEpisodes(c)
    PROVE  MemoryInv'
<1> DEFINE r == retrievals[c]
           own == {i \in DOMAIN episodes : OwnEpisode(r.query, i)}
           found == EpisodesOf(r.query)
           s == [r EXCEPT !.at = "facts", !.episodes = found]
<1>1. /\ r \in Retrieval /\ PacketInv(r) /\ r.query.max_results \in Nat /\ r.began.episodes \in Nat
      /\ DOMAIN episodes = 1 .. Len(episodes) /\ Len(episodes) \in Nat
  BY DEF MemoryInv, MemoryTypeOK, Retrieval, Query
<1>2. own \in SUBSET Nat /\ IsFiniteSet(own)
  <2> HIDE DEF r
  <2> QED BY <1>1, PlacesAreFinite
<1>3. found \subseteq own /\ found = Latest(own, r.query.max_results)
  BY PageIsPart DEF EpisodesOf
<1>4. \A i \in own \ found : /\ Cardinality(found) = r.query.max_results
                             /\ \A j \in found : j > i
  <2> HIDE DEF own, found, r
  <2> QED BY <1>1, <1>2, <1>3, LatestAreFull
<1>5. retrievals' = [retrievals EXCEPT ![c] = s] /\ UNCHANGED stores
  BY DEF ReadEpisodes
<1> HIDE DEF found
<1>6. /\ s \in Retrieval /\ s.at = "facts" /\ s.episodes = found /\ s.query = r.query
      /\ s.began = r.began /\ s.facts = r.facts /\ s.procedures = r.procedures
      /\ s.working = r.working
  <2>1. found \in SUBSET Nat
    BY <1>2, <1>3
  <2> HIDE DEF r
  <2> QED BY <1>1, <2>1 DEF Retrieval
<1>7. EpisodesShown(s)
  <2>1. \A i \in 1 .. r.began.episodes : OwnEpisode(r.query, i) => i \in own
    BY <1>1 DEF PacketInv
  <2> HIDE DEF r, own, s
  <2> QED BY <1>4, <1>6, <2>1 DEF EpisodesShown
<1>8. PacketInv(s)
  <2> HIDE DEF r, s
  <2> QED BY <1>1, <1>3, <1>6, <1>7 DEF PacketInv
<1> HIDE DEF s
<1> QED BY <1>5, <1>6, <1>8, RetrievalStep

LEMMA ReadFactsInv ==
    ASSUME MemoryInv, NEW c \in Retrievals, ReadFacts(c)
    PROVE  MemoryInv'
<1> DEFINE r == retrievals[c]
           own == {i \in DOMAIN knowledge : OwnFact(r.query, i)}
           found == Earliest(own, r.query.max_results)
           s == [r EXCEPT !.at = "procedures", !.facts = found]
<1>1. /\ r \in Retrieval /\ PacketInv(r) /\ r.query.max_results \in Nat /\ r.began.facts \in Nat
      /\ DOMAIN knowledge = 1 .. Len(knowledge) /\ Len(knowledge) \in Nat /\ r.at = "facts"
  BY DEF MemoryInv, MemoryTypeOK, Retrieval, Query, ReadFacts
<1>2. own \in SUBSET Nat /\ IsFiniteSet(own)
  <2> HIDE DEF r
  <2> QED BY <1>1, PlacesAreFinite
<1>3. found \subseteq own
  BY PageIsPart
<1>4. \A i \in own \ found : /\ Cardinality(found) = r.query.max_results
                             /\ \A j \in found : j < i
  BY <1>1, <1>2, EarliestAreFull
<1>5. retrievals' = [retrievals EXCEPT ![c] = s] /\ UNCHANGED stores
  BY DEF ReadFacts
<1> HIDE DEF found
<1>6. /\ s \in Retrieval /\ s.at = "procedures" /\ s.facts = found /\ s.query = r.query
      /\ s.began = r.began /\ s.episodes = r.episodes /\ s.procedures = r.procedures
      /\ s.working = r.working
  <2>1. found \in SUBSET Nat
    BY <1>2, <1>3
  <2> HIDE DEF r
  <2> QED BY <1>1, <2>1 DEF Retrieval
<1>7. FactsShown(s)
  <2>1. \A i \in 1 .. r.began.facts : OwnFact(r.query, i) => i \in own
    BY <1>1 DEF PacketInv
  <2> HIDE DEF r, own, s
  <2> QED BY <1>4, <1>6, <2>1 DEF FactsShown
<1>8. PacketInv(s)
  <2>1. EpisodesShown(s)
    BY <1>1, <1>6 DEF PacketInv, EpisodesShown
  <2> HIDE DEF r, s
  <2> QED BY <1>1, <1>3, <1>6, <1>7, <2>1 DEF PacketInv
<1> HIDE DEF s
<1> QED BY <1>5, <1>6, <1>8, RetrievalStep

LEMMA ReadProceduresInv ==
    ASSUME MemoryInv, NEW c \in Retrievals, ReadProcedures(c)
    PROVE  MemoryInv'
<1> DEFINE r == retrievals[c]
           found == {i \in DOMAIN procedures : procedures[i] = r.query.org}
           s == [r EXCEPT !.at = "done", !.procedures = found]
<1>1. /\ r \in Retrieval /\ PacketInv(r) /\ r.began.procedures \in Nat /\ r.at = "procedures"
      /\ DOMAIN procedures = 1 .. Len(procedures) /\ Len(procedures) \in Nat
  BY DEF MemoryInv, MemoryTypeOK, Retrieval, ReadProcedures
<1>2. found \in SUBSET Nat
  BY <1>1
<1>3. retrievals' = [retrievals EXCEPT ![c] = s] /\ UNCHANGED stores
  BY DEF ReadProcedures
<1>4. \A i \in 1 .. r.began.procedures : procedures[i] = r.query.org => i \in found
  BY <1>1 DEF PacketInv
<1>5. \A i \in found : i \in DOMAIN procedures /\ procedures[i] = r.query.org
  OBVIOUS
<1> HIDE DEF found, r
<1>6. /\ s \in Retrieval /\ s.at = "done" /\ s.procedures = found /\ s.query = r.query
      /\ s.began = r.began /\ s.episodes = r.episodes /\ s.facts = r.facts
      /\ s.working = r.working
  BY <1>1, <1>2 DEF Retrieval
<1> HIDE DEF s
<1>7. EpisodesShown(s) /\ FactsShown(s) /\ ProceduresShown(s)
  BY <1>1, <1>4, <1>6 DEF PacketInv, EpisodesShown, FactsShown, ProceduresShown
<1>8. PacketInv(s)
  BY <1>1, <1>5, <1>6, <1>7 DEF PacketInv
<1> QED BY <1>3, <1>6, <1>8, RetrievalStep DEF r

LEMMA MemoryInductive == MemoryInv /\ [MemoryNext]_memoryVars => MemoryInv'
<1> SUFFICES ASSUME MemoryInv, [MemoryNext]_memoryVars
             PROVE  MemoryInv'
  OBVIOUS
<1>0. /\ working \in Seq(Entry) /\ episodes \in Seq(Episode)
      /\ knowledge \in Seq(Fact) /\ procedures \in Seq(Orgs)
      /\ retrievals \in [Retrievals -> Retrieval]
  BY DEF MemoryInv, MemoryTypeOK
<1>1. CASE UNCHANGED memoryVars
  BY <1>0, <1>1, ListsGrow DEF memoryVars, MemoryTypeOK
<1>2. ASSUME NEW session \in Sessions, NEW agent \in Agents, NEW org \in Orgs,
             Upsert(session, agent, org)
      PROVE  MemoryInv'
  <2> DEFINE entry == [session |-> session, agent |-> agent, org |-> org, live |-> TRUE]
  <2>1. entry \in Entry
    BY DEF Entry
  <2>2. \/ \E i \in PlaceOf(session) : working' = [working EXCEPT ![i] = entry]
        \/ working' = Append(working, entry)
    BY <1>2 DEF Upsert
  <2> HIDE DEF entry
  <2>3. working' \in Seq(Entry)
    <3>1. CASE \E i \in PlaceOf(session) : working' = [working EXCEPT ![i] = entry]
      BY <1>0, <2>1, <3>1 DEF PlaceOf, Live
    <3>2. CASE working' = Append(working, entry)
      BY <1>0, <2>1, <3>2
    <3> QED BY <2>2, <3>1, <3>2
  <2> QED BY <1>0, <1>2, <2>3, ListsGrow DEF Upsert, MemoryTypeOK
<1>3. ASSUME NEW session \in Sessions, Clear(session)
      PROVE  MemoryInv'
  <2>1. PICK i \in PlaceOf(session) : working' = [working EXCEPT ![i].live = FALSE]
    BY <1>3 DEF Clear
  <2>2. i \in DOMAIN working /\ working[i] \in Entry
    BY <1>0 DEF PlaceOf, Live
  <2>3. [working[i] EXCEPT !.live = FALSE] \in Entry
    BY <2>2 DEF Entry
  <2>4. working' \in Seq(Entry)
    BY <1>0, <2>1, <2>2, <2>3
  <2> QED BY <1>0, <1>3, <2>4, ListsGrow DEF Clear, MemoryTypeOK
<1>4. ASSUME NEW e \in Episode, StoreEpisode(e)
      PROVE  MemoryInv'
  BY <1>0, <1>4, ListsGrow DEF StoreEpisode, MemoryTypeOK
<1>5. ASSUME NEW f \in Fact, StoreKnowledge(f)
      PROVE  MemoryInv'
  BY <1>0, <1>5, ListsGrow DEF StoreKnowledge, MemoryTypeOK
<1>6. ASSUME NEW o \in Orgs, StoreProcedure(o)
      PROVE  MemoryInv'
  BY <1>0, <1>6, ListsGrow DEF StoreProcedure, MemoryTypeOK
<1> QED BY <1>1, <1>2, <1>3, <1>4, <1>5, <1>6, RetrieveInv, WorkingNextInv, ReadEpisodesInv,
           ReadFactsInv, ReadProceduresInv DEF MemoryNext

LEMMA MemoryAlways == MemorySpec => []MemoryInv
BY MemoryInitially, MemoryInductive, PTL DEF MemorySpec

\* A packet's episodes are of its agent and organization, its facts and procedures
\* of the organization and its session of the agent, whatever is stored, replaced
\* and cleared while it is assembled (retrieve_context).
THEOREM PacketsAreOwn == MemorySpec => []PacketIsOwn
<1>1. MemoryInv => PacketIsOwn
  <2> SUFFICES ASSUME MemoryInv, NEW c \in Retrievals
               PROVE  LET r == retrievals[c]
                      IN  /\ \A i \in r.episodes : episodes[i].agent = r.query.agent
                                                    /\ episodes[i].org = r.query.org
                          /\ \A i \in r.facts : knowledge[i].org = r.query.org
                          /\ \A i \in r.procedures : procedures[i] = r.query.org
                          /\ \A entry \in r.working : entry.agent = r.query.agent
    BY DEF PacketIsOwn
  <2>1. PacketInv(retrievals[c])
    BY DEF MemoryInv
  <2> QED BY <2>1 DEF PacketInv, OwnEpisode, OwnFact
<1> QED BY <1>1, MemoryAlways, PTL

\* A packet holds all that was stored before it was asked for, up to the last
\* episodes and the first facts that fit into it (retrieve_context).
THEOREM PacketsAreComplete == MemorySpec => []PacketIsComplete
<1>1. MemoryInv => PacketIsComplete
  BY DEF MemoryInv, PacketInv, PacketIsComplete, EpisodesShown, FactsShown, ProceduresShown
<1> QED BY <1>1, MemoryAlways, PTL

------------------------------------------------------------------------------
(***************************************************************************)
(* The notification service                                                *)
(***************************************************************************)

\* The list holds the senders, and the dict those that were answered.
SendersStored ==
    /\ \A i \in DOMAIN sentList : notifyCalls[sentList[i]].at \in {"appended", "sent"}
    /\ \A t \in NotifyThreads : notifyCalls[t].at \in {"appended", "sent"} =>
           \E i \in DOMAIN sentList : sentList[i] = t
    /\ SentBy \subseteq byId

\* Notification "id" is on the page of a call, or before a full one.
ShownTo(call, id) ==
    \E i \in DOMAIN sentList :
        /\ sentList[i] = id
        /\ \/ i \in call.page
           \/ Cardinality(call.page) = call.limit /\ \A later \in call.page : later > i

\* A page is of what the call asked for, and lost nothing that was answered.
PageInv(call) ==
    /\ call.page \subseteq DOMAIN sentList
    /\ call.before \subseteq SentBy
    /\ call.at = "missing" => \A i \in call.page : sentList[i] \notin call.before
    /\ call.at \in {"paged", "listed"} =>
          /\ call.total >= Cardinality(call.page)
          /\ call.org # EveryOrg =>
                \A i \in call.page : notifyCalls[sentList[i]].org = call.org
          /\ \A id \in call.before :
                call.org \in {EveryOrg, notifyCalls[id].org} => ShownTo(call, id)

NotifyInv ==
    /\ NotifyTypeOK
    /\ SendersStored
    /\ \A t \in NotifyThreads : PageInv(notifyCalls[t])

LEMMA NotifyInitially == NotifyInit => NotifyInv
<1> SUFFICES ASSUME NotifyInit PROVE NotifyInv
  OBVIOUS
<1>1. NotifyTypeOK
  BY DEF NotifyInit, NotifyTypeOK, NotifyCall
<1>2. SendersStored
  BY DEF NotifyInit, SendersStored, SentBy
<1>3. \A t \in NotifyThreads : PageInv(notifyCalls[t])
  BY DEF NotifyInit, PageInv
<1> QED BY <1>1, <1>2, <1>3 DEF NotifyInv

\* What a step of one thread leaves to the others: the list grows at its end, and
\* whoever is in it keeps its organization.
SendersKept ==
    /\ \A i \in DOMAIN sentList :
           /\ i \in DOMAIN sentList' /\ sentList'[i] = sentList[i]
           /\ notifyCalls'[sentList[i]].org = notifyCalls[sentList[i]].org
    /\ \A id \in SentBy : notifyCalls'[id].at = "sent"
                          /\ notifyCalls'[id].org = notifyCalls[id].org

LEMMA PageKept ==
    ASSUME SendersKept, NEW call, PageInv(call)
    PROVE  PageInv(call)'
<1>1. call.page \subseteq DOMAIN sentList /\ call.before \subseteq SentBy
  BY DEF PageInv
<1>2. call.page \subseteq DOMAIN sentList' /\ call.before \subseteq SentBy'
  BY <1>1 DEF SendersKept, SentBy
<1>3. \A i \in call.page : /\ sentList'[i] = sentList[i]
                           /\ notifyCalls'[sentList[i]].org = notifyCalls[sentList[i]].org
  BY <1>1 DEF SendersKept
<1>4. \A id \in call.before : notifyCalls'[id].org = notifyCalls[id].org
  BY <1>1 DEF SendersKept
<1>5. \A id : ShownTo(call, id) => ShownTo(call, id)'
  BY DEF SendersKept, ShownTo
<1> QED BY <1>2, <1>3, <1>4, <1>5 DEF PageInv

\* A step of thread t, which is not in the list or stays in it.
LEMMA NotificationStep ==
    ASSUME NotifyInv, NEW t \in NotifyThreads, NEW call \in NotifyCall,
           notifyCalls' = [notifyCalls EXCEPT ![t] = call],
           sentList' \in Seq(NotifyThreads), byId' \in SUBSET NotifyThreads,
           \A i \in DOMAIN sentList : i \in DOMAIN sentList' /\ sentList'[i] = sentList[i],
           notifyCalls[t].at \in {"appended", "sent"} => call.org = notifyCalls[t].org,
           notifyCalls[t].at = "sent" => call.at = "sent",
           SendersStored', PageInv(call)
    PROVE  NotifyInv'
<1>1. /\ notifyCalls' \in [NotifyThreads -> NotifyCall] /\ notifyCalls'[t] = call
      /\ \A u \in NotifyThreads \ {t} : notifyCalls'[u] = notifyCalls[u]
      /\ \A i \in DOMAIN sentList : sentList[i] \in NotifyThreads
  BY DEF NotifyInv, NotifyTypeOK
<1>2. SendersKept
  BY <1>1 DEF SendersKept, NotifyInv, SendersStored, SentBy
<1>3. ASSUME NEW u \in NotifyThreads PROVE PageInv(notifyCalls'[u])
  BY <1>1 DEF NotifyInv
<1>4. ASSUME NEW u \in NotifyThreads PROVE PageInv(notifyCalls[u])'
  <2>1. PICK other : other = notifyCalls'[u]
    OBVIOUS
  <2>2. PageInv(other)'
    BY <1>2, <1>3, <2>1, PageKept
  <2> QED BY <2>1, <2>2
<1> QED BY <1>1, <1>4 DEF NotifyInv, NotifyTypeOK

\* A call that sends nothing.
LEMMA ReadStep ==
    ASSUME NotifyInv, NEW t \in NotifyThreads, NEW call \in NotifyCall,
           notifyCalls' = [notifyCalls EXCEPT ![t] = call], UNCHANGED <<sentList, byId>>,
           notifyCalls[t].at \notin {"appended", "sent"}, call.at \notin {"appended", "sent"},
           PageInv(call)
    PROVE  NotifyInv'
<1>1. /\ notifyCalls'[t] = call
      /\ \A u \in NotifyThreads \ {t} : notifyCalls'[u] = notifyCalls[u]
      /\ \A i \in DOMAIN sentList : sentList[i] \in NotifyThreads
      /\ sentList \in Seq(NotifyThreads) /\ byId \in SUBSET NotifyThreads
  BY DEF NotifyInv, NotifyTypeOK
<1>2. SendersStored'
  BY <1>1 DEF NotifyInv, SendersStored, SentBy
<1> QED BY <1>1, <1>2, NotificationStep

LEMMA SendRefusedInv ==
    ASSUME NotifyInv, NEW t \in NotifyThreads, SendRefused(t)
    PROVE  NotifyInv'
<1> DEFINE old == notifyCalls[t]
           call == [old EXCEPT !.at = "refused"]
<1>1. /\ old \in NotifyCall /\ old.at = "new" /\ PageInv(old)
      /\ notifyCalls' = [notifyCalls EXCEPT ![t] = call] /\ UNCHANGED <<sentList, byId>>
  BY DEF SendRefused, NotifyMove, NotifyInv, NotifyTypeOK
<1> HIDE DEF old
<1>2. call \in NotifyCall /\ PageInv(call) /\ call.at = "refused"
  BY <1>1 DEF NotifyCall, PageInv
<1> HIDE DEF call
<1> QED BY <1>1, <1>2, ReadStep DEF old

LEMMA SendAppendInv ==
    ASSUME NotifyInv, NEW t \in NotifyThreads, NEW org \in NotifyOrgs \cup {EveryOrg},
           SendAppend(t, org)
    PROVE  NotifyInv'
<1> DEFINE old == notifyCalls[t]
           call == [old EXCEPT !.at = "appended", !.org = org]
<1>1. /\ old \in NotifyCall /\ old.at = "new" /\ PageInv(old)
      /\ notifyCalls' = [notifyCalls EXCEPT ![t] = call]
      /\ sentList' = Append(sentList, t) /\ byId' = byId
      /\ sentList \in Seq(NotifyThreads) /\ byId \in SUBSET NotifyThreads
      /\ notifyCalls \in [NotifyThreads -> NotifyCall]
  BY DEF SendAppend, NotifyInv, NotifyTypeOK
<1>2. /\ sentList' \in Seq(NotifyThreads)
      /\ \A i \in DOMAIN sentList : i \in DOMAIN sentList' /\ sentList'[i] = sentList[i]
      /\ \A i \in DOMAIN sentList' : i \in DOMAIN sentList \/ sentList'[i] = t
      /\ \E i \in DOMAIN sentList' : sentList'[i] = t
  <2>1. Len(sentList) + 1 \in DOMAIN sentList' /\ sentList'[Len(sentList) + 1] = t
    BY <1>1
  <2> QED BY <1>1, <2>1
<1> HIDE DEF old
<1>3. call \in NotifyCall /\ PageInv(call) /\ call.at = "appended"
  BY <1>1 DEF NotifyCall, PageInv
<1> HIDE DEF call
<1>4. /\ notifyCalls'[t] = call
      /\ \A u \in NotifyThreads \ {t} : notifyCalls'[u] = notifyCalls[u]
      /\ \A i \in DOMAIN sentList : sentList[i] \in NotifyThreads
  BY <1>1
<1>5. SendersStored'
  <2>1. \A i \in DOMAIN sentList' : notifyCalls'[sentList'[i]].at \in {"appended", "sent"}
    BY <1>2, <1>3, <1>4 DEF NotifyInv, SendersStored
  <2>2. \A u \in NotifyThreads : notifyCalls'[u].at \in {"appended", "sent"} =>
            \E i \in DOMAIN sentList' : sentList'[i] = u
    BY <1>2, <1>4 DEF NotifyInv, SendersStored
  <2>3. SentBy' \subseteq byId'
    BY <1>1, <1>3, <1>4 DEF NotifyInv, SendersStored, SentBy
  <2> QED BY <2>1, <2>2, <2>3 DEF SendersStored
<1> QED BY <1>1, <1>2, <1>3, <1>5, NotificationStep DEF old

LEMMA SendInsertInv ==
    ASSUME NotifyInv, NEW t \in NotifyThreads, SendInsert(t)
    PROVE  NotifyInv'
<1> DEFINE old == notifyCalls[t]
           call == [old EXCEPT !.at = "sent"]
<1>1. /\ old \in NotifyCall /\ old.at = "appended" /\ PageInv(old)
      /\ notifyCalls' = [notifyCalls EXCEPT ![t] = call]
      /\ sentList' = sentList /\ byId' = byId \cup {t}
      /\ sentList \in Seq(NotifyThreads) /\ byId \in SUBSET NotifyThreads
      /\ notifyCalls \in [NotifyThreads -> NotifyCall]
  BY DEF SendInsert, NotifyMove, NotifyInv, NotifyTypeOK
<1> HIDE DEF old
<1>2. call \in NotifyCall /\ PageInv(call) /\ call.at = "sent" /\ call.org = old.org
  BY <1>1 DEF NotifyCall, PageInv
<1> HIDE DEF call
<1>3. /\ notifyCalls'[t] = call
      /\ \A u \in NotifyThreads \ {t} : notifyCalls'[u] = notifyCalls[u]
      /\ \A i \in DOMAIN sentList : sentList[i] \in NotifyThreads
  BY <1>1
<1>4. SendersStored'
  BY <1>1, <1>2, <1>3 DEF NotifyInv, SendersStored, SentBy, old
<1> QED BY <1>1, <1>2, <1>4, NotificationStep DEF old

LEMMA ListPageInv ==
    ASSUME NotifyInv, NEW t \in NotifyThreads, NEW org \in NotifyOrgs \cup {EveryOrg},
           NEW limit \in PageLimits, ListPage(t, org, limit)
    PROVE  NotifyInv'
<1> DEFINE own == Matching(org)
           page == Latest(own, limit)
           call == [at |-> "paged", org |-> org, limit |-> limit, before |-> SentBy,
                    page |-> page, total |-> Cardinality(own)]
<1>1. /\ notifyCalls[t].at = "new" /\ limit \in Nat
      /\ sentList \in Seq(NotifyThreads) /\ SendersStored /\ NotifyTypeOK
      /\ DOMAIN sentList = 1 .. Len(sentList) /\ Len(sentList) \in Nat
  BY NotifyAssumption DEF ListPage, NotifyInv, NotifyTypeOK
<1>2. own \in SUBSET (1 .. Len(sentList))
  BY <1>1 DEF Matching
<1>3. own \in SUBSET Nat /\ IsFiniteSet(own) /\ Cardinality(own) \in Nat
  <2> HIDE DEF own
  <2> QED BY <1>1, <1>2, PlacesAreFinite
<1>4. page \in SUBSET own
  BY PageIsPart
<1>5. Cardinality(page) <= Cardinality(own)
  <2> HIDE DEF own, page
  <2> QED BY <1>3, <1>4, FS_Subset
<1>6. \A i \in own \ page : Cardinality(page) = limit /\ \A j \in page : j > i
  <2> HIDE DEF own
  <2> QED BY <1>1, <1>3, LatestAreFull
<1>7. notifyCalls' = [notifyCalls EXCEPT ![t] = call] /\ UNCHANGED <<sentList, byId>>
  BY DEF ListPage
<1>8. \A i \in own : org # EveryOrg => notifyCalls[sentList[i]].org = org
  BY DEF Matching
<1>9. ASSUME NEW id \in SentBy, org \in {EveryOrg, notifyCalls[id].org}
      PROVE  \E i \in own : sentList[i] = id
  BY <1>1, <1>9 DEF SendersStored, SentBy, Matching
<1> HIDE DEF own, page
<1>10. call \in NotifyCall
  BY <1>1, <1>3, <1>4 DEF NotifyCall, SentBy
<1>11. /\ call.at = "paged" /\ call.page = page /\ call.limit = limit /\ call.org = org
       /\ call.before = SentBy /\ call.total = Cardinality(own)
  OBVIOUS
<1> HIDE DEF call
<1>12. ASSUME NEW id \in call.before, call.org \in {EveryOrg, notifyCalls[id].org}
       PROVE  ShownTo(call, id)
  <2>1. PICK i \in own : sentList[i] = id
    BY <1>9, <1>11, <1>12
  <2> QED BY <1>1, <1>2, <1>6, <1>11, <2>1 DEF ShownTo
<1>13. PageInv(call)
  <2>1. call.page \subseteq DOMAIN sentList
    BY <1>1, <1>2, <1>4, <1>11
  <2>2. call.total >= Cardinality(call.page)
    BY <1>3, <1>4, <1>5, <1>11, FS_Subset, FS_CardinalityType
  <2>3. call.org # EveryOrg => \A i \in call.page : notifyCalls[sentList[i]].org = call.org
    BY <1>4, <1>8, <1>11
  <2> QED BY <1>11, <1>12, <2>1, <2>2, <2>3 DEF PageInv
<1> QED BY <1>1, <1>7, <1>10, <1>11, <1>13, ReadStep

LEMMA ListTotalInv ==
    ASSUME NotifyInv, NEW t \in NotifyThreads, ListTotal(t)
    PROVE  NotifyInv'
<1> DEFINE old == notifyCalls[t]
           total == IF old.org = EveryOrg THEN Len(sentList) ELSE old.total
           call == [old EXCEPT !.at = "listed", !.total = total]
<1>0. /\ notifyCalls' = [notifyCalls EXCEPT ![t].at = "listed", ![t].total = total]
      /\ notifyCalls \in [NotifyThreads -> NotifyCall] /\ UNCHANGED <<sentList, byId>>
  BY DEF ListTotal, NotifyInv, NotifyTypeOK
<1>1. /\ old \in NotifyCall /\ old.at = "paged" /\ PageInv(old)
      /\ notifyCalls' = [notifyCalls EXCEPT ![t] = call] /\ UNCHANGED <<sentList, byId>>
      /\ DOMAIN sentList = 1 .. Len(sentList) /\ Len(sentList) \in Nat
  <2>1. /\ old.at = "paged" /\ PageInv(old)
        /\ DOMAIN sentList = 1 .. Len(sentList) /\ Len(sentList) \in Nat
    BY DEF ListTotal, NotifyInv, NotifyTypeOK
  <2> HIDE DEF total
  <2>2. notifyCalls' = [notifyCalls EXCEPT ![t] = call]
    BY <1>0
  <2> QED BY <1>0, <2>1, <2>2
<1> HIDE DEF old
<1>2. total \in Nat /\ total >= Cardinality(old.page)
  <2>1. old.page \in SUBSET (1 .. Len(sentList)) /\ old.total >= Cardinality(old.page)
        /\ old.total \in Nat
    BY <1>1 DEF PageInv, NotifyCall
  <2>2. Cardinality(old.page) <= Len(sentList) /\ Cardinality(old.page) \in Nat
    BY <1>1, <2>1, PlacesAreFinite
  <2> QED BY <1>1, <2>1, <2>2
<1> HIDE DEF total
<1>3. /\ call \in NotifyCall /\ call.at = "listed" /\ call.total = total
      /\ call.page = old.page /\ call.org = old.org /\ call.before = old.before
      /\ call.limit = old.limit
  BY <1>1, <1>2 DEF NotifyCall
<1> HIDE DEF call
<1>4. \A id : ShownTo(old, id) => ShownTo(call, id)
  BY <1>3 DEF ShownTo
<1>5. PageInv(call)
  BY <1>1, <1>2, <1>3, <1>4 DEF PageInv
<1> QED BY <1>1, <1>3, <1>5, ReadStep DEF old

LEMMA LookupInv ==
    ASSUME NotifyInv, NEW t \in NotifyThreads, NEW i \in DOMAIN sentList, Lookup(t, i)
    PROVE  NotifyInv'
<1> DEFINE old == notifyCalls[t]
           at == IF sentList[i] \in byId THEN "found" ELSE "missing"
           call == [old EXCEPT !.at = at, !.page = {i}, !.before = SentBy]
<1>0. /\ notifyCalls' = [notifyCalls EXCEPT ![t].at = at, ![t].page = {i},
                                             ![t].before = SentBy]
      /\ notifyCalls \in [NotifyThreads -> NotifyCall] /\ UNCHANGED <<sentList, byId>>
      /\ sentList \in Seq(NotifyThreads)
  BY DEF Lookup, NotifyInv, NotifyTypeOK
<1>1. /\ old \in NotifyCall /\ old.at = "new" /\ SentBy \subseteq byId
      /\ notifyCalls' = [notifyCalls EXCEPT ![t] = call] /\ UNCHANGED <<sentList, byId>>
      /\ i \in Nat
  <2>1. old.at = "new" /\ SentBy \subseteq byId
    BY DEF Lookup, NotifyInv, SendersStored
  <2> HIDE DEF at
  <2>2. notifyCalls' = [notifyCalls EXCEPT ![t] = call]
    BY <1>0
  <2>3. i \in Nat /\ old \in NotifyCall
    <3>1. DOMAIN sentList = 1 .. Len(sentList)
      BY <1>0
    <3> QED BY <1>0, <3>1
  <2> HIDE DEF call
  <2> QED BY <1>0, <2>1, <2>2, <2>3
<1>2. at \in {"found", "missing"} /\ (at = "missing" => sentList[i] \notin SentBy)
  BY <1>1
<1> HIDE DEF old, at
<1>3. /\ call \in NotifyCall /\ call.at = at /\ call.page = {i} /\ call.before = SentBy
  BY <1>1, <1>2 DEF NotifyCall, SentBy
<1> HIDE DEF call
<1>4. PageInv(call)
  BY <1>2, <1>3 DEF PageInv
<1> QED BY <1>1, <1>2, <1>3, <1>4, ReadStep DEF old

LEMMA NotifyInductive == NotifyInv /\ [NotifyNext]_notifyVars => NotifyInv'
<1> SUFFICES ASSUME NotifyInv, [NotifyNext]_notifyVars
             PROVE  NotifyInv'
  OBVIOUS
<1>1. CASE UNCHANGED notifyVars
  BY <1>1 DEF notifyVars, NotifyInv, NotifyTypeOK, SendersStored, SentBy, PageInv, ShownTo
<1>2. CASE NotifyNext
  BY <1>2, SendAppendInv, ListPageInv, LookupInv, SendRefusedInv, SendInsertInv, ListTotalInv
     DEF NotifyNext
<1> QED BY <1>1, <1>2

LEMMA NotifyAlways == NotifySpec => []NotifyInv
BY NotifyInitially, NotifyInductive, PTL DEF NotifySpec

\* What was sent before a call came is found by it, or pushed off its page by
\* later ones, although a send writes a list and a dict one after the other
\* (unified_send, list_notifications, get_notification).
THEOREM AnsweredAreShown == NotifySpec => []AnsweredIsShown
<1>1. NotifyInv => AnsweredIsShown
  <2> SUFFICES ASSUME NotifyInv, NEW t \in NotifyThreads
               PROVE  LET call == notifyCalls[t]
                      IN  /\ call.at = "missing" => \A i \in call.page : sentList[i] \notin call.before
                          /\ call.at = "listed" =>
                                /\ call.total >= Cardinality(call.page)
                                /\ call.org # EveryOrg =>
                                      \A i \in call.page : notifyCalls[sentList[i]].org = call.org
                                /\ \A id \in call.before :
                                      call.org \in {EveryOrg, notifyCalls[id].org} =>
                                          ShownTo(call, id)
    BY DEF AnsweredIsShown, ShownTo
  <2> QED BY DEF NotifyInv, PageInv
<1> QED BY <1>1, NotifyAlways, PTL

==============================================================================
