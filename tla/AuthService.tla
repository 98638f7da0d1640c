---------------------------- MODULE AuthService ----------------------------
(***************************************************************************)
(* The users of the auth service.  register and login run on worker        *)
(* threads and look for the email by iterating over _users, which only     *)
(* grows: the iteration raises when a user was inserted since it began.    *)
(* The token, a stub that is kept nowhere, is left out.                    *)
(***************************************************************************)
EXTENDS Naturals, Sequences

CONSTANTS
    Emails, Passwords,
    AuthThreads,   \* worker threads
    MaxUsers       \* bound on _users

ASSUME AuthAssumption     == Emails # {} /\ Passwords # {}
ASSUME MaxUsersAssumption == MaxUsers \in Nat

VARIABLES
    users,       \* _users, in the order of their insertion
    authCalls    \* what each thread runs, or the login it has granted last

authVars == <<users, authCalls>>

User == [email : Emails, password : Passwords]

\* "size" is that of _users when the iteration began.
AuthCall ==
    [at   : {"idle", "register", "insert", "login", "granted"},
     user : User,
     size : 0 .. MaxUsers]

SomeUser == [email |-> CHOOSE e \in Emails : TRUE,
           password |-> CHOOSE p \in Passwords : TRUE]

NoAuthCall == [at |-> "idle", user |-> SomeUser, size |-> 0]

AuthInit ==
    /\ users = <<>>
    /\ authCalls = [t \in AuthThreads |-> NoAuthCall]

---------------------------------------------------------------------------

\* The users of an email, by their place.
UsersOf(email, size) == {i \in 1 .. size : users[i].email = email}

Known(email) == UsersOf(email, Len(users)) # {}

\* The user the iteration of login comes to first.
FirstOf(email, size) ==
    CHOOSE i \in UsersOf(email, size) :
        \A j \in UsersOf(email, size) : i <= j

\* A thread takes a request, and the iteration begins.
Iterate(t, at, user) ==
    /\ authCalls[t].at \in {"idle", "granted"}
    /\ authCalls' = [authCalls EXCEPT ![t] =
                        [at |-> at, user |-> user, size |-> Len(users)]]
    /\ UNCHANGED users

\* The thread goes on with its request.
Goes(t, at) == authCalls' = [authCalls EXCEPT ![t].at = at]

\* The request is answered; only a login that was granted is remembered.
Answered(t) == authCalls' = [authCalls EXCEPT ![t] = NoAuthCall]

\* The iteration found the dictionary larger than when it began.
Interrupted(t) ==
    /\ authCalls[t].at \in {"register", "login"}
    /\ Len(users) > authCalls[t].size
    /\ Answered(t)
    /\ UNCHANGED users

Register(t, user) == Iterate(t, "register", user)

\* The email is found, be it just before another user is inserted.
RegisterTaken(t) ==
    /\ authCalls[t].at = "register"
    /\ UsersOf(authCalls[t].user.email, authCalls[t].size) # {}
    /\ Answered(t)
    /\ UNCHANGED users

\* The iteration ends, and nobody was inserted meanwhile.
RegisterFree(t) ==
    /\ authCalls[t].at = "register"
    /\ Len(users) = authCalls[t].size
    /\ ~Known(authCalls[t].user.email)
    /\ Goes(t, "insert")
    /\ UNCHANGED users

\* Slip: a user registered meanwhile is replaced.
RegisterReplaces(t) ==
    /\ authCalls[t].at = "insert"
    /\ Len(users) < MaxUsers
    /\ LET user == authCalls[t].user
       IN  users' = IF Known(user.email)
                    THEN [users EXCEPT ![FirstOf(user.email, Len(users))] = user]
                    ELSE Append(users, user)
    /\ Answered(t)

RegisterInsert(t) ==
    /\ authCalls[t].at = "insert"
    /\ Len(users) < MaxUsers
    /\ users' = Append(users, authCalls[t].user)
    /\ Answered(t)

Login(t, user) == Iterate(t, "login", user)

\* Slip: the iteration goes on to a user whose password fits.
FitsAny(t) ==
    \E i \in UsersOf(authCalls[t].user.email, authCalls[t].size) :
        users[i] = authCalls[t].user

\* The password is that of the first user with the email.
Fits(t) ==
    LET email == authCalls[t].user.email
        size == authCalls[t].size
    IN  /\ UsersOf(email, size) # {}
        /\ users[FirstOf(email, size)] = authCalls[t].user

\* The iteration breaks at the first user with the email, or ends.
LoginAnswer(t) ==
    /\ authCalls[t].at = "login"
    /\ \/ UsersOf(authCalls[t].user.email, authCalls[t].size) # {}
       \/ Len(users) = authCalls[t].size
    /\ IF Fits(t) THEN Goes(t, "granted") ELSE Answered(t)
    /\ UNCHANGED users

AuthNext ==
    \E t \in AuthThreads :
        \/ \E user \in User : Register(t, user) \/ Login(t, user)
        \/ Interrupted(t)
        \/ RegisterTaken(t) \/ RegisterFree(t) \/ RegisterInsert(t)
        \/ LoginAnswer(t)

AuthSpec == AuthInit /\ [][AuthNext]_authVars

---------------------------------------------------------------------------
(***************************************************************************)
(* Properties                                                              *)
(***************************************************************************)

\* The type of the users and of the calls; who is about to be inserted was
\* not there when the iteration began.
AuthTypeOK ==
    /\ users \in Seq(User) /\ Len(users) <= MaxUsers
    /\ authCalls \in [AuthThreads -> AuthCall]
    /\ \A t \in AuthThreads : authCalls[t].at = "insert" =>
         UsersOf(authCalls[t].user.email, authCalls[t].size) = {}

\* Whatever registrations race, the user an email logs in as, once there is
\* one, stays the same with the same password (register, login).
LoginStands ==
    [][\A email \in Emails : Known(email) =>
          LET i == FirstOf(email, Len(users))
          IN  users'[i] = users[i]]_authVars

\* A login that was granted had the password of the one user that email logs
\* in as, then and ever after, though there may be several (login).
GrantedToFirst ==
    \A t \in AuthThreads : authCalls[t].at = "granted" =>
        LET user == authCalls[t].user
        IN  /\ Known(user.email)
            /\ users[FirstOf(user.email, Len(users))].password = user.password

\* "Email already registered" (main.py:39): an email has one user, so that
\* who is told to be registered can log in (register).
OneUserPerEmail ==
    \A i, j \in 1 .. Len(users) : users[i].email = users[j].email => i = j
===========================================================================
