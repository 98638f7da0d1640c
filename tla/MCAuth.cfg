CONSTANTS
    Emails = {e1, e2}
    Passwords = {p1, p2}
    AuthThreads = {t1, t2}
    MaxUsers = 3
SPECIFICATION AuthSpec
INVARIANTS
    OneUserPerEmail
CHECK_DEADLOCK FALSE
