---------------------------- MODULE AccountLife ----------------------------
(***************************************************************************)
(* What the account endpoints promise, each as if it happened at one       *)
(* instant: an address is registered once, a temporary password replaces   *)
(* the password and is good for a login while it is fresh, a login with it *)
(* grants only a limited token, and whoever holds a token of the account   *)
(* may choose a new password, which grants a full one.                     *)
(***************************************************************************)
CONSTANTS Emails, Passwords, Request, None

VARIABLES
    account,  \* the row of each address, None if it is free
    granted,  \* what each request was answered, or None
    aged      \* the temporary passwords, by request, older than 15 minutes

lifeVars == <<account, granted, aged>>

Chosen(p) == [password |-> p, must_reset |-> FALSE, expires |-> None]
Temporary(r) == [password |-> r, must_reset |-> TRUE, expires |-> r]
Grant(r, op, e, scope) ==
    /\ granted[r] = None
    /\ granted' = [granted EXCEPT ![r] = [op |-> op, user |-> e, scope |-> scope]]

Accepts(row, p, old) ==
    /\ row # None
    /\ row.password = p
    /\ row.must_reset => row.expires # None /\ row.expires \notin old
Scope(row) == IF row.must_reset THEN "limited" ELSE "full"
HoldsToken(e) ==
    \E q \in Request : granted[q] # None /\ granted[q].user = e /\ granted[q].scope # "refused"

Register(r, e, p) ==
    /\ account[e] = None
    /\ account' = [account EXCEPT ![e] = Chosen(p)]
    /\ Grant(r, "register", e, "full")
    /\ UNCHANGED aged

LogIn(r, e, p) ==
    /\ Accepts(account[e], p, aged)
    /\ Grant(r, "login", e, Scope(account[e]))
    /\ UNCHANGED <<account, aged>>

Refuse(r, op, e) ==
    /\ Grant(r, op, e, "refused")
    /\ UNCHANGED <<account, aged>>

\* A temporary password is issued once, and starts out fresh.
Issue(r, e) ==
    /\ account[e] # None /\ granted[r] = None /\ r \notin aged
    /\ account' = [account EXCEPT ![e] = Temporary(r)]
    /\ UNCHANGED <<granted, aged>>

Choose(r, e, p) ==
    /\ HoldsToken(e)
    /\ account[e] # None
    /\ account' = [account EXCEPT ![e] = Chosen(p)]
    /\ Grant(r, "reset", e, "full")
    /\ UNCHANGED aged

PassTime(r) ==
    /\ aged' = aged \cup {r}
    /\ UNCHANGED <<account, granted>>

Init ==
    /\ account \in [Emails -> {None} \cup {Chosen(p) : p \in Passwords}]
    /\ granted = [r \in Request |-> None]
    /\ aged = {}

Next ==
    \E r \in Request :
        \/ PassTime(r)
        \/ \E e \in Emails : Issue(r, e)
        \/ \E e \in Emails, op \in {"register", "login", "reset"} : Refuse(r, op, e)
        \/ \E e \in Emails, p \in Passwords \cup Request :
               Register(r, e, p) \/ LogIn(r, e, p) \/ Choose(r, e, p)

Spec == Init /\ [][Next]_lifeVars
=============================================================================
