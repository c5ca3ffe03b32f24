------------------------------ MODULE Accounts ------------------------------
(***************************************************************************)
(* Accounts: the auth endpoints of app/main.py, the tokens of app/auth.py, *)
(* the table auth.users (persistence.py) and the pages that call them.     *)
(*                                                                         *)
(* Every function of persistence.py is a transaction of its own, so a      *)
(* handler that calls two of them can be overtaken between the two:        *)
(* register reads and then inserts, forgot-password reads, updates and     *)
(* then mails, reset-password updates, reads again and then mints.  The    *)
(* service may restart between any two of those steps, and an answer may   *)
(* be lost on its way to the page.                                         *)
(*                                                                         *)
(* A password is one its user thought of, or the temporary one of a        *)
(* forgot-password request, written as that request.  None stands for one  *)
(* outside the 8 to 72 bytes bcrypt takes.  A token is kept by the browser *)
(* (localStorage), whichever of its tabs saved one last.                   *)
(***************************************************************************)
CONSTANTS
    Emails, Browsers,
    Passwords,  \* passwords people think of
    Request,    \* bound: the requests made, each once
    None

Password == Passwords \cup Request

\* What the variables hold beside None.
Row == [password : Password, must_reset : BOOLEAN, expires : Request \cup {None}]
Op == {"register", "login", "forgot", "reset"}
Step == {"insert", "update", "mail", "mint", "done"}
Outcome == {"refused", "limited", "full"}
Call == [browser : Browsers, op : Op, user : Emails, password : Password \cup {None},
         pc : Step, scope : Outcome \cup {"none"}]
Tokens == [user : Emails, scope : {"limited", "full"}, live : BOOLEAN]
Grants == [op : Op, user : Emails, scope : Outcome]

ASSUME AccountAssumption ==
    /\ None \notin Emails \cup Browsers \cup Passwords \cup Request
    /\ None \notin Row \cup Call \cup Tokens \cup Grants
    /\ Passwords \cap Request = {}

VARIABLES
    users,  \* auth.users, by address; None where there is no row
    req,    \* the requests: None until made
    held,   \* the token each browser keeps in localStorage, or None
    inbox,  \* the temporary passwords that were mailed
    aged    \* those issued more than 15 minutes ago

accountVars == <<users, req, held, inbox, aged>>

Chosen(p) == [password |-> p, must_reset |-> FALSE, expires |-> None]
\* (mistaken) the password is replaced and nothing said of a reset
TemporaryUnmarked(r) == [password |-> r, must_reset |-> FALSE, expires |-> r]
Temporary(r) == [password |-> r, must_reset |-> TRUE, expires |-> r]
Token(e, scope) == [user |-> e, scope |-> scope, live |-> TRUE]
Asked(b, op, e, p, pc, scope) ==
    [browser |-> b, op |-> op, user |-> e, password |-> p, pc |-> pc, scope |-> scope]

Awaits(r, pc) == req[r] # None /\ req[r].pc = pc
Moved(q, pc, scope) == [q EXCEPT !.pc = pc, !.scope = scope]
Move(r, pc, scope) == req' = [req EXCEPT ![r] = Moved(@, pc, scope)]

\* The answer with a token arrives and the page saves it, or is lost.
Deliver(b, token) == held' \in {held, [held EXCEPT ![b] = token]}

-----------------------------------------------------------------------------
(* Who a token makes one *)

\* get_current_user_id: any token that is still good, a limited one too.
Authenticated(b) == held[b] # None /\ held[b].live

\* (mistaken) whoever is authenticated
AnyTokenUser(b) == IF Authenticated(b) THEN held[b].user ELSE None

\* get_current_user_id_full_access, and _optional, which makes the rest guests.
CurrentUser(b) ==
    IF Authenticated(b) /\ held[b].scope = "full" THEN held[b].user ELSE None

\* verify_password, and the fifteen minutes of a temporary one
Accepts(row, p, old) ==
    /\ row # None
    /\ row.password = p
    /\ row.must_reset => row.expires # None /\ row.expires \notin old

\* What people can type: what they think of, and what was mailed to them.
Typed == Passwords \cup inbox

-----------------------------------------------------------------------------
(* The handlers *)

RegisterRefused(r, b, e, p) ==
    /\ req[r] = None
    /\ users[e] # None \/ p = None
    /\ req' = [req EXCEPT ![r] = Asked(b, "register", e, p, "done", "refused")]
    /\ UNCHANGED <<users, held, inbox, aged>>

RegisterChecked(r, b, e, p) ==
    /\ req[r] = None
    /\ users[e] = None /\ p # None
    /\ req' = [req EXCEPT ![r] = Asked(b, "register", e, p, "insert", "none")]
    /\ UNCHANGED <<users, held, inbox, aged>>

\* (mistaken) the row read before is trusted to be absent still
InsertOver(r) ==
    /\ Awaits(r, "insert")
    /\ users' = [users EXCEPT ![req[r].user] = Chosen(req[r].password)]
    /\ Move(r, "done", "full")
    /\ Deliver(req[r].browser, Token(req[r].user, "full"))
    /\ UNCHANGED <<inbox, aged>>

\* The address is unique in the table: the second of two inserts fails.
Insert(r) ==
    /\ Awaits(r, "insert")
    /\ IF users[req[r].user] = None
       THEN /\ users' = [users EXCEPT ![req[r].user] = Chosen(req[r].password)]
            /\ Move(r, "done", "full")
            /\ Deliver(req[r].browser, Token(req[r].user, "full"))
       ELSE Move(r, "done", "refused") /\ UNCHANGED <<users, held>>
    /\ UNCHANGED <<inbox, aged>>

\* Login reads the row once, and answers from what it read.
LogIn(r, b, e, p) ==
    /\ req[r] = None
    /\ LET scope == IF ~Accepts(users[e], p, aged) THEN "refused"
                    ELSE IF users[e].must_reset THEN "limited" ELSE "full"
       IN  /\ req' = [req EXCEPT ![r] = Asked(b, "login", e, p, "done", scope)]
           /\ IF scope = "refused" THEN UNCHANGED held ELSE Deliver(b, Token(e, scope))
    /\ UNCHANGED <<users, inbox, aged>>

ForgotPassword(r, b, e) ==
    /\ req[r] = None
    /\ req' = [req EXCEPT ![r] =
                   Asked(b, "forgot", e, None,
                         IF users[e] = None THEN "done" ELSE "update", "none")]
    /\ UNCHANGED <<users, held, inbox, aged>>

SetTempPassword(r) ==
    /\ Awaits(r, "update")
    /\ users' = [users EXCEPT ![req[r].user] = Temporary(r)]
    /\ Move(r, "mail", "none")
    /\ UNCHANGED <<held, inbox, aged>>

\* The answer is the same whether the mail could be sent or not.
SendEmail(r) ==
    /\ Awaits(r, "mail")
    /\ inbox' \in {inbox, inbox \cup {r}}
    /\ Move(r, "done", "none")
    /\ UNCHANGED <<users, held, aged>>

\* (mistaken) the length of the new password is not looked at
ResetToAnything(r, b, p) ==
    /\ req[r] = None
    /\ Authenticated(b)
    /\ req' = [req EXCEPT ![r] = Asked(b, "reset", held[b].user, p, "mint", "full")]
    /\ users' = [users EXCEPT ![held[b].user] = Chosen(p)]
    /\ UNCHANGED <<held, inbox, aged>>

ResetPassword(r, b, p) ==
    /\ req[r] = None
    /\ Authenticated(b)
    /\ IF p = None
       THEN /\ req' = [req EXCEPT ![r] = Asked(b, "reset", held[b].user, p, "done", "refused")]
            /\ UNCHANGED users
       ELSE /\ req' = [req EXCEPT ![r] = Asked(b, "reset", held[b].user, p, "mint", "full")]
            /\ users' = [users EXCEPT ![held[b].user] = Chosen(p)]
    /\ UNCHANGED <<held, inbox, aged>>

MintAfterReset(r) ==
    /\ Awaits(r, "mint")
    /\ Move(r, "done", "full")
    /\ Deliver(req[r].browser, Token(req[r].user, "full"))
    /\ UNCHANGED <<users, inbox, aged>>

\* mzFetch drops a token the server answers with 401, and "Log out" any.
DropToken(b) ==
    /\ held[b] # None
    /\ held' = [held EXCEPT ![b] = None]
    /\ UNCHANGED <<users, req, inbox, aged>>

-----------------------------------------------------------------------------
(* Time, and a restart of the service *)

TokenExpires(b) ==
    /\ Authenticated(b)
    /\ held' = [held EXCEPT ![b] = [@ EXCEPT !.live = FALSE]]
    /\ UNCHANGED <<users, req, inbox, aged>>

QuarterPasses(r) ==
    /\ \E e \in Emails : users[e] # None /\ users[e].expires = r
    /\ r \notin aged
    /\ aged' = aged \cup {r}
    /\ UNCHANGED <<users, req, held, inbox>>

Killed(r) == req[r] # None /\ req[r].pc # "done"
AccountsRestart ==
    /\ req' = [r \in Request |-> IF Killed(r) THEN Moved(req[r], "done", req[r].scope) ELSE req[r]]
    /\ UNCHANGED <<users, held, inbox, aged>>

AccountsInit ==
    /\ users \in [Emails -> {None} \cup {Chosen(p) : p \in Passwords}]
    /\ req = [r \in Request |-> None]
    /\ held = [b \in Browsers |-> None]
    /\ inbox = {}
    /\ aged = {}

\* A request goes on by itself once it was made.
Serve(r) == Insert(r) \/ SetTempPassword(r) \/ SendEmail(r) \/ MintAfterReset(r)

Submit(r) ==
    \E b \in Browsers :
        \/ \E e \in Emails, p \in Passwords \cup {None} :
               RegisterRefused(r, b, e, p) \/ RegisterChecked(r, b, e, p)
        \/ \E e \in Emails, p \in Typed : LogIn(r, b, e, p)
        \/ \E e \in Emails : ForgotPassword(r, b, e)
        \/ \E p \in Typed \cup {None} : ResetPassword(r, b, p)

Elapse ==
    \/ \E b \in Browsers : DropToken(b) \/ TokenExpires(b)
    \/ \E r \in Request : QuarterPasses(r)

-----------------------------------------------------------------------------
(* Correctness *)

AccountsTypeOK ==
    /\ users \in [Emails -> {None} \cup Row]
    /\ req \in [Request -> {None} \cup Call]
    /\ held \in [Browsers -> {None} \cup Tokens]
    /\ inbox \subseteq Request /\ aged \subseteq Request

\* Overlapping calls and restarts are told apart from calls made one after
\* another by nobody: every register, login, forgot-password and reset has the
\* effect, and the answer, it would have had alone at one moment between its
\* start and its end.  A reset acts when it writes, so the full token it mints
\* after another forgot-password is the one it had earned before.
Granted(r) ==
    IF req[r] = None \/ req[r].scope = "none" THEN None
    ELSE [op |-> req[r].op, user |-> req[r].user, scope |-> req[r].scope]
Life == INSTANCE AccountLife WITH account <- users,
                                  granted <- [r \in Request |-> Granted(r)]
AtomicAccounts == Life!Spec

\* A password its owner cannot know is the doing of a mail that did not get
\* out: the row has a temporary password that was not mailed only while the
\* request that wrote it is about to, or when it ended without.
LockedOutByMail ==
    \A e \in Emails :
        users[e] # None /\ users[e].password \notin Passwords \cup inbox
            => /\ users[e].must_reset
               /\ req[users[e].password] # None
               /\ req[users[e].password].pc \in {"mail", "done"}
               /\ req[users[e].password].user = e
=============================================================================
