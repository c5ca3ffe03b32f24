------------------------------ MODULE AppProofs ------------------------------
(***************************************************************************)
(* Theorems about App: accounts and chat, for any number of addresses,     *)
(* browsers, requests and turns.                                           *)
(*                                                                         *)
(* The invariants of the accounts come first, then their refinement of     *)
(* AccountLife, then the chat.                                             *)
(***************************************************************************)
EXTENDS App, TLAPS

-----------------------------------------------------------------------------
(* Records *)

\* A password makes a row.
LEMMA RowsMade ==
    /\ \A p \in Password : Chosen(p) \in Row
    /\ \A r \in Request : Temporary(r) \in Row
BY DEF Chosen, Temporary, Row, Password

\* What is handed out is a token.
LEMMA TokensMade ==
    ASSUME NEW e \in Emails, NEW scope \in {"limited", "full"}
    PROVE  Token(e, scope) \in Tokens
BY DEF Token, Tokens

\* What is asked is a call.
LEMMA CallsMade ==
    ASSUME NEW b \in Browsers, NEW op \in Op, NEW e \in Emails, NEW p \in Password \cup {None},
           NEW pc \in Step, NEW scope \in Outcome \cup {"none"}
    PROVE  Asked(b, op, e, p, pc, scope) \in Call
BY DEF Asked, Call

\* A call that goes on is the same but for its step and its outcome.
LEMMA MovedCall ==
    ASSUME NEW q \in Call, NEW pc \in Step, NEW scope \in Outcome \cup {"none"}
    PROVE  /\ Moved(q, pc, scope) \in Call
           /\ Moved(q, pc, scope).user = q.user
           /\ Moved(q, pc, scope).op = q.op
           /\ Moved(q, pc, scope).password = q.password
           /\ Moved(q, pc, scope).pc = pc
           /\ Moved(q, pc, scope).scope = scope
BY DEF Moved, Call

-----------------------------------------------------------------------------
(* What the accounts keep *)

\* The request got as far as to write its temporary password.
Late(r) == req[r] # None /\ req[r].pc \in {"mail", "done"}

\* What a request is good for at each step.
CallOk(r) ==
    req[r] # None =>
        /\ req[r].pc = "insert" =>
              req[r].op = "register" /\ req[r].password \in Passwords /\ req[r].scope = "none"
        /\ req[r].pc = "update" => users[req[r].user] # None /\ req[r].scope = "none"
        /\ req[r].pc = "mail" => req[r].scope = "none"
        /\ req[r].pc = "mint" => users[req[r].user] # None /\ req[r].scope = "full"
CallsOk == \A r \in Request : CallOk(r)
IssuedOk == \A e \in Emails : users[e] # None /\ users[e].expires # None => Late(users[e].expires)
AgedOk == \A r \in aged : Late(r)

GrantedIn(calls, e, scope) ==
    \E q \in Request : calls[q] # None /\ calls[q].user = e /\ calls[q].scope = scope
HeldOk ==
    \A b \in Browsers : held[b] # None =>
        users[held[b].user] # None /\ GrantedIn(req, held[b].user, held[b].scope)

AccountInv == AccountsTypeOK /\ CallsOk /\ IssuedOk /\ AgedOk /\ HeldOk

AccountStep ==
    \/ \E r \in Request : Submit(r) \/ Serve(r)
    \/ Elapse
    \/ AccountsRestart
    \/ UNCHANGED accountVars
\* A step of the service is one of the accounts, or leaves them alone.
LEMMA StepOfAccounts == [Next]_vars => AccountStep
<1>1. CASE MakeRequest
  <2>1. (CHOOSE r \in Unmade : TRUE) \in Request
    BY <1>1 DEF MakeRequest, Unmade
  <2>. QED
    BY <1>1, <2>1 DEF MakeRequest, AccountStep
<1>2. CASE SendMessage
  BY <1>2 DEF SendMessage, AccountStep
<1>3. CASE Restart
  BY <1>3 DEF Restart, AccountStep
<1>4. ASSUME NEW r \in Request, ServeRequest(r) PROVE AccountStep
  BY <1>4 DEF ServeRequest, AccountStep
<1>5. ASSUME NEW t \in Turn, ServeTurn(t) PROVE AccountStep
  BY <1>5 DEF ServeTurn, AccountStep
<1>6. CASE Elapse \/ UNCHANGED accountVars
  BY <1>6 DEF AccountStep
<1>7. UNCHANGED vars => UNCHANGED accountVars
  BY DEF vars
<1>. QED
  BY <1>1, <1>2, <1>3, <1>4, <1>5, <1>6, <1>7 DEF Next

\* What is true of every step: addresses stay registered, what was granted
\* stays granted, and a password once written stays written.
UsersStay == \A e \in Emails : users[e] # None => users'[e] # None
CallsStay ==
    \A q \in Request : req[q] # None =>
        /\ req'[q] # None /\ req'[q].user = req[q].user /\ req'[q].op = req[q].op
        /\ req[q].scope # "none" => req'[q].scope = req[q].scope
        /\ req[q].pc \in {"mail", "done"} => req'[q].pc \in {"mail", "done"}
Lasting == UsersStay /\ CallsStay

\* The tokens after a step: those before, or one that was just granted.
HeldAfter ==
    \A b \in Browsers : held'[b] # None =>
        \/ held[b] # None /\ held'[b].user = held[b].user /\ held'[b].scope = held[b].scope
        \/ users'[held'[b].user] # None /\ GrantedIn(req', held'[b].user, held'[b].scope)
\* Tokens stay tokens that were granted.
LEMMA HeldKept ==
    ASSUME AccountsTypeOK, HeldOk, Lasting, HeldAfter
    PROVE  HeldOk'
<1>. SUFFICES ASSUME NEW b \in Browsers, held'[b] # None
              PROVE  users'[held'[b].user] # None /\ GrantedIn(req', held'[b].user, held'[b].scope)
  BY DEF HeldOk
<1>1. CASE held[b] # None /\ held'[b].user = held[b].user /\ held'[b].scope = held[b].scope
  <2>1. held[b].user \in Emails /\ held[b].scope # "none"
    BY <1>1 DEF AccountsTypeOK, Tokens
  <2>2. PICK q \in Request : req[q] # None /\ req[q].user = held[b].user /\ req[q].scope = held[b].scope
    BY <1>1 DEF HeldOk, GrantedIn
  <2>3. req'[q] # None /\ req'[q].user = held[b].user /\ req'[q].scope = held[b].scope
    BY <2>1, <2>2 DEF Lasting, CallsStay
  <2>4. users'[held[b].user] # None
    BY <1>1, <2>1 DEF HeldOk, Lasting, UsersStay
  <2>. QED
    BY <1>1, <2>3, <2>4 DEF GrantedIn
<1>. QED
  BY <1>1 DEF HeldAfter

\* A request is made.
LEMMA NewCall ==
    ASSUME AccountsTypeOK, NEW r \in Request, req[r] = None, NEW c \in Call, req' = [req EXCEPT ![r] = c]
    PROVE  /\ req' \in [Request -> {None} \cup Call]
           /\ req'[r] = c /\ c # None
           /\ \A q \in Request \ {r} : req'[q] = req[q]
           /\ CallsStay
<1>1. c # None
  BY AccountAssumption
<1>. QED
  BY <1>1 DEF AccountsTypeOK, CallsStay

\* A request goes on.
LEMMA NextStep ==
    ASSUME AccountsTypeOK, NEW r \in Request, req[r] # None, NEW pc \in Step,
           NEW scope \in Outcome \cup {"none"}, Move(r, pc, scope),
           req[r].scope \in {scope, "none"}, req[r].pc \in {"mail", "done"} => pc \in {"mail", "done"}
    PROVE  /\ req' \in [Request -> {None} \cup Call]
           /\ req'[r] = Moved(req[r], pc, scope) /\ req'[r] # None
           /\ req'[r].user = req[r].user /\ req'[r].op = req[r].op /\ req'[r].password = req[r].password
           /\ req'[r].pc = pc /\ req'[r].scope = scope
           /\ \A q \in Request \ {r} : req'[q] = req[q]
           /\ CallsStay
<1>1. req[r] \in Call
  BY DEF AccountsTypeOK
<1>2. /\ Moved(req[r], pc, scope) \in Call /\ Moved(req[r], pc, scope) # None
      /\ Moved(req[r], pc, scope).user = req[r].user /\ Moved(req[r], pc, scope).op = req[r].op
      /\ Moved(req[r], pc, scope).password = req[r].password
      /\ Moved(req[r], pc, scope).pc = pc /\ Moved(req[r], pc, scope).scope = scope
  BY <1>1, MovedCall, AccountAssumption
<1>3. req' = [req EXCEPT ![r] = Moved(req[r], pc, scope)]
  BY DEF Move
<1>4. req \in [Request -> {None} \cup Call]
  BY DEF AccountsTypeOK
<1>5. /\ req' \in [Request -> {None} \cup Call] /\ req'[r] = Moved(req[r], pc, scope)
      /\ \A q \in Request \ {r} : req'[q] = req[q]
  BY <1>2, <1>3, <1>4
<1>. QED
  BY <1>2, <1>5 DEF CallsStay

\* A token is handed out, or its answer lost.
LEMMA Delivered ==
    ASSUME AccountsTypeOK, NEW b \in Browsers, NEW e \in Emails, NEW scope \in {"limited", "full"},
           Deliver(b, Token(e, scope)), users'[e] # None, GrantedIn(req', e, scope)
    PROVE  held' \in [Browsers -> {None} \cup Tokens] /\ HeldAfter
<1>1. Token(e, scope) \in Tokens /\ Token(e, scope).user = e /\ Token(e, scope).scope = scope
  BY TokensMade DEF Token
<1>2. held' = held \/ held' = [held EXCEPT ![b] = Token(e, scope)]
  BY DEF Deliver
<1>. QED
  BY <1>1, <1>2 DEF AccountsTypeOK, HeldAfter

\* No token is handed out.
LEMMA Undelivered ==
    ASSUME AccountsTypeOK, held' = held
    PROVE  held' \in [Browsers -> {None} \cup Tokens] /\ HeldAfter
BY DEF AccountsTypeOK, HeldAfter

\* Only the call of r has changed.
LEMMA OthersOk ==
    ASSUME AccountInv, UsersStay, NEW r \in Request,
           \A q \in Request \ {r} : req'[q] = req[q], CallOk(r)'
    PROVE  CallsOk'
<1>. SUFFICES ASSUME NEW q \in Request \ {r} PROVE CallOk(q)'
  BY DEF CallsOk
<1>1. req[q] # None => req[q] \in Call /\ req[q].user \in Emails
  BY DEF AccountInv, AccountsTypeOK, Call
<1>2. CallOk(q)
  BY DEF AccountInv, CallsOk
<1>. QED
  BY <1>1, <1>2 DEF CallOk, UsersStay

\* A temporary password that was written stays written.
LEMMA LateStays ==
    ASSUME CallsStay, NEW r \in Request, Late(r)
    PROVE  Late(r)'
BY DEF CallsStay, Late

\* The table is left alone.
LEMMA NothingWritten ==
    ASSUME AccountInv, CallsStay, users' = users, aged' = aged
    PROVE  Lasting /\ IssuedOk' /\ AgedOk'
<1>1. Lasting
  BY DEF Lasting, UsersStay
<1>2. IssuedOk'
  BY LateStays DEF AccountInv, AccountsTypeOK, IssuedOk, Row
<1>3. AgedOk'
  BY LateStays DEF AccountInv, AccountsTypeOK, AgedOk
<1>. QED
  BY <1>1, <1>2, <1>3

\* A row is written.
LEMMA RowWritten ==
    ASSUME AccountInv, CallsStay, NEW e \in Emails, NEW row \in Row,
           users' = [users EXCEPT ![e] = row], aged' = aged,
           row.expires # None =>
               req'[row.expires] # None /\ req'[row.expires].pc \in {"mail", "done"}
    PROVE  /\ Lasting /\ IssuedOk' /\ AgedOk'
           /\ users' \in [Emails -> {None} \cup Row] /\ users'[e] # None
<1>1. row # None
  BY AccountAssumption
<1>2. users \in [Emails -> {None} \cup Row]
  BY DEF AccountInv, AccountsTypeOK
<1>3. Lasting
  BY <1>1, <1>2 DEF Lasting, UsersStay
<1>4. IssuedOk'
  <2>. SUFFICES ASSUME NEW d \in Emails, users'[d] # None, users'[d].expires # None
                PROVE  Late(users[d].expires)'
    BY DEF IssuedOk
  <2>1. CASE d = e
    BY <1>2, <2>1 DEF Late
  <2>2. CASE d # e
    <3>1. users'[d] = users[d] /\ users[d].expires \in Request /\ Late(users[d].expires)
      BY <1>2, <2>2 DEF AccountInv, IssuedOk, Row
    <3>. QED
      BY <3>1 DEF Late, CallsStay
  <2>. QED
    BY <2>1, <2>2
<1>5. AgedOk'
  BY LateStays DEF AccountInv, AccountsTypeOK, AgedOk
<1>. QED
  BY <1>1, <1>2, <1>3, <1>4, <1>5

-----------------------------------------------------------------------------
(* The handlers *)

Kept == AccountInv' /\ Lasting


\* The first half of register.
LEMMA RegisterBegins ==
    ASSUME AccountInv, NEW r \in Request, NEW b \in Browsers, NEW e \in Emails,
           NEW p \in Passwords \cup {None},
           RegisterRefused(r, b, e, p) \/ RegisterChecked(r, b, e, p)
    PROVE  Kept
<1> DEFINE refused == Asked(b, "register", e, p, "done", "refused")
           checked == Asked(b, "register", e, p, "insert", "none")
<1>1. refused \in Call /\ checked \in Call
  BY CallsMade DEF Op, Step, Outcome, Password
<1>2. PICK c \in Call : /\ req' = [req EXCEPT ![r] = c]
                        /\ c = refused \/ (c = checked /\ p # None)
  BY <1>1 DEF RegisterRefused, RegisterChecked
<1>3. req[r] = None /\ users' = users /\ held' = held /\ inbox' = inbox /\ aged' = aged
  BY DEF RegisterRefused, RegisterChecked
<1>4. /\ c.pc = "done" \/ (/\ c.pc = "insert" /\ c.op = "register"
                          /\ c.password \in Passwords /\ c.scope = "none")
  BY <1>2 DEF Asked
<1>5. AccountsTypeOK
  BY DEF AccountInv
<1>6. /\ req' \in [Request -> {None} \cup Call] /\ req'[r] = c
      /\ \A q \in Request \ {r} : req'[q] = req[q]
      /\ CallsStay
  BY <1>2, <1>3, <1>5, NewCall
<1>7. Lasting /\ IssuedOk' /\ AgedOk'
  BY <1>3, <1>6, NothingWritten
<1>8. held' \in [Browsers -> {None} \cup Tokens] /\ HeldAfter
  BY <1>3, <1>5, Undelivered
<1>9. HeldOk'
  BY <1>5, <1>7, <1>8, HeldKept DEF AccountInv
<1>10. AccountsTypeOK'
  BY <1>3, <1>5, <1>6, <1>8 DEF AccountsTypeOK
<1>11. CallsOk'
  BY <1>4, <1>6, <1>7, OthersOk DEF CallOk, Lasting
<1>. QED
  BY <1>7, <1>9, <1>10, <1>11 DEF AccountInv, Kept

\* Its second half, which may find the address taken.
LEMMA InsertKeeps ==
    ASSUME AccountInv, NEW r \in Request, Insert(r)
    PROVE  Kept
<1>1. AccountsTypeOK /\ req[r] # None /\ req[r].pc = "insert" /\ CallOk(r)
  BY DEF AccountInv, Insert, Awaits, CallsOk
<1>2. /\ req[r].user \in Emails /\ req[r].browser \in Browsers
      /\ req[r].password \in Passwords /\ req[r].scope = "none"
  BY <1>1 DEF CallOk, AccountsTypeOK, Call
<1>3. inbox' = inbox /\ aged' = aged
  BY DEF Insert
<1>4. CASE users[req[r].user] = None
  <2>1. /\ users' = [users EXCEPT ![req[r].user] = Chosen(req[r].password)]
        /\ Move(r, "done", "full")
        /\ Deliver(req[r].browser, Token(req[r].user, "full"))
    BY <1>4 DEF Insert
  <2>2. /\ req' \in [Request -> {None} \cup Call] /\ req'[r] # None /\ req'[r].user = req[r].user
        /\ req'[r].pc = "done" /\ req'[r].scope = "full" /\ CallsStay
        /\ \A q \in Request \ {r} : req'[q] = req[q]
    BY <1>1, <1>2, <2>1, NextStep DEF Step, Outcome
  <2>3. Chosen(req[r].password) \in Row /\ Chosen(req[r].password).expires = None
    BY <1>2, RowsMade DEF Chosen, Password
  <2>4. /\ Lasting /\ IssuedOk' /\ AgedOk'
        /\ users' \in [Emails -> {None} \cup Row] /\ users'[req[r].user] # None
    BY <1>2, <1>3, <2>1, <2>2, <2>3, RowWritten
  <2>5. GrantedIn(req', req[r].user, "full")
    BY <2>2 DEF GrantedIn
  <2>6. held' \in [Browsers -> {None} \cup Tokens] /\ HeldAfter
    BY <1>1, <1>2, <2>1, <2>4, <2>5, Delivered
  <2>7. HeldOk'
    BY <1>1, <2>4, <2>6, HeldKept DEF AccountInv
  <2>8. AccountsTypeOK'
    BY <1>1, <1>3, <2>2, <2>4, <2>6 DEF AccountsTypeOK
  <2>9. CallsOk'
    BY <2>2, <2>4, OthersOk DEF CallOk, Lasting
  <2>. QED
    BY <2>4, <2>7, <2>8, <2>9 DEF AccountInv, Kept
<1>5. CASE users[req[r].user] # None
  <2>1. Move(r, "done", "refused") /\ users' = users /\ held' = held
    BY <1>5 DEF Insert
  <2>2. /\ req' \in [Request -> {None} \cup Call] /\ req'[r] # None
        /\ req'[r].pc = "done" /\ CallsStay
        /\ \A q \in Request \ {r} : req'[q] = req[q]
    BY <1>1, <1>2, <2>1, NextStep DEF Step, Outcome
  <2>3. Lasting /\ IssuedOk' /\ AgedOk'
    BY <1>3, <2>1, <2>2, NothingWritten
  <2>4. held' \in [Browsers -> {None} \cup Tokens] /\ HeldAfter
    BY <1>1, <2>1, Undelivered
  <2>5. HeldOk'
    BY <1>1, <2>3, <2>4, HeldKept DEF AccountInv
  <2>6. AccountsTypeOK'
    BY <1>1, <1>3, <2>1, <2>2, <2>4 DEF AccountsTypeOK
  <2>7. CallsOk'
    BY <2>2, <2>3, OthersOk DEF CallOk, Lasting
  <2>. QED
    BY <2>3, <2>5, <2>6, <2>7 DEF AccountInv, Kept
<1>. QED
  BY <1>4, <1>5

\* A login grants what its row says.
LEMMA LogInKeeps ==
    ASSUME AccountInv, NEW r \in Request, NEW b \in Browsers, NEW e \in Emails, NEW p \in Password,
           LogIn(r, b, e, p)
    PROVE  Kept
<1>. DEFINE scope == IF ~Accepts(users[e], p, aged) THEN "refused"
                     ELSE IF users[e].must_reset THEN "limited" ELSE "full"
            call == Asked(b, "login", e, p, "done", scope)
<1>1. /\ req[r] = None /\ req' = [req EXCEPT ![r] = call]
      /\ IF scope = "refused" THEN held' = held ELSE Deliver(b, Token(e, scope))
      /\ users' = users /\ inbox' = inbox /\ aged' = aged
  BY DEF LogIn
<1>2. scope \in Outcome /\ (scope # "refused" => users[e] # None /\ scope \in {"limited", "full"})
  BY DEF Accepts, Outcome
<1>3. call.pc = "done" /\ call.user = e /\ call.scope = scope
  BY DEF Asked
<1>. HIDE DEF scope
<1>4. call \in Call
  BY <1>2, CallsMade DEF Op, Step, Outcome
<1>. HIDE DEF call
<1>5. AccountsTypeOK
  BY DEF AccountInv
<1>6. /\ req' \in [Request -> {None} \cup Call] /\ req'[r] = call /\ call # None
      /\ \A q \in Request \ {r} : req'[q] = req[q]
      /\ CallsStay
  BY <1>1, <1>4, <1>5, NewCall
<1>7. Lasting /\ IssuedOk' /\ AgedOk'
  BY <1>1, <1>6, NothingWritten
<1>8. held' \in [Browsers -> {None} \cup Tokens] /\ HeldAfter
  <2>1. CASE scope = "refused"
    BY <1>1, <1>5, <2>1, Undelivered
  <2>2. CASE scope # "refused"
    <3>1. GrantedIn(req', e, scope)
      BY <1>3, <1>6 DEF GrantedIn
    <3>. QED
      BY <1>1, <1>2, <1>5, <2>2, <3>1, Delivered
  <2>. QED
    BY <2>1, <2>2
<1>9. HeldOk'
  BY <1>5, <1>7, <1>8, HeldKept DEF AccountInv
<1>10. AccountsTypeOK'
  BY <1>1, <1>5, <1>6, <1>8 DEF AccountsTypeOK
<1>11. CallsOk'
  BY <1>3, <1>6, <1>7, OthersOk DEF CallOk, Lasting
<1>. QED
  BY <1>7, <1>9, <1>10, <1>11 DEF AccountInv, Kept

\* Forgot-password goes on only for an address that has a row.
LEMMA ForgotKeeps ==
    ASSUME AccountInv, NEW r \in Request, NEW b \in Browsers, NEW e \in Emails,
           ForgotPassword(r, b, e)
    PROVE  Kept
<1>. DEFINE pc == IF users[e] = None THEN "done" ELSE "update"
            call == Asked(b, "forgot", e, None, pc, "none")
<1>1. /\ req[r] = None /\ req' = [req EXCEPT ![r] = call]
      /\ held' = held /\ users' = users /\ inbox' = inbox /\ aged' = aged
  BY DEF ForgotPassword
<1>2. pc \in Step /\ (pc = "done" \/ (pc = "update" /\ users[e] # None))
  BY DEF Step
<1>3. call.pc = pc /\ call.user = e /\ call.scope = "none"
  BY DEF Asked
<1>. HIDE DEF pc
<1>4. call \in Call
  BY <1>2, CallsMade DEF Op
<1>. HIDE DEF call
<1>5. AccountsTypeOK
  BY DEF AccountInv
<1>6. /\ req' \in [Request -> {None} \cup Call] /\ req'[r] = call
      /\ \A q \in Request \ {r} : req'[q] = req[q]
      /\ CallsStay
  BY <1>1, <1>4, <1>5, NewCall
<1>7. Lasting /\ IssuedOk' /\ AgedOk'
  BY <1>1, <1>6, NothingWritten
<1>8. held' \in [Browsers -> {None} \cup Tokens] /\ HeldAfter
  BY <1>1, <1>5, Undelivered
<1>9. HeldOk'
  BY <1>5, <1>7, <1>8, HeldKept DEF AccountInv
<1>10. AccountsTypeOK'
  BY <1>1, <1>5, <1>6, <1>8 DEF AccountsTypeOK
<1>11. CallsOk'
  BY <1>1, <1>2, <1>3, <1>6, <1>7, OthersOk DEF CallOk, Lasting
<1>. QED
  BY <1>7, <1>9, <1>10, <1>11 DEF AccountInv, Kept

\* The temporary password of a request is written by that request.
LEMMA SetTempKeeps ==
    ASSUME AccountInv, NEW r \in Request, SetTempPassword(r)
    PROVE  Kept
<1>1. AccountsTypeOK /\ req[r] # None /\ req[r].pc = "update" /\ CallOk(r)
  BY DEF AccountInv, SetTempPassword, Awaits, CallsOk
<1>2. req[r].user \in Emails /\ req[r].scope = "none"
  BY <1>1 DEF CallOk, AccountsTypeOK, Call
<1>3. /\ users' = [users EXCEPT ![req[r].user] = Temporary(r)] /\ Move(r, "mail", "none")
      /\ held' = held /\ inbox' = inbox /\ aged' = aged
  BY DEF SetTempPassword
<1>4. /\ req' \in [Request -> {None} \cup Call] /\ req'[r] # None
      /\ req'[r].pc = "mail" /\ req'[r].scope = "none" /\ CallsStay
      /\ \A q \in Request \ {r} : req'[q] = req[q]
  BY <1>1, <1>2, <1>3, NextStep DEF Step
<1>5. Temporary(r) \in Row /\ Temporary(r).expires = r
  BY RowsMade DEF Temporary
<1>6. /\ Lasting /\ IssuedOk' /\ AgedOk'
      /\ users' \in [Emails -> {None} \cup Row]
  BY <1>2, <1>3, <1>4, <1>5, RowWritten
<1>7. held' \in [Browsers -> {None} \cup Tokens] /\ HeldAfter
  BY <1>1, <1>3, Undelivered
<1>8. HeldOk'
  BY <1>1, <1>6, <1>7, HeldKept DEF AccountInv
<1>9. AccountsTypeOK'
  BY <1>1, <1>3, <1>4, <1>6, <1>7 DEF AccountsTypeOK
<1>10. CallsOk'
  BY <1>4, <1>6, OthersOk DEF CallOk, Lasting
<1>. QED
  BY <1>6, <1>8, <1>9, <1>10 DEF AccountInv, Kept

\* The mail, and whether it got out.
LEMMA SendEmailKeeps ==
    ASSUME AccountInv, NEW r \in Request, SendEmail(r)
    PROVE  Kept
<1>1. AccountsTypeOK /\ req[r] # None /\ req[r].pc = "mail" /\ req[r].scope = "none"
  BY DEF AccountInv, SendEmail, Awaits, CallsOk, CallOk
<1>2. /\ Move(r, "done", "none")
      /\ users' = users /\ held' = held /\ aged' = aged
      /\ inbox' \in {inbox, inbox \cup {r}}
  BY DEF SendEmail
<1>3. /\ req' \in [Request -> {None} \cup Call] /\ req'[r] # None
      /\ req'[r].pc = "done" /\ CallsStay
      /\ \A q \in Request \ {r} : req'[q] = req[q]
  BY <1>1, <1>2, NextStep DEF Step
<1>4. Lasting /\ IssuedOk' /\ AgedOk'
  BY <1>2, <1>3, NothingWritten
<1>5. held' \in [Browsers -> {None} \cup Tokens] /\ HeldAfter
  BY <1>1, <1>2, Undelivered
<1>6. HeldOk'
  BY <1>1, <1>4, <1>5, HeldKept DEF AccountInv
<1>7. AccountsTypeOK'
  BY <1>1, <1>2, <1>3, <1>5 DEF AccountsTypeOK
<1>8. CallsOk'
  BY <1>3, <1>4, OthersOk DEF CallOk, Lasting
<1>. QED
  BY <1>4, <1>6, <1>7, <1>8 DEF AccountInv, Kept

\* The first half of reset-password, for whoever holds a token.
LEMMA ResetKeeps ==
    ASSUME AccountInv, NEW r \in Request, NEW b \in Browsers, NEW p \in Password \cup {None},
           ResetPassword(r, b, p)
    PROVE  Kept
<1>1. /\ AccountsTypeOK /\ req[r] = None /\ held[b] # None
      /\ held' = held /\ inbox' = inbox /\ aged' = aged
  BY DEF AccountInv, ResetPassword, Authenticated
<1>2. held[b].user \in Emails
  BY <1>1 DEF AccountsTypeOK, Tokens
<1>3. held' \in [Browsers -> {None} \cup Tokens] /\ HeldAfter
  BY <1>1, Undelivered
<1>4. CASE p = None
  <2>. DEFINE call == Asked(b, "reset", held[b].user, p, "done", "refused")
  <2>1. req' = [req EXCEPT ![r] = call] /\ users' = users
    BY <1>4 DEF ResetPassword
  <2>2. call \in Call /\ call.pc = "done"
    BY <1>2, CallsMade DEF Op, Step, Outcome, Asked
  <2>. HIDE DEF call
  <2>3. /\ req' \in [Request -> {None} \cup Call] /\ req'[r] = call
        /\ \A q \in Request \ {r} : req'[q] = req[q]
        /\ CallsStay
    BY <1>1, <2>1, <2>2, NewCall
  <2>4. Lasting /\ IssuedOk' /\ AgedOk'
    BY <1>1, <2>1, <2>3, NothingWritten
  <2>5. HeldOk'
    BY <1>1, <1>3, <2>4, HeldKept DEF AccountInv
  <2>6. AccountsTypeOK'
    BY <1>1, <1>3, <2>1, <2>3 DEF AccountsTypeOK
  <2>7. CallsOk'
    BY <2>2, <2>3, <2>4, OthersOk DEF CallOk, Lasting
  <2>. QED
    BY <2>4, <2>5, <2>6, <2>7 DEF AccountInv, Kept
<1>5. CASE p # None
  <2>. DEFINE call == Asked(b, "reset", held[b].user, p, "mint", "full")
  <2>1. req' = [req EXCEPT ![r] = call] /\ users' = [users EXCEPT ![held[b].user] = Chosen(p)]
    BY <1>5 DEF ResetPassword
  <2>2. call \in Call /\ call.pc = "mint" /\ call.scope = "full" /\ call.user = held[b].user
    BY <1>2, CallsMade DEF Op, Step, Outcome, Asked
  <2>. HIDE DEF call
  <2>3. /\ req' \in [Request -> {None} \cup Call] /\ req'[r] = call
        /\ \A q \in Request \ {r} : req'[q] = req[q]
        /\ CallsStay
    BY <1>1, <2>1, <2>2, NewCall
  <2>4. Chosen(p) \in Row /\ Chosen(p).expires = None
    BY <1>5, RowsMade DEF Chosen
  <2>5. /\ Lasting /\ IssuedOk' /\ AgedOk'
        /\ users' \in [Emails -> {None} \cup Row] /\ users'[held[b].user] # None
    BY <1>1, <1>2, <2>1, <2>3, <2>4, RowWritten
  <2>6. HeldOk'
    BY <1>1, <1>3, <2>5, HeldKept DEF AccountInv
  <2>7. AccountsTypeOK'
    BY <1>1, <1>3, <2>3, <2>5 DEF AccountsTypeOK
  <2>8. CallsOk'
    BY <2>2, <2>3, <2>5, OthersOk DEF CallOk, Lasting
  <2>. QED
    BY <2>5, <2>6, <2>7, <2>8 DEF AccountInv, Kept
<1>. QED
  BY <1>4, <1>5

\* Its second half, which hands out the token.
LEMMA MintKeeps ==
    ASSUME AccountInv, NEW r \in Request, MintAfterReset(r)
    PROVE  Kept
<1>1. /\ AccountsTypeOK /\ req[r] # None /\ req[r].pc = "mint"
      /\ req[r].scope = "full" /\ users[req[r].user] # None
  BY DEF AccountInv, MintAfterReset, Awaits, CallsOk, CallOk
<1>2. req[r].user \in Emails /\ req[r].browser \in Browsers
  BY <1>1 DEF AccountsTypeOK, Call
<1>3. /\ Move(r, "done", "full") /\ Deliver(req[r].browser, Token(req[r].user, "full"))
      /\ users' = users /\ inbox' = inbox /\ aged' = aged
  BY DEF MintAfterReset
<1>4. /\ req' \in [Request -> {None} \cup Call] /\ req'[r] # None /\ req'[r].user = req[r].user
      /\ req'[r].pc = "done" /\ req'[r].scope = "full" /\ CallsStay
      /\ \A q \in Request \ {r} : req'[q] = req[q]
  BY <1>1, <1>3, NextStep DEF Step, Outcome
<1>5. Lasting /\ IssuedOk' /\ AgedOk'
  BY <1>3, <1>4, NothingWritten
<1>6. GrantedIn(req', req[r].user, "full")
  BY <1>4 DEF GrantedIn
<1>7. held' \in [Browsers -> {None} \cup Tokens] /\ HeldAfter
  BY <1>1, <1>2, <1>3, <1>6, Delivered
<1>8. HeldOk'
  BY <1>1, <1>5, <1>7, HeldKept DEF AccountInv
<1>9. AccountsTypeOK'
  BY <1>1, <1>3, <1>4, <1>7 DEF AccountsTypeOK
<1>10. CallsOk'
  BY <1>4, <1>5, OthersOk DEF CallOk, Lasting
<1>. QED
  BY <1>5, <1>8, <1>9, <1>10 DEF AccountInv, Kept

-----------------------------------------------------------------------------
(* Time and restarts *)

\* A browser drops its token, or the token expires.
LEMMA TokensGo ==
    ASSUME AccountInv, NEW b \in Browsers, DropToken(b) \/ TokenExpires(b)
    PROVE  Kept
<1>1. /\ AccountsTypeOK /\ users' = users /\ req' = req /\ inbox' = inbox /\ aged' = aged
  BY DEF AccountInv, DropToken, TokenExpires
<1>2. held \in [Browsers -> {None} \cup Tokens] /\ held[b] # None
  BY DEF AccountInv, AccountsTypeOK, DropToken, TokenExpires, Authenticated
<1>3. /\ held' \in [Browsers -> {None} \cup Tokens]
      /\ held'[b] # None => held'[b].user = held[b].user /\ held'[b].scope = held[b].scope
      /\ \A c \in Browsers \ {b} : held'[c] = held[c]
  <2>1. CASE DropToken(b)
    BY <1>2, <2>1 DEF DropToken
  <2>2. CASE TokenExpires(b)
    <3>. DEFINE token == [held[b] EXCEPT !.live = FALSE]
    <3>1. held' = [held EXCEPT ![b] = token]
      BY <2>2 DEF TokenExpires
    <3>2. token \in Tokens /\ token.user = held[b].user /\ token.scope = held[b].scope
      BY <1>2 DEF Tokens
    <3>. HIDE DEF token
    <3>. QED
      BY <1>2, <3>1, <3>2
  <2>. QED
    BY <2>1, <2>2
<1>4. HeldAfter
  BY <1>2, <1>3 DEF HeldAfter
<1>5. CallsStay
  BY <1>1 DEF CallsStay
<1>6. Lasting /\ IssuedOk' /\ AgedOk'
  BY <1>1, <1>5, NothingWritten
<1>7. HeldOk'
  BY <1>1, <1>4, <1>6, HeldKept DEF AccountInv
<1>8. AccountsTypeOK'
  BY <1>1, <1>3 DEF AccountsTypeOK
<1>9. CallsOk'
  BY <1>1 DEF AccountInv, CallsOk, CallOk
<1>. QED
  BY <1>6, <1>7, <1>8, <1>9 DEF AccountInv, Kept

\* A temporary password ages.
LEMMA QuarterKeeps ==
    ASSUME AccountInv, NEW r \in Request, QuarterPasses(r)
    PROVE  Kept
<1>1. users' = users /\ req' = req /\ held' = held /\ inbox' = inbox /\ aged' = aged \cup {r}
  BY DEF QuarterPasses
<1>2. r # None
  BY AccountAssumption
<1>3. Late(r)
  BY <1>2 DEF AccountInv, IssuedOk, QuarterPasses
<1>4. AccountsTypeOK' /\ CallsOk' /\ IssuedOk' /\ HeldOk'
  BY <1>1 DEF AccountInv, AccountsTypeOK, CallsOk, CallOk, IssuedOk, Late, HeldOk, GrantedIn
<1>5. AgedOk'
  BY <1>1, <1>3 DEF AccountInv, AgedOk, Late
<1>6. Lasting
  BY <1>1 DEF Lasting, UsersStay, CallsStay
<1>. QED
  BY <1>4, <1>5, <1>6 DEF AccountInv, Kept

\* What a restart does to a request.
LEMMA RestartedCall ==
    ASSUME AccountsTypeOK, AccountsRestart, NEW r \in Request
    PROVE  /\ req'[r] \in {None} \cup Call
           /\ req'[r] # None <=> req[r] # None
           /\ req[r] # None => /\ req'[r].user = req[r].user /\ req'[r].op = req[r].op
                               /\ req'[r].scope = req[r].scope /\ req'[r].pc = "done"
<1>1. req'[r] = IF Killed(r) THEN Moved(req[r], "done", req[r].scope) ELSE req[r]
  BY DEF AccountsRestart
<1>2. CASE req[r] = None
  BY <1>1, <1>2 DEF Killed
<1>3. CASE req[r] # None
  <2>1. req[r] \in Call /\ req[r].scope \in Outcome \cup {"none"} /\ "done" \in Step
    BY <1>3 DEF AccountsTypeOK, Call, Step
  <2>2. /\ Moved(req[r], "done", req[r].scope) \in Call
        /\ Moved(req[r], "done", req[r].scope).user = req[r].user
        /\ Moved(req[r], "done", req[r].scope).op = req[r].op
        /\ Moved(req[r], "done", req[r].scope).scope = req[r].scope
        /\ Moved(req[r], "done", req[r].scope).pc = "done"
    BY <2>1, MovedCall
  <2>3. Moved(req[r], "done", req[r].scope) # None
    BY <2>2, AccountAssumption
  <2>. QED
    BY <1>1, <1>3, <2>1, <2>2, <2>3 DEF Killed
<1>. QED
  BY <1>2, <1>3

\* A restart ends the requests where they are.
LEMMA RestartKeeps ==
    ASSUME AccountInv, AccountsRestart
    PROVE  Kept
<1>1. /\ AccountsTypeOK /\ users' = users /\ held' = held /\ inbox' = inbox /\ aged' = aged
  BY DEF AccountInv, AccountsRestart
<1>2. \A r \in Request : /\ req'[r] \in {None} \cup Call
                         /\ req'[r] # None <=> req[r] # None
                         /\ req[r] # None =>
                              /\ req'[r].user = req[r].user /\ req'[r].op = req[r].op
                              /\ req'[r].scope = req[r].scope /\ req'[r].pc = "done"
  BY <1>1, RestartedCall
<1>3. CallsStay
  BY <1>2 DEF CallsStay
<1>4. Lasting /\ IssuedOk' /\ AgedOk'
  BY <1>1, <1>3, NothingWritten
<1>5. held' \in [Browsers -> {None} \cup Tokens] /\ HeldAfter
  BY <1>1, Undelivered
<1>6. HeldOk'
  BY <1>1, <1>4, <1>5, HeldKept DEF AccountInv
<1>7. req' \in [Request -> {None} \cup Call]
  BY <1>2 DEF AccountsRestart
<1>8. AccountsTypeOK'
  BY <1>1, <1>5, <1>7 DEF AccountsTypeOK
<1>9. CallsOk'
  BY <1>2 DEF CallsOk, CallOk
<1>. QED
  BY <1>4, <1>6, <1>8, <1>9 DEF AccountInv, Kept

-----------------------------------------------------------------------------
(* The invariant *)

\* What is typed is a password.
LEMMA TypedPasswords == AccountsTypeOK => Typed \subseteq Password
BY DEF AccountsTypeOK, Typed, Password

\* Every step keeps the invariant, and what lasts.
LEMMA StepKeeps == AccountInv /\ [Next]_vars => Kept
<1>. SUFFICES ASSUME AccountInv, AccountStep PROVE Kept
  BY StepOfAccounts
<1>1. ASSUME NEW r \in Request, Submit(r) PROVE Kept
  <2>1. Typed \subseteq Password
    BY TypedPasswords DEF AccountInv
  <2>2. PICK b \in Browsers :
          \/ \E e \in Emails, p \in Passwords \cup {None} :
                 RegisterRefused(r, b, e, p) \/ RegisterChecked(r, b, e, p)
          \/ \E e \in Emails, p \in Typed : LogIn(r, b, e, p)
          \/ \E e \in Emails : ForgotPassword(r, b, e)
          \/ \E p \in Typed \cup {None} : ResetPassword(r, b, p)
    BY <1>1 DEF Submit
  <2>. QED
    BY <2>1, <2>2, RegisterBegins, LogInKeeps, ForgotKeeps, ResetKeeps
<1>2. ASSUME NEW r \in Request, Serve(r) PROVE Kept
  BY <1>2, InsertKeeps, SetTempKeeps, SendEmailKeeps, MintKeeps DEF Serve
<1>3. CASE Elapse
  BY <1>3, TokensGo, QuarterKeeps DEF Elapse
<1>4. CASE AccountsRestart
  BY <1>4, RestartKeeps
<1>5. CASE UNCHANGED accountVars
  BY <1>5 DEF accountVars, AccountInv, AccountsTypeOK, CallsOk, CallOk, IssuedOk, AgedOk, Late,
              HeldOk, GrantedIn, Kept, Lasting, UsersStay, CallsStay
<1>. QED
  BY <1>1, <1>2, <1>3, <1>4, <1>5 DEF AccountStep

\* It holds at first.
LEMMA InitKeeps == Init => AccountInv
<1>. SUFFICES ASSUME AccountsInit PROVE AccountInv
  BY DEF Init
<1>1. \A p \in Passwords : Chosen(p) \in Row /\ Chosen(p).expires = None
  BY RowsMade DEF Chosen, Password
<1>2. users \in [Emails -> {None} \cup Row] /\ IssuedOk
  BY <1>1 DEF AccountsInit, IssuedOk
<1>. QED
  BY <1>2 DEF AccountsInit, AccountInv, AccountsTypeOK, CallsOk, CallOk, AgedOk, HeldOk

\* A request inserts, updates, mails or mints only with what its checks have
\* left true, a temporary password in the table was issued, and every token in
\* a browser was granted by a request of its user.
THEOREM AccountsInvariant == Spec => []AccountInv
<1>1. Init => AccountInv
  BY InitKeeps
<1>2. AccountInv /\ [Next]_vars => AccountInv'
  BY StepKeeps DEF Kept
<1>. QED
  BY <1>1, <1>2, PTL DEF Spec

-----------------------------------------------------------------------------
(* Temporary passwords nobody was told *)

\* A password that is written was typed, or is the temporary one of a request
\* for its user, which has yet to mail it.
RowAfter(e) ==
    \/ users'[e] = users[e]
    \/ users'[e].password \in Passwords \cup inbox
    \/ /\ users'[e].must_reset
       /\ \E r \in Request : /\ users'[e].password = r /\ req'[r] # None
                             /\ req'[r].pc = "mail" /\ req'[r].user = e

\* So it is for every row, and mails that were sent stay sent.
LEMMA RowsAfter ==
    ASSUME AccountInv, AccountStep
    PROVE  inbox \subseteq inbox' /\ \A e \in Emails : RowAfter(e)
<1>1. AccountsTypeOK
  BY DEF AccountInv
<1>2. ASSUME NEW r \in Request, Insert(r)
      PROVE  inbox \subseteq inbox' /\ \A e \in Emails : RowAfter(e)
  <2>1. req[r].password \in Passwords
    BY <1>2 DEF AccountInv, CallsOk, CallOk, Insert, Awaits
  <2>. QED
    BY <1>1, <1>2, <2>1 DEF Insert, RowAfter, AccountsTypeOK, Chosen
<1>3. ASSUME NEW r \in Request, SetTempPassword(r)
      PROVE  inbox \subseteq inbox' /\ \A e \in Emails : RowAfter(e)
  <2>1. /\ req[r] # None /\ req[r].pc = "update" /\ req[r].scope = "none" /\ "mail" \in Step
    BY <1>3 DEF SetTempPassword, Awaits, AccountInv, CallsOk, CallOk, Step
  <2>2. req'[r] # None /\ req'[r].pc = "mail" /\ req'[r].user = req[r].user
    BY <1>1, <1>3, <2>1, NextStep DEF SetTempPassword
  <2>3. users' = [users EXCEPT ![req[r].user] = Temporary(r)] /\ inbox' = inbox
    BY <1>3 DEF SetTempPassword
  <2>. QED
    BY <1>1, <2>2, <2>3 DEF RowAfter, AccountsTypeOK, Temporary
<1>4. ASSUME NEW r \in Request, NEW b \in Browsers, NEW p \in Typed \cup {None}, ResetPassword(r, b, p)
      PROVE  inbox \subseteq inbox' /\ \A e \in Emails : RowAfter(e)
  BY <1>1, <1>4 DEF ResetPassword, RowAfter, AccountsTypeOK, Chosen, Typed
<1>5. ASSUME NEW r \in Request, SendEmail(r)
      PROVE  inbox \subseteq inbox' /\ \A e \in Emails : RowAfter(e)
  BY <1>5 DEF SendEmail, RowAfter
<1>6. ASSUME UNCHANGED <<users, inbox>>
      PROVE  inbox \subseteq inbox' /\ \A e \in Emails : RowAfter(e)
  BY <1>6 DEF RowAfter
<1>7. ASSUME NEW r \in Request, Submit(r)
      PROVE  inbox \subseteq inbox' /\ \A e \in Emails : RowAfter(e)
  BY <1>4, <1>6, <1>7
     DEF Submit, RegisterRefused, RegisterChecked, LogIn, ForgotPassword
<1>8. ASSUME NEW r \in Request, Serve(r)
      PROVE  inbox \subseteq inbox' /\ \A e \in Emails : RowAfter(e)
  BY <1>2, <1>3, <1>5, <1>6, <1>8 DEF Serve, MintAfterReset
<1>9. Elapse \/ AccountsRestart \/ UNCHANGED accountVars => UNCHANGED <<users, inbox>>
  BY DEF Elapse, DropToken, TokenExpires, QuarterPasses, AccountsRestart, accountVars
<1>. QED
  BY <1>6, <1>7, <1>8, <1>9 DEF AccountStep

\* The rows nobody was told the password of keep their excuse.
LEMMA LockedKept ==
    ASSUME AccountInv, LockedOutByMail, [Next]_vars
    PROVE  LockedOutByMail'
<1>1. AccountsTypeOK /\ Lasting
  BY StepKeeps DEF AccountInv, Kept
<1>2. inbox \subseteq inbox' /\ \A e \in Emails : RowAfter(e)
  BY StepOfAccounts, RowsAfter
<1>. SUFFICES ASSUME NEW e \in Emails, users'[e] # None,
                     users'[e].password \notin Passwords \cup inbox'
              PROVE  /\ users'[e].must_reset
                     /\ req'[users'[e].password] # None
                     /\ req'[users'[e].password].pc \in {"mail", "done"}
                     /\ req'[users'[e].password].user = e
  BY DEF LockedOutByMail
<1>3. users'[e].password \notin Passwords \cup inbox
  BY <1>2
<1>4. CASE users'[e] = users[e]
  <2>1. users[e].password \in Request
    BY <1>1, <1>3, <1>4 DEF AccountsTypeOK, Row, Password
  <2>. QED
    BY <1>1, <1>3, <1>4, <2>1 DEF LockedOutByMail, Lasting, CallsStay
<1>. QED
  BY <1>2, <1>3, <1>4 DEF RowAfter

\* A password its owner cannot know is the doing of a mail that did not get out.
THEOREM LockedOutInvariant == Spec => []LockedOutByMail
<1>1. Init => LockedOutByMail
  BY DEF Init, AccountsInit, LockedOutByMail, Chosen
<1>2. AccountInv /\ LockedOutByMail /\ [Next]_vars => LockedOutByMail'
  BY LockedKept
<1>. QED
  BY <1>1, <1>2, AccountsInvariant, PTL DEF Spec

-----------------------------------------------------------------------------
(* Each endpoint acts at one instant *)

LifeStep == Life!Next \/ UNCHANGED Life!lifeVars

\* A request is answered.
LEMMA GrantStep ==
    ASSUME NEW r \in Request, NEW op, NEW e, NEW scope,
           \A q \in Request \ {r} : req'[q] = req[q],
           req[r] = None \/ req[r].scope = "none",
           req'[r] # None, req'[r].op = op, req'[r].user = e, req'[r].scope = scope,
           scope # "none"
    PROVE  Life!Grant(r, op, e, scope)
BY DEF Life!Grant, Granted

\* No request is answered.
LEMMA NoGrant ==
    ASSUME \A q \in Request : Granted(q)' = Granted(q), users' = users, aged' = aged
    PROVE  LifeStep
BY DEF LifeStep, Life!lifeVars

\* Not the one that goes on, either.
LEMMA NoGrantToOne ==
    ASSUME NEW r \in Request, \A q \in Request \ {r} : req'[q] = req[q],
           Granted(r)' = Granted(r), users' = users, aged' = aged
    PROVE  LifeStep
<1>1. \A q \in Request : Granted(q)' = Granted(q)
  BY DEF Granted
<1>. QED
  BY <1>1, NoGrant

\* A registration is refused at once, or still undecided.
LEMMA RegisterBeginsLife ==
    ASSUME AccountInv, NEW r \in Request, NEW b \in Browsers, NEW e \in Emails,
           NEW p \in Passwords \cup {None},
           RegisterRefused(r, b, e, p) \/ RegisterChecked(r, b, e, p)
    PROVE  LifeStep
<1>. DEFINE refused == Asked(b, "register", e, p, "done", "refused")
            checked == Asked(b, "register", e, p, "insert", "none")
<1>1. refused \in Call /\ checked \in Call
  BY CallsMade DEF Op, Step, Outcome, Password
<1>2. /\ AccountsTypeOK /\ req[r] = None /\ users' = users /\ aged' = aged
  BY DEF AccountInv, RegisterRefused, RegisterChecked
<1>3. CASE RegisterRefused(r, b, e, p)
  <2>1. refused.op = "register" /\ refused.user = e /\ refused.scope = "refused"
    BY DEF Asked
  <2>2. req' = [req EXCEPT ![r] = refused]
    BY <1>3 DEF RegisterRefused
  <2>. HIDE DEF refused
  <2>3. req'[r] = refused /\ req'[r] # None /\ \A q \in Request \ {r} : req'[q] = req[q]
    BY <1>1, <1>2, <2>2, NewCall
  <2>4. Life!Grant(r, "register", e, "refused")
    BY <1>2, <2>1, <2>3, GrantStep
  <2>. QED
    BY <1>2, <2>4 DEF LifeStep, Life!Next, Life!Refuse
<1>4. CASE RegisterChecked(r, b, e, p)
  <2>1. checked.scope = "none"
    BY DEF Asked
  <2>2. req' = [req EXCEPT ![r] = checked]
    BY <1>4 DEF RegisterChecked
  <2>. HIDE DEF checked
  <2>3. req'[r] = checked /\ \A q \in Request \ {r} : req'[q] = req[q]
    BY <1>1, <1>2, <2>2, NewCall
  <2>. QED
    BY <1>2, <2>1, <2>3, NoGrantToOne DEF Granted
<1>. QED
  BY <1>3, <1>4

\* It is decided by the insert.
LEMMA InsertLife ==
    ASSUME AccountInv, NEW r \in Request, Insert(r)
    PROVE  LifeStep
<1>1. /\ AccountsTypeOK /\ req[r] # None /\ req[r].pc = "insert" /\ req[r].op = "register"
      /\ req[r].password \in Passwords /\ req[r].scope = "none" /\ aged' = aged
  BY DEF AccountInv, Insert, Awaits, CallsOk, CallOk
<1>2. req[r].user \in Emails /\ "done" \in Step /\ {"full", "refused"} \subseteq Outcome
  BY <1>1 DEF AccountsTypeOK, Call, Step, Outcome
<1>3. CASE users[req[r].user] = None
  <2>1. /\ users' = [users EXCEPT ![req[r].user] = Chosen(req[r].password)]
        /\ Move(r, "done", "full")
    BY <1>3 DEF Insert
  <2>2. Life!Grant(r, "register", req[r].user, "full")
    <3>1. /\ req'[r] # None /\ req'[r].op = "register" /\ req'[r].user = req[r].user
          /\ req'[r].scope = "full" /\ \A q \in Request \ {r} : req'[q] = req[q]
      BY <1>1, <1>2, <2>1, NextStep
    <3>. QED
      BY <1>1, <3>1, GrantStep
  <2>3. Life!Register(r, req[r].user, req[r].password)
    BY <1>1, <1>3, <2>1, <2>2 DEF Life!Register, Life!Chosen, Chosen
  <2>. QED
    BY <1>1, <1>2, <2>3 DEF LifeStep, Life!Next
<1>4. CASE users[req[r].user] # None
  <2>1. users' = users /\ Move(r, "done", "refused")
    BY <1>4 DEF Insert
  <2>2. Life!Grant(r, "register", req[r].user, "refused")
    <3>1. /\ req'[r] # None /\ req'[r].op = "register" /\ req'[r].user = req[r].user
          /\ req'[r].scope = "refused" /\ \A q \in Request \ {r} : req'[q] = req[q]
      BY <1>1, <1>2, <2>1, NextStep
    <3>. QED
      BY <1>1, <3>1, GrantStep
  <2>. QED
    BY <1>1, <1>2, <2>1, <2>2 DEF LifeStep, Life!Next, Life!Refuse
<1>. QED
  BY <1>3, <1>4

\* A login is decided when it reads the row.
LEMMA LogInLife ==
    ASSUME AccountInv, NEW r \in Request, NEW b \in Browsers, NEW e \in Emails, NEW p \in Password,
           LogIn(r, b, e, p)
    PROVE  LifeStep
<1>. DEFINE scope == IF ~Accepts(users[e], p, aged) THEN "refused"
                     ELSE IF users[e].must_reset THEN "limited" ELSE "full"
            call == Asked(b, "login", e, p, "done", scope)
<1>1. /\ AccountsTypeOK /\ req[r] = None /\ req' = [req EXCEPT ![r] = call]
      /\ users' = users /\ aged' = aged
  BY DEF AccountInv, LogIn
<1>2. /\ scope \in Outcome /\ scope # "none"
      /\ \/ scope = "refused"
         \/ Accepts(users[e], p, aged) /\ scope = IF users[e].must_reset THEN "limited" ELSE "full"
  BY DEF Outcome
<1>3. call.op = "login" /\ call.user = e /\ call.scope = scope
  BY DEF Asked
<1>. HIDE DEF scope
<1>4. call \in Call
  BY <1>2, CallsMade DEF Op, Step, Outcome
<1>. HIDE DEF call
<1>5. req'[r] = call /\ req'[r] # None /\ \A q \in Request \ {r} : req'[q] = req[q]
  BY <1>1, <1>4, NewCall
<1>6. Life!Grant(r, "login", e, scope)
  BY <1>1, <1>2, <1>3, <1>5, GrantStep
<1>7. CASE scope = "refused"
  BY <1>1, <1>6, <1>7 DEF LifeStep, Life!Next, Life!Refuse
<1>8. CASE Accepts(users[e], p, aged) /\ scope = IF users[e].must_reset THEN "limited" ELSE "full"
  <2>1. Life!LogIn(r, e, p)
    BY <1>1, <1>6, <1>8 DEF Life!LogIn, Life!Accepts, Life!Scope, Accepts
  <2>. QED
    BY <2>1 DEF LifeStep, Life!Next, Password
<1>. QED
  BY <1>2, <1>7, <1>8

\* A forgot-password request begins without effect.
LEMMA ForgotLife ==
    ASSUME AccountInv, NEW r \in Request, NEW b \in Browsers, NEW e \in Emails,
           ForgotPassword(r, b, e)
    PROVE  LifeStep
<1>. DEFINE pc == IF users[e] = None THEN "done" ELSE "update"
            call == Asked(b, "forgot", e, None, pc, "none")
<1>1. /\ AccountsTypeOK /\ req[r] = None /\ req' = [req EXCEPT ![r] = call]
      /\ users' = users /\ aged' = aged
  BY DEF AccountInv, ForgotPassword
<1>2. call.scope = "none"
  BY DEF Asked
<1>3. pc \in Step
  BY DEF Step
<1>. HIDE DEF pc
<1>4. call \in Call
  BY <1>3, CallsMade DEF Op
<1>. HIDE DEF call
<1>5. req'[r] = call /\ \A q \in Request \ {r} : req'[q] = req[q]
  BY <1>1, <1>4, NewCall
<1>. QED
  BY <1>1, <1>2, <1>5, NoGrantToOne DEF Granted

\* A request that is about to write its temporary password has not issued one.
LEMMA SetTempLife ==
    ASSUME AccountInv, NEW r \in Request, SetTempPassword(r)
    PROVE  LifeStep
<1>1. /\ AccountsTypeOK /\ req[r] # None /\ req[r].pc = "update" /\ req[r].scope = "none"
      /\ users[req[r].user] # None /\ r \notin aged
  BY DEF AccountInv, SetTempPassword, Awaits, CallsOk, CallOk, AgedOk, Late
<1>2. req[r].user \in Emails /\ "mail" \in Step
  BY <1>1 DEF AccountsTypeOK, Call, Step
<1>3. /\ users' = [users EXCEPT ![req[r].user] = Temporary(r)] /\ Move(r, "mail", "none")
      /\ aged' = aged
  BY DEF SetTempPassword
<1>4. req'[r] # None /\ req'[r].scope = "none" /\ \A q \in Request \ {r} : req'[q] = req[q]
  BY <1>1, <1>3, <1>2, NextStep
<1>5. \A q \in Request : Granted(q)' = Granted(q)
  BY <1>1, <1>4 DEF Granted
<1>6. [q \in Request |-> Granted(q)]' = [q \in Request |-> Granted(q)] /\ Granted(r) = None
  BY <1>1, <1>5 DEF Granted
<1>7. Life!Issue(r, req[r].user)
  BY <1>1, <1>3, <1>6 DEF Life!Issue, Life!Temporary, Temporary
<1>. QED
  BY <1>2, <1>7 DEF LifeStep, Life!Next

\* The mail is nothing the table knows of.
LEMMA SendEmailLife ==
    ASSUME AccountInv, NEW r \in Request, SendEmail(r)
    PROVE  LifeStep
<1>1. /\ AccountsTypeOK /\ req[r] # None /\ req[r].pc = "mail" /\ req[r].scope = "none"
      /\ Move(r, "done", "none") /\ users' = users /\ aged' = aged /\ "done" \in Step
  BY DEF AccountInv, SendEmail, Awaits, CallsOk, CallOk, Step
<1>2. req'[r] # None /\ req'[r].scope = "none" /\ \A q \in Request \ {r} : req'[q] = req[q]
  BY <1>1, NextStep
<1>. QED
  BY <1>1, <1>2, NoGrantToOne DEF Granted

\* Whoever has a token was granted it.
LEMMA Holds ==
    ASSUME AccountInv, NEW b \in Browsers, held[b] # None
    PROVE  Life!HoldsToken(held[b].user)
<1>1. held[b].user \in Emails /\ held[b].scope \in {"limited", "full"}
  BY DEF AccountInv, AccountsTypeOK, Tokens
<1>2. PICK q \in Request : /\ req[q] # None /\ req[q].user = held[b].user
                           /\ req[q].scope = held[b].scope
  BY DEF AccountInv, HeldOk, GrantedIn
<1>3. req[q].op \in Op
  BY <1>2 DEF AccountInv, AccountsTypeOK, Call
<1>4. Granted(q) = [op |-> req[q].op, user |-> held[b].user, scope |-> held[b].scope]
  BY <1>1, <1>2 DEF Granted
<1>5. Granted(q) \in Grants
  BY <1>1, <1>3, <1>4 DEF Grants, Outcome
<1>6. Granted(q) # None
  BY <1>5, AccountAssumption
<1>. QED
  BY <1>1, <1>4, <1>6 DEF Life!HoldsToken

\* A reset acts when it writes the row.
LEMMA ResetLife ==
    ASSUME AccountInv, NEW r \in Request, NEW b \in Browsers, NEW p \in Password \cup {None},
           ResetPassword(r, b, p)
    PROVE  LifeStep
<1>1. /\ AccountsTypeOK /\ req[r] = None /\ held[b] # None /\ aged' = aged
  BY DEF AccountInv, ResetPassword, Authenticated
<1>2. held[b].user \in Emails
  BY <1>1 DEF AccountsTypeOK, Tokens
<1>3. CASE p = None
  <2>. DEFINE call == Asked(b, "reset", held[b].user, p, "done", "refused")
  <2>1. req' = [req EXCEPT ![r] = call] /\ users' = users
    BY <1>3 DEF ResetPassword
  <2>2. call \in Call /\ call.op = "reset" /\ call.user = held[b].user /\ call.scope = "refused"
    BY <1>2, CallsMade DEF Op, Step, Outcome, Asked
  <2>. HIDE DEF call
  <2>3. req'[r] = call /\ req'[r] # None /\ \A q \in Request \ {r} : req'[q] = req[q]
    BY <1>1, <2>1, <2>2, NewCall
  <2>4. Life!Grant(r, "reset", held[b].user, "refused")
    BY <1>1, <2>2, <2>3, GrantStep
  <2>. QED
    BY <1>1, <1>2, <2>1, <2>4 DEF LifeStep, Life!Next, Life!Refuse
<1>4. CASE p # None
  <2>. DEFINE call == Asked(b, "reset", held[b].user, p, "mint", "full")
  <2>1. req' = [req EXCEPT ![r] = call] /\ users' = [users EXCEPT ![held[b].user] = Chosen(p)]
    BY <1>4 DEF ResetPassword
  <2>2. call \in Call /\ call.op = "reset" /\ call.user = held[b].user /\ call.scope = "full"
    BY <1>2, CallsMade DEF Op, Step, Outcome, Asked
  <2>. HIDE DEF call
  <2>3. req'[r] = call /\ req'[r] # None /\ \A q \in Request \ {r} : req'[q] = req[q]
    BY <1>1, <2>1, <2>2, NewCall
  <2>4. Life!Grant(r, "reset", held[b].user, "full")
    BY <1>1, <2>2, <2>3, GrantStep
  <2>5. Life!HoldsToken(held[b].user) /\ users[held[b].user] # None
    BY <1>1, Holds DEF AccountInv, HeldOk
  <2>6. Life!Choose(r, held[b].user, p)
    BY <1>1, <2>1, <2>4, <2>5 DEF Life!Choose, Life!Chosen, Chosen
  <2>. QED
    BY <1>2, <1>4, <2>6 DEF LifeStep, Life!Next, Password
<1>. QED
  BY <1>3, <1>4

\* The token it hands out later was granted then.
LEMMA MintLife ==
    ASSUME AccountInv, NEW r \in Request, MintAfterReset(r)
    PROVE  LifeStep
<1>1. /\ AccountsTypeOK /\ req[r] # None /\ req[r].pc = "mint" /\ req[r].scope = "full"
      /\ Move(r, "done", "full") /\ users' = users /\ aged' = aged
      /\ "done" \in Step /\ "full" \in Outcome
  BY DEF AccountInv, MintAfterReset, Awaits, CallsOk, CallOk, Step, Outcome
<1>2. /\ req'[r] # None /\ req'[r].scope = "full" /\ req'[r].user = req[r].user
      /\ req'[r].op = req[r].op /\ \A q \in Request \ {r} : req'[q] = req[q]
  BY <1>1, NextStep
<1>. QED
  BY <1>1, <1>2, NoGrantToOne DEF Granted

\* A restart takes nothing back.
LEMMA RestartLife ==
    ASSUME AccountInv, AccountsRestart
    PROVE  LifeStep
<1>1. /\ AccountsTypeOK /\ users' = users /\ aged' = aged
  BY DEF AccountInv, AccountsRestart
<1>2. \A r \in Request : /\ req'[r] # None <=> req[r] # None
                         /\ req[r] # None =>
                              /\ req'[r].user = req[r].user /\ req'[r].op = req[r].op
                              /\ req'[r].scope = req[r].scope
  BY <1>1, RestartedCall
<1>3. \A r \in Request : Granted(r)' = Granted(r)
  BY <1>2 DEF Granted
<1>. QED
  BY <1>1, <1>3, NoGrant

\* Tokens come and go unseen; temporary passwords age.
LEMMA ElapseLife ==
    ASSUME AccountInv, Elapse
    PROVE  LifeStep
<1>1. ASSUME NEW b \in Browsers, DropToken(b) \/ TokenExpires(b) PROVE LifeStep
  BY <1>1, NoGrant DEF DropToken, TokenExpires, Granted
<1>2. ASSUME NEW r \in Request, QuarterPasses(r) PROVE LifeStep
  <2>1. /\ users' = users /\ aged' = aged \cup {r}
        /\ [q \in Request |-> Granted(q)]' = [q \in Request |-> Granted(q)]
    BY <1>2 DEF QuarterPasses, Granted
  <2>2. Life!PassTime(r)
    BY <2>1 DEF Life!PassTime
  <2>. QED
    BY <2>2 DEF LifeStep, Life!Next
<1>. QED
  BY <1>1, <1>2 DEF Elapse

\* Every step is one of AccountLife, or none.
LEMMA StepIsLife == AccountInv /\ [Next]_vars => LifeStep
<1>. SUFFICES ASSUME AccountInv, AccountStep PROVE LifeStep
  BY StepOfAccounts
<1>1. ASSUME NEW r \in Request, Submit(r) PROVE LifeStep
  <2>1. Typed \subseteq Password
    BY TypedPasswords DEF AccountInv
  <2>2. PICK b \in Browsers :
          \/ \E e \in Emails, p \in Passwords \cup {None} :
                 RegisterRefused(r, b, e, p) \/ RegisterChecked(r, b, e, p)
          \/ \E e \in Emails, p \in Typed : LogIn(r, b, e, p)
          \/ \E e \in Emails : ForgotPassword(r, b, e)
          \/ \E p \in Typed \cup {None} : ResetPassword(r, b, p)
    BY <1>1 DEF Submit
  <2>. QED
    BY <2>1, <2>2, RegisterBeginsLife, LogInLife, ForgotLife, ResetLife
<1>2. ASSUME NEW r \in Request, Serve(r) PROVE LifeStep
  BY <1>2, InsertLife, SetTempLife, SendEmailLife, MintLife DEF Serve
<1>3. CASE Elapse
  BY <1>3, ElapseLife
<1>4. CASE AccountsRestart
  BY <1>4, RestartLife
<1>5. CASE UNCHANGED accountVars
  BY <1>5, NoGrant DEF accountVars, Granted
<1>. QED
  BY <1>1, <1>2, <1>3, <1>4, <1>5 DEF AccountStep

\* Overlapping register, login, forgot-password and reset requests, restarts
\* and lost answers add up to endpoints that each act at one instant.
THEOREM AccountsAreAtomic == Spec => AtomicAccounts
<1>1. Init => Life!Init
  BY DEF Init, AccountsInit, Life!Init, Granted, Life!Chosen, Chosen
<1>2. AccountInv /\ [Next]_vars => [Life!Next]_(Life!lifeVars)
  BY StepIsLife DEF LifeStep
<1>. QED
  BY <1>1, <1>2, AccountsInvariant, PTL DEF Spec, AtomicAccounts, Life!Spec
=============================================================================
