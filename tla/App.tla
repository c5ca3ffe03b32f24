-------------------------------- MODULE App --------------------------------
(***************************************************************************)
(* The service of app/main.py: accounts and the chat in one process.  The  *)
(* chat knows its user by the token in the browser of the page; a restart  *)
(* ends every request of both.                                             *)
(***************************************************************************)
EXTENDS Chat

CONSTANT MaxMade  \* bound: requests and turns made in all

ASSUME AppAssumption == MaxMade \in Nat

vars == <<accountVars, chatVars>>

Unmade == {r \in Request : req[r] = None}
Unsent == Turn \ Sent
MayMake ==
    Cardinality(Request \ Unmade) + Cardinality(Sent) < MaxMade

\* Requests are alike before they are made, and so are turns: it does not
\* matter which of them comes first.
MakeRequest ==
    /\ MayMake /\ Unmade # {}
    /\ Submit(CHOOSE r \in Unmade : TRUE)
    /\ UNCHANGED chatVars
SendMessage ==
    /\ MayMake /\ Unsent # {}
    /\ \E g \in Pages, name \in Statements :
           Send(CHOOSE t \in Unsent : TRUE, g, CurrentUser(g), name)
    /\ UNCHANGED accountVars

ServeRequest(r) == Serve(r) /\ UNCHANGED chatVars
ServeTurn(t) == Proceed(t) /\ UNCHANGED accountVars
Restart == AccountsRestart /\ ChatRestart

Init == AccountsInit /\ ChatInit
Next ==
    \/ MakeRequest \/ SendMessage \/ Restart
    \/ \E r \in Request : ServeRequest(r)
    \/ \E t \in Turn : ServeTurn(t)
    \/ Elapse /\ UNCHANGED chatVars
    \/ (\E g \in Pages : Reload(g)) /\ UNCHANGED accountVars

\* A request runs in a worker thread of its own and every call it makes ends,
\* by an answer or by its timeout.  People, time and restarts are not fair.
Fairness ==
    /\ \A r \in Request : WF_vars(ServeRequest(r))
    /\ \A t \in Turn : WF_vars(ServeTurn(t))

Spec == Init /\ [][Next]_vars /\ Fairness

-----------------------------------------------------------------------------
TypeOK == AccountsTypeOK /\ ChatTypeOK

\* A turn speaks for a user only if a request had been granted a full token of
\* that user's: whoever has a temporary password, mailed or not, chats as a
\* guest until a reset.
GuestUnlessGranted ==
    \A t \in Turn : (turns[t] # None /\ turns[t].user # None) =>
        \E r \in Request : /\ req[r] # None
                            /\ req[r].user = turns[t].user /\ req[r].scope = "full"
=============================================================================
