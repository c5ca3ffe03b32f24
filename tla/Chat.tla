-------------------------------- MODULE Chat --------------------------------
(***************************************************************************)
(* The homepage assistant: the chat of frontend/app.html, /api/chat and    *)
(* the LangGraph agent of features/chatbot/langgraph_chatbot.py.           *)
(*                                                                         *)
(* A turn runs through the nodes of the graph.  LangGraph loads the        *)
(* conversation of the thread when the turn starts, works on that copy,    *)
(* and stores the copy after every node; it takes no lock on the thread.   *)
(* While a request is out the page disables its send button, but not the   *)
(* Enter key.  Turns on one thread, and first turns of one page, overlap.  *)
(*                                                                         *)
(* A message is <<turn, "q">>, a question, or <<turn, "a">>, its answer; a *)
(* thread is named after the turn it was minted for.  What people say      *)
(* about themselves is a name or nothing, and a profile is the name.       *)
(*                                                                         *)
(* History: a turn notes whether another one of its thread was under way   *)
(* with it (`alone`), when it was sent (`nth`), and what it was answered.  *)
(***************************************************************************)
EXTENDS Accounts, Integers, FiniteSets, Sequences, SequencesExt

CONSTANTS
    Pages, Names,
    Turn,       \* bound: the messages sent, each once
    MessageCap, \* STATE_MESSAGE_CAP
    Durable     \* is Postgres there for the checkpoints?

Message == Turn \X {"q", "a"}

\* What extract_name finds in a message, and who writes the reply: the model,
\* or fallback_reply.
Statements == Names \cup {None}
Replies == {"model", "fallback"}

\* A turn, while it runs and after.
Node == {"sync", "generate", "calling", "trim", "answer", "done", "failed"}
Said == Replies \cup {"none", "notice"}
Turns == [page : Pages, thread : Turn, user : Emails \cup {None}, name : Statements,
          messages : Seq(Message), alone : BOOLEAN, nth : Nat, pc : Node, reply : Said]

ASSUME ChatAssumption ==
    /\ None \notin Names \cup Turn
    /\ Pages \subseteq Browsers  \* one chat page a browser
    /\ MessageCap \in Nat \ {0} /\ Durable \in BOOLEAN
    /\ None \notin Turns
    /\ IsFiniteSet(Turn)

VARIABLES
    turns,    \* the turns: None until sent
    session,  \* the sessionId of each page; None at first
    threads,  \* the stored conversations
    profiles, \* the name stored for each user, or None
    warming   \* the flag _warming_up of the agent, one for all requests

chatVars == <<turns, session, threads, profiles, warming>>

At(t, pc) == turns[t] # None /\ turns[t].pc = pc
Running(t) == turns[t] # None /\ turns[t].pc \notin {"done", "failed"}
InCall(t) == At(t, "calling")

Sent == {t \in Turn : turns[t] # None}

\* (mistaken) the latest messages go
TrimLatest(messages) ==
    IF Len(messages) <= MessageCap THEN messages ELSE SubSeq(messages, 1, MessageCap)

\* _trim_memory removes the oldest messages over the cap.
Trim(messages) ==
    IF Len(messages) <= MessageCap THEN messages
    ELSE SubSeq(messages, Len(messages) - MessageCap + 1, Len(messages))

Advanced(turn, messages, pc, reply) ==
    [turn EXCEPT !.messages = messages, !.pc = pc, !.reply = reply]

\* A node has returned: its update is in the copy, and the copy is stored.
Checkpoint(t, messages, pc, reply) ==
    /\ threads' = [threads EXCEPT ![turns[t].thread] = messages]
    /\ turns' = [turns EXCEPT ![t] = Advanced(@, messages, pc, reply)]

\* A step without a checkpoint.
Goes(t, pc, reply) == turns' = [turns EXCEPT ![t] = Advanced(@, @.messages, pc, reply)]

-----------------------------------------------------------------------------
(* One turn *)

\* generate_reply starts the graph with the question added to the conversation.
Opened(t, thread) == Append(threads[thread], <<t, "q">>)

\* sendMessage, up to the first checkpoint.  Without a session the server mints
\* one.
Send(t, g, user, name) ==
    LET thread == IF session[g] = None THEN t ELSE session[g]
        copy == Opened(t, thread)
        mates == {o \in Turn : Running(o) /\ turns[o].thread = thread}
        turn == [page |-> g, thread |-> thread, user |-> user, name |-> name,
                 messages |-> copy, pc |-> "sync", reply |-> "none",
                 alone |-> mates = {}, nth |-> Cardinality(Sent) + 1]
    IN  /\ turns[t] = None
        /\ turns' = [o \in Turn |-> IF o = t THEN turn
                                    ELSE IF o \in mates THEN [turns[o] EXCEPT !.alone = FALSE]
                                    ELSE turns[o]]
        /\ threads' = [threads EXCEPT ![thread] = copy]
        /\ UNCHANGED <<session, profiles, warming>>

\* store_user_profile merges what was stated into what is stored.
StoredProfiles(user, name) == [profiles EXCEPT ![user] = name]

\* _sync_memory; a guest has no profile.
SyncMemory(t) ==
    /\ At(t, "sync")
    /\ profiles' = IF turns[t].user = None \/ turns[t].name = None THEN profiles
                   ELSE StoredProfiles(turns[t].user, turns[t].name)
    /\ Checkpoint(t, turns[t].messages, "generate", "none")
    /\ UNCHANGED <<session, warming>>

\* The database may be away when the profile is read or written.
SyncFails(t) ==
    /\ At(t, "sync") /\ turns[t].user # None
    /\ Goes(t, "failed", "none")
    /\ UNCHANGED <<session, threads, profiles, warming>>

CallModel(t) ==
    /\ At(t, "generate")
    /\ warming' = TRUE
    /\ Goes(t, "calling", "none")
    /\ UNCHANGED <<session, threads, profiles>>

\* (mistaken) the answer is added to what is stored by now
ReturnToStore(t, reply) ==
    /\ At(t, "calling")
    /\ Checkpoint(t, Append(threads[turns[t].thread], <<t, "a">>), "trim", reply)
    /\ warming' = FALSE
    /\ UNCHANGED <<session, profiles>>

\* The model answers, or else, after a timeout or an error, fallback_reply
\* does; the call clears the flag either way.
Return(t, reply) ==
    /\ At(t, "calling")
    /\ Checkpoint(t, Append(turns[t].messages, <<t, "a">>), "trim", reply)
    /\ warming' = FALSE
    /\ UNCHANGED <<session, profiles>>

\* (mistaken) only the exceptions that are caught clear the flag
FailWithoutFinally(t) ==
    /\ At(t, "calling")
    /\ Goes(t, "failed", "none")
    /\ UNCHANGED <<session, threads, profiles, warming>>

\* An answer of another shape than the agent expects: not a RequestException.
CallFails(t) ==
    /\ At(t, "calling")
    /\ Goes(t, "failed", "none")
    /\ warming' = FALSE
    /\ UNCHANGED <<session, threads, profiles>>

\* (mistaken) the node is passed only when there is something to remove
TrimOverflow(t) ==
    /\ At(t, "trim") /\ Len(turns[t].messages) > MessageCap
    /\ Checkpoint(t, Trim(turns[t].messages), "answer", turns[t].reply)
    /\ UNCHANGED <<session, profiles, warming>>

TrimMemory(t) ==
    /\ At(t, "trim")
    /\ Checkpoint(t, Trim(turns[t].messages), "answer", turns[t].reply)
    /\ UNCHANGED <<session, profiles, warming>>

\* chat looks at the flag only now, and gives the notice in place of the reply
\* if it is up.  The page may have given up on the answer (`arrives` FALSE).
Answer(t, arrives) ==
    /\ At(t, "answer")
    /\ Goes(t, IF arrives THEN "done" ELSE "failed", IF warming THEN "notice" ELSE turns[t].reply)
    /\ session' = IF arrives THEN [session EXCEPT ![turns[t].page] = turns[t].thread]
                  ELSE session
    /\ UNCHANGED <<threads, profiles, warming>>

-----------------------------------------------------------------------------
(* The rest of the system *)

\* The conversation of a page ends when it is loaded again; the answers it was
\* waiting for are among those that do not arrive.
Reload(g) ==
    /\ session[g] # None
    /\ \A t \in Turn : Running(t) => turns[t].page # g
    /\ session' = [session EXCEPT ![g] = None]
    /\ UNCHANGED <<turns, threads, profiles, warming>>

\* Checkpoints and profiles outlive a restart unless the agent had fallen back
\* to its in-process memory.
ChatRestart ==
    /\ turns' = [t \in Turn |-> IF Running(t) THEN [turns[t] EXCEPT !.pc = "failed"]
                                ELSE turns[t]]
    /\ warming' = FALSE
    /\ IF Durable THEN UNCHANGED <<threads, profiles>>
       ELSE /\ threads' = [t \in Turn |-> << >>]
            /\ profiles' = [u \in Emails |-> None]
    /\ UNCHANGED session

ChatInit ==
    /\ turns = [t \in Turn |-> None]
    /\ session = [g \in Pages |-> None]
    /\ threads = [t \in Turn |-> << >>]
    /\ profiles = [u \in Emails |-> None]
    /\ warming = FALSE

Proceed(t) ==
    \/ SyncMemory(t) \/ SyncFails(t) \/ CallModel(t) \/ CallFails(t) \/ TrimMemory(t)
    \/ \E reply \in Replies : Return(t, reply)
    \/ \E arrives \in BOOLEAN : Answer(t, arrives)

-----------------------------------------------------------------------------
(* Correctness *)

ChatTypeOK ==
    /\ turns \in [Turn -> {None} \cup Turns]
    /\ session \in [Pages -> Turn \cup {None}]
    /\ threads \in [Turn -> Seq(Message)]
    /\ profiles \in [Emails -> Names \cup {None}]
    /\ warming \in BOOLEAN

\* The flag is shared by all requests and not counted: it may be down while a
\* call is out.  It is never up without one, so that nobody is told to wait
\* for a model no one is calling.
FlagMeansCall == warming => \E t \in Turn : InCall(t)

\* Whatever overlaps, what a thread holds is a conversation: an answer comes
\* right after its own question, every message is there once, and all of them
\* are of one page.
Conversation ==
    \A s \in Turn : LET m == threads[s] IN
        /\ IsInjective(m)
        /\ \A i \in 2 .. Len(m) : m[i][2] = "a" => m[i - 1] = <<m[i][1], "q">>
        /\ \A i, j \in DOMAIN m : turns[m[i][1]].page = turns[m[j][1]].page

\* The answer to a turn that nothing overlapped is in its thread from then on,
\* until a cap's worth of later messages has pushed it out: messages are lost
\* by overlap and by age only.
RememberedTurn ==
    \A t \in Turn :
        (turns[t] # None /\ turns[t].pc \in {"answer", "done"} /\ turns[t].alone /\ Durable)
            => LET m == threads[turns[t].thread]
               IN  \/ <<t, "a">> \in Range(m)
                   \/ /\ Len(m) >= MessageCap
                      /\ \A i \in DOMAIN m : turns[m[i][1]].nth > turns[t].nth

\* Every message is answered or reported as failed: calls have a timeout, and
\* nothing waits for another turn.
EveryTurnEnds == \A t \in Turn : turns[t] # None ~> At(t, "done") \/ At(t, "failed")
=============================================================================
