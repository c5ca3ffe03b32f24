----------------------------- MODULE ChatProofs -----------------------------
(***************************************************************************)
(* Theorems about App: the chat.  A thread is a conversation because every *)
(* copy of it a turn works on is one, whatever else is written meanwhile:  *)
(* a store overwrites a conversation with another one of the same thread.  *)
(***************************************************************************)
EXTENDS AppProofs, FiniteSetTheorems, SequenceTheorems

-----------------------------------------------------------------------------
(* What a step of the service does to the chat *)

ChatStep ==
    \/ \E t \in Turn, g \in Pages, name \in Statements : Send(t, g, CurrentUser(g), name)
    \/ \E t \in Turn : Proceed(t)
    \/ \E g \in Pages : Reload(g)
    \/ ChatRestart
    \/ UNCHANGED chatVars
\* A step of the service is one of the chat, or leaves it alone.
LEMMA StepOfChat == [Next]_vars => ChatStep
<1>1. CASE SendMessage
  <2>1. (CHOOSE t \in Unsent : TRUE) \in Turn
    BY <1>1 DEF SendMessage, Unsent
  <2>. QED
    BY <1>1, <2>1 DEF SendMessage, ChatStep
<1>2. CASE MakeRequest
  BY <1>2 DEF MakeRequest, ChatStep
<1>3. CASE Restart
  BY <1>3 DEF Restart, ChatStep
<1>4. ASSUME NEW r \in Request, ServeRequest(r) PROVE ChatStep
  BY <1>4 DEF ServeRequest, ChatStep
<1>5. ASSUME NEW t \in Turn, ServeTurn(t) PROVE ChatStep
  BY <1>5 DEF ServeTurn, ChatStep
<1>6. CASE Elapse /\ UNCHANGED chatVars
  BY <1>6 DEF ChatStep
<1>7. CASE \E g \in Pages : Reload(g)
  BY <1>7 DEF ChatStep
<1>8. UNCHANGED vars => UNCHANGED chatVars
  BY DEF vars
<1>. QED
  BY <1>1, <1>2, <1>3, <1>4, <1>5, <1>6, <1>7, <1>8 DEF Next, ChatStep

\* The turns that were sent stay, and so does what each of them is about.
TurnsStay ==
    \A o \in Turn : turns[o] # None =>
        /\ turns'[o] # None
        /\ turns'[o].page = turns[o].page /\ turns'[o].thread = turns[o].thread
        /\ turns'[o].user = turns[o].user /\ turns'[o].nth = turns[o].nth

\* A turn that has reached another node.
LEMMA AdvancedTurn ==
    ASSUME NEW turn \in Turns, NEW messages \in Seq(Message), NEW pc \in Node, NEW reply \in Said
    PROVE  /\ Advanced(turn, messages, pc, reply) \in Turns
           /\ Advanced(turn, messages, pc, reply).page = turn.page
           /\ Advanced(turn, messages, pc, reply).thread = turn.thread
           /\ Advanced(turn, messages, pc, reply).user = turn.user
           /\ Advanced(turn, messages, pc, reply).nth = turn.nth
           /\ Advanced(turn, messages, pc, reply).alone = turn.alone
           /\ Advanced(turn, messages, pc, reply).messages = messages
           /\ Advanced(turn, messages, pc, reply).pc = pc
BY DEF Advanced, Turns

Advances(t, messages, pc, reply) ==
    turns' = [turns EXCEPT ![t] = Advanced(@, messages, pc, reply)]
\* One turn has moved on.
LEMMA OneAdvances ==
    ASSUME ChatTypeOK, NEW t \in Turn, turns[t] # None, NEW messages \in Seq(Message),
           NEW pc \in Node, NEW reply \in Said,
           Advances(t, messages, pc, reply)
    PROVE  /\ turns' \in [Turn -> {None} \cup Turns]
           /\ turns'[t].messages = messages /\ turns'[t].pc = pc
           /\ turns'[t].alone = turns[t].alone
           /\ \A o \in Turn \ {t} : turns'[o] = turns[o]
           /\ TurnsStay
<1>1. turns \in [Turn -> {None} \cup Turns] /\ turns[t] \in Turns
  BY DEF ChatTypeOK
<1>. DEFINE next == Advanced(turns[t], messages, pc, reply)
<1>2. /\ next \in Turns /\ next.page = turns[t].page /\ next.thread = turns[t].thread
      /\ next.user = turns[t].user /\ next.nth = turns[t].nth
      /\ next.messages = messages /\ next.pc = pc /\ next.alone = turns[t].alone
  BY <1>1, AdvancedTurn
<1>3. turns' = [turns EXCEPT ![t] = next]
  BY DEF Advances
<1>. HIDE DEF next
<1>4. next # None
  BY <1>2, ChatAssumption
<1>. QED
  BY <1>1, <1>2, <1>3, <1>4 DEF TurnsStay

-----------------------------------------------------------------------------
(* Conversations *)

\* Every message is there once, and an answer right after its question, unless
\* that was trimmed.
Ordered(m) ==
    /\ IsInjective(m)
    /\ \A i \in 2 .. Len(m) : m[i][2] = "a" => m[i - 1] = <<m[i][1], "q">>
\* The messages are those of turns that were sent in thread s.
Belongs(m, s, ts) == \A i \in 1 .. Len(m) : ts[m[i][1]] # None /\ ts[m[i][1]].thread = s
\* The question of t comes last, and is all there is of t.
Asking(m, t) ==
    /\ Len(m) > 0 /\ m[Len(m)] = <<t, "q">>
    /\ \A i \in 1 .. Len(m) - 1 : m[i][1] # t

\* Nothing is a conversation.
LEMMA EmptyOrdered == Ordered(<< >>) /\ \A s \in Turn : Belongs(<< >>, s, turns)
BY DEF Ordered, Belongs, IsInjective

\* A question of a turn that was not heard of before can be added.
LEMMA QuestionAdded ==
    ASSUME NEW m \in Seq(Message), NEW t \in Turn, Ordered(m),
           \A i \in 1 .. Len(m) : m[i][1] # t
    PROVE  /\ Append(m, <<t, "q">>) \in Seq(Message)
           /\ Ordered(Append(m, <<t, "q">>)) /\ Asking(Append(m, <<t, "q">>), t)
<1>. DEFINE x == <<t, "q">>
            n == Append(m, x)
<1>1. x \in Message /\ x[1] = t /\ x[2] = "q"
  BY DEF Message
<1>2. /\ n \in Seq(Message) /\ Len(n) = Len(m) + 1 /\ n[Len(m) + 1] = x
      /\ \A i \in 1 .. Len(m) : n[i] = m[i]
  BY <1>1
<1>. HIDE DEF n
<1>3. Len(m) \in Nat /\ DOMAIN m = 1 .. Len(m) /\ DOMAIN n = 1 .. Len(n)
  BY <1>2
<1>4. IsInjective(n)
  BY <1>1, <1>2, <1>3 DEF Ordered, IsInjective
<1>5. \A i \in 2 .. Len(n) : n[i][2] = "a" => n[i - 1] = <<n[i][1], "q">>
  BY <1>1, <1>2, <1>3 DEF Ordered
<1>6. Asking(n, t)
  BY <1>1, <1>2, <1>3 DEF Asking
<1>. QED
  BY <1>2, <1>4, <1>5, <1>6 DEF Ordered, n

\* The answer can be added to the question.
LEMMA AnswerAdded ==
    ASSUME NEW m \in Seq(Message), NEW t \in Turn, Ordered(m), Asking(m, t)
    PROVE  Append(m, <<t, "a">>) \in Seq(Message) /\ Ordered(Append(m, <<t, "a">>))
<1>. DEFINE x == <<t, "a">>
            n == Append(m, x)
<1>1. x \in Message /\ x[1] = t /\ x[2] = "a" /\ x # <<t, "q">>
  BY DEF Message
<1>2. /\ n \in Seq(Message) /\ Len(n) = Len(m) + 1 /\ n[Len(m) + 1] = x
      /\ \A i \in 1 .. Len(m) : n[i] = m[i]
  BY <1>1
<1>. HIDE DEF n
<1>3. Len(m) \in Nat /\ DOMAIN m = 1 .. Len(m) /\ DOMAIN n = 1 .. Len(n)
  BY <1>2
<1>4. \A i \in 1 .. Len(m) : m[i] # x
  BY <1>1, <1>3 DEF Asking
<1>5. IsInjective(n)
  BY <1>2, <1>3, <1>4 DEF Ordered, IsInjective
<1>6. \A i \in 2 .. Len(n) : n[i][2] = "a" => n[i - 1] = <<n[i][1], "q">>
  BY <1>1, <1>2, <1>3 DEF Ordered, Asking
<1>. QED
  BY <1>2, <1>5, <1>6 DEF Ordered, n

\* What is trimmed is the front of a conversation.
LEMMA Trimmed ==
    ASSUME NEW m \in Seq(Message)
    PROVE  /\ Trim(m) \in Seq(Message)
           /\ \E n \in Nat : /\ Len(Trim(m)) = Len(m) - n
                             /\ n = 0 \/ Len(Trim(m)) = MessageCap
                             /\ \A i \in 1 .. Len(Trim(m)) : Trim(m)[i] = m[i + n]
<1>1. MessageCap \in Nat \ {0} /\ Len(m) \in Nat
  BY ChatAssumption
<1>2. CASE Len(m) <= MessageCap
  <2>1. Trim(m) = m
    BY <1>2 DEF Trim
  <2>. QED
    BY <1>1, <2>1
<1>3. CASE Len(m) > MessageCap
  <2>. DEFINE n == Len(m) - MessageCap
  <2>1. Trim(m) = SubSeq(m, n + 1, Len(m))
    BY <1>1, <1>3 DEF Trim
  <2>2. n \in Nat /\ n + 1 \in 1 .. Len(m) + 1 /\ n < Len(m)
    BY <1>1, <1>3
  <2>4. Len(m) - n = MessageCap
    BY <1>1
  <2>. HIDE DEF n
  <2>3. /\ SubSeq(m, n + 1, Len(m)) \in Seq(Message)
        /\ Len(SubSeq(m, n + 1, Len(m))) = Len(m) - n
        /\ \A i \in 1 .. Len(m) - n : SubSeq(m, n + 1, Len(m))[i] = m[i + n]
    BY <1>1, <2>2
  <2>. QED
    BY <1>1, <2>1, <2>2, <2>3, <2>4
<1>. QED
  BY <1>1, <1>2, <1>3

\* Trimmed, a conversation still is one.
LEMMA TrimmedOrdered ==
    ASSUME NEW m \in Seq(Message), Ordered(m), NEW s \in Turn, Belongs(m, s, turns)
    PROVE  Trim(m) \in Seq(Message) /\ Ordered(Trim(m)) /\ Belongs(Trim(m), s, turns)
<1>. DEFINE k == Trim(m)
<1>1. k \in Seq(Message)
  BY Trimmed
<1>2. PICK n \in Nat : Len(k) = Len(m) - n /\ \A i \in 1 .. Len(k) : k[i] = m[i + n]
  BY Trimmed
<1>. HIDE DEF k
<1>3. Len(m) \in Nat /\ Len(k) \in Nat /\ DOMAIN m = 1 .. Len(m) /\ DOMAIN k = 1 .. Len(k)
  BY <1>1
<1>4. \A i \in 1 .. Len(k) : i + n \in 1 .. Len(m)
  BY <1>2, <1>3
<1>5. IsInjective(k)
  <2>. SUFFICES ASSUME NEW i \in 1 .. Len(k), NEW j \in 1 .. Len(k), k[i] = k[j] PROVE i = j
    BY <1>3 DEF IsInjective
  <2>1. m[i + n] = m[j + n] /\ i + n \in DOMAIN m /\ j + n \in DOMAIN m
    BY <1>2, <1>3, <1>4
  <2>2. i + n = j + n
    BY <2>1 DEF Ordered, IsInjective
  <2>. QED
    BY <1>3, <2>2
<1>6. ASSUME NEW i \in 2 .. Len(k), k[i][2] = "a" PROVE k[i - 1] = <<k[i][1], "q">>
  <2>1. i + n \in 2 .. Len(m) /\ i - 1 \in 1 .. Len(k) /\ i \in 1 .. Len(k) /\ (i - 1) + n = (i + n) - 1
    BY <1>2, <1>3
  <2>2. m[(i + n) - 1] = <<m[i + n][1], "q">>
    BY <1>2, <1>6, <2>1 DEF Ordered
  <2>. QED
    BY <1>2, <2>1, <2>2
<1>7. Belongs(k, s, turns)
  BY <1>2, <1>4 DEF Belongs
<1>. QED
  BY <1>1, <1>5, <1>6, <1>7 DEF Ordered, k

\* Messages belong where they did.
LEMMA BelongsStays ==
    ASSUME TurnsStay, NEW m \in Seq(Message), NEW s \in Turn, Belongs(m, s, turns)
    PROVE  Belongs(m, s, turns')
<1>. SUFFICES ASSUME NEW i \in 1 .. Len(m)
              PROVE  turns'[m[i][1]] # None /\ turns'[m[i][1]].thread = s
  BY DEF Belongs
<1>1. m[i] \in Message /\ m[i][1] \in Turn
  BY DEF Message
<1>. QED
  BY <1>1 DEF Belongs, TurnsStay

-----------------------------------------------------------------------------
(* The invariant of the chat *)

Unanswered == {"sync", "generate", "calling"}
\* What a turn works on is a conversation of its thread, which ends in its own
\* question as long as that has no answer.
TurnOk(t) ==
    turns[t] # None =>
        /\ turns[turns[t].thread] # None /\ turns[turns[t].thread].page = turns[t].page
        /\ Ordered(turns[t].messages) /\ Belongs(turns[t].messages, turns[t].thread, turns)
        /\ turns[t].pc \in Unanswered => Asking(turns[t].messages, t)
TurnsOk == \A t \in Turn : TurnOk(t)
ThreadOk(s) == Ordered(threads[s]) /\ Belongs(threads[s], s, turns)
ThreadsOk == \A s \in Turn : ThreadOk(s)
SessionsOk ==
    \A g \in Pages : session[g] # None =>
        turns[session[g]] # None /\ turns[session[g]].page = g

ChatInv == ChatTypeOK /\ TurnsOk /\ ThreadsOk /\ SessionsOk
ChatKept == ChatInv' /\ TurnsStay

\* A turn still is right when others go on.
LEMMA TurnStays ==
    ASSUME ChatInv, TurnsStay, NEW t \in Turn, turns'[t] = turns[t]
    PROVE  TurnOk(t)'
<1>. SUFFICES ASSUME turns[t] # None PROVE TurnOk(t)'
  BY DEF TurnOk
<1>1. /\ turns[t] \in Turns /\ turns[t].thread \in Turn /\ turns[t].messages \in Seq(Message)
      /\ TurnOk(t)
  BY DEF ChatInv, ChatTypeOK, Turns, TurnsOk
<1>2. Belongs(turns[t].messages, turns[t].thread, turns')
  BY <1>1, BelongsStays DEF TurnOk
<1>. QED
  BY <1>1, <1>2 DEF TurnOk, TurnsStay

\* A thread still is right when it is left alone.
LEMMA ThreadStays ==
    ASSUME ChatInv, TurnsStay, NEW s \in Turn, threads'[s] = threads[s]
    PROVE  ThreadOk(s)'
<1>1. threads[s] \in Seq(Message) /\ ThreadOk(s)
  BY DEF ChatInv, ChatTypeOK, ThreadsOk
<1>2. Belongs(threads[s], s, turns')
  BY <1>1, BelongsStays DEF ThreadOk
<1>. QED
  BY <1>1, <1>2 DEF ThreadOk

\* Sessions name the turns they did.
LEMMA SessionsStay ==
    ASSUME ChatInv, TurnsStay, session' = session
    PROVE  SessionsOk'
BY DEF ChatInv, ChatTypeOK, SessionsOk, TurnsStay

\* A turn goes on with a conversation of its thread.
LEMMA AdvanceKeeps ==
    ASSUME ChatInv, NEW t \in Turn, turns[t] # None, NEW messages \in Seq(Message),
           NEW pc \in Node, NEW reply \in Said,
           Advances(t, messages, pc, reply),
           Ordered(messages), Belongs(messages, turns[t].thread, turns),
           pc \in Unanswered => Asking(messages, t)
    PROVE  /\ turns' \in [Turn -> {None} \cup Turns] /\ TurnsStay /\ TurnsOk'
           /\ Belongs(messages, turns[t].thread, turns')
<1>. ChatTypeOK
  BY DEF ChatInv
<1>1. /\ turns' \in [Turn -> {None} \cup Turns]
      /\ turns'[t].messages = messages /\ turns'[t].pc = pc
      /\ \A o \in Turn \ {t} : turns'[o] = turns[o]
      /\ TurnsStay
  BY OneAdvances
<1>2. turns[t].thread \in Turn /\ TurnOk(t)
  BY DEF ChatInv, ChatTypeOK, Turns, TurnsOk
<1>3. Belongs(messages, turns[t].thread, turns')
  BY <1>1, <1>2, BelongsStays
<1>4. TurnOk(t)'
  BY <1>1, <1>2, <1>3 DEF TurnOk, TurnsStay
<1>5. \A o \in Turn \ {t} : TurnOk(o)'
  BY <1>1, TurnStays
<1>. QED
  BY <1>1, <1>3, <1>4, <1>5 DEF TurnsOk

\* And stores it.
LEMMA CheckpointKeeps ==
    ASSUME ChatInv, NEW t \in Turn, turns[t] # None, NEW messages \in Seq(Message),
           NEW pc \in Node, NEW reply \in Said, Checkpoint(t, messages, pc, reply),
           Ordered(messages), Belongs(messages, turns[t].thread, turns),
           pc \in Unanswered => Asking(messages, t),
           session' = session, profiles' \in [Emails -> Names \cup {None}], warming' \in BOOLEAN
    PROVE  ChatKept
<1>1. /\ threads' = [threads EXCEPT ![turns[t].thread] = messages]
      /\ Advances(t, messages, pc, reply)
  BY DEF Checkpoint, Advances
<1>2. /\ turns' \in [Turn -> {None} \cup Turns] /\ TurnsStay /\ TurnsOk'
      /\ Belongs(messages, turns[t].thread, turns')
  BY <1>1, AdvanceKeeps
<1>3. turns[t].thread \in Turn /\ threads \in [Turn -> Seq(Message)]
  BY DEF ChatInv, ChatTypeOK, Turns
<1>4. ASSUME NEW s \in Turn PROVE ThreadOk(s)'
  <2>1. CASE s = turns[t].thread
    BY <1>1, <1>2, <1>3, <2>1 DEF ThreadOk
  <2>2. CASE s # turns[t].thread
    BY <1>1, <1>2, <1>3, <2>2, ThreadStays
  <2>. QED
    BY <2>1, <2>2
<1>5. SessionsOk'
  BY <1>2, SessionsStay
<1>6. ChatTypeOK'
  BY <1>1, <1>2, <1>3 DEF ChatInv, ChatTypeOK
<1>. QED
  BY <1>2, <1>4, <1>5, <1>6 DEF ChatInv, ChatKept, ThreadsOk

\* A turn goes on and stores nothing.
LEMMA GoesKeeps ==
    ASSUME ChatInv, NEW t \in Turn, turns[t] # None,
           NEW pc \in Node, NEW reply \in Said, Goes(t, pc, reply),
           pc \in Unanswered => turns[t].pc \in Unanswered, threads' = threads,
           session' = session \/ session' = [session EXCEPT ![turns[t].page] = turns[t].thread],
           profiles' = profiles, warming' \in BOOLEAN
    PROVE  ChatKept
<1>1. /\ turns[t].messages \in Seq(Message) /\ TurnOk(t)
      /\ turns[t].thread \in Turn /\ turns[t].page \in Pages
  BY DEF ChatInv, ChatTypeOK, Turns, TurnsOk
<1>2. turns' \in [Turn -> {None} \cup Turns] /\ TurnsStay /\ TurnsOk'
  BY <1>1, AdvanceKeeps DEF TurnOk, Goes, Advances
<1>3. ThreadsOk'
  BY <1>2, ThreadStays DEF ThreadsOk
<1>4. SessionsOk'
  <2>1. CASE session' = session
    BY <1>2, <2>1, SessionsStay
  <2>2. CASE session' = [session EXCEPT ![turns[t].page] = turns[t].thread]
    BY <1>1, <1>2, <2>2 DEF ChatInv, ChatTypeOK, SessionsOk, TurnsStay, TurnOk
  <2>. QED
    BY <2>1, <2>2
<1>5. ChatTypeOK'
  BY <1>1, <1>2 DEF ChatInv, ChatTypeOK
<1>. QED
  BY <1>2, <1>3, <1>4, <1>5 DEF ChatInv, ChatKept

-----------------------------------------------------------------------------
(* The nodes of the graph *)

\* The profile is stored, and the copy as it is.
LEMMA SyncKeeps ==
    ASSUME ChatInv, NEW t \in Turn, SyncMemory(t)
    PROVE  ChatKept
<1>1. turns[t] # None /\ turns[t].pc \in Unanswered /\ turns[t] \in Turns /\ TurnOk(t)
  BY DEF SyncMemory, At, Unanswered, ChatInv, ChatTypeOK, TurnsOk
<1>2. turns[t].messages \in Seq(Message) /\ turns[t].user \in Emails \cup {None} /\ turns[t].name \in Names \cup {None}
  BY <1>1 DEF Turns, Statements
<1>3. profiles' \in [Emails -> Names \cup {None}]
  BY <1>2 DEF SyncMemory, StoredProfiles, ChatInv, ChatTypeOK
<1>4. "generate" \in Node /\ "none" \in Said /\ "generate" \in Unanswered
  BY DEF Node, Said, Unanswered
<1>5. /\ Checkpoint(t, turns[t].messages, "generate", "none")
      /\ session' = session /\ warming' \in BOOLEAN
  BY DEF SyncMemory, ChatInv, ChatTypeOK
<1>. QED
  BY <1>1, <1>2, <1>3, <1>4, <1>5, CheckpointKeeps DEF TurnOk

\* The answer goes to the end of the copy.
LEMMA ReturnKeeps ==
    ASSUME ChatInv, NEW t \in Turn, NEW reply \in Replies, Return(t, reply)
    PROVE  ChatKept
<1>1. /\ turns[t] # None /\ turns[t] \in Turns /\ turns[t].messages \in Seq(Message)
      /\ turns[t].thread \in Turn
  BY DEF Return, At, ChatInv, ChatTypeOK, Turns
<1>2. /\ Ordered(turns[t].messages) /\ Belongs(turns[t].messages, turns[t].thread, turns)
      /\ Asking(turns[t].messages, t)
  BY <1>1 DEF Return, At, ChatInv, TurnsOk, TurnOk, Unanswered
<1>. DEFINE m == Append(turns[t].messages, <<t, "a">>)
<1>3. m \in Seq(Message) /\ Ordered(m)
  BY <1>1, <1>2, AnswerAdded
<1>4. Belongs(m, turns[t].thread, turns)
  BY <1>1, <1>2 DEF Belongs
<1>5. "trim" \in Node /\ reply \in Said /\ "trim" \notin Unanswered
  BY DEF Node, Said, Unanswered
<1>6. /\ Checkpoint(t, m, "trim", reply)
      /\ session' = session /\ warming' \in BOOLEAN /\ profiles' \in [Emails -> Names \cup {None}]
  BY DEF Return, ChatInv, ChatTypeOK
<1>. HIDE DEF m
<1>. QED
  BY <1>1, <1>3, <1>4, <1>5, <1>6, CheckpointKeeps

\* The copy is trimmed.
LEMMA TrimKeeps ==
    ASSUME ChatInv, NEW t \in Turn, TrimMemory(t)
    PROVE  ChatKept
<1>1. /\ turns[t] # None /\ turns[t].messages \in Seq(Message)
      /\ turns[t].thread \in Turn /\ turns[t].reply \in Said
      /\ Ordered(turns[t].messages) /\ Belongs(turns[t].messages, turns[t].thread, turns)
  BY DEF TrimMemory, At, ChatInv, ChatTypeOK, Turns, TurnsOk, TurnOk
<1>2. /\ Trim(turns[t].messages) \in Seq(Message) /\ Ordered(Trim(turns[t].messages))
      /\ Belongs(Trim(turns[t].messages), turns[t].thread, turns)
  BY <1>1, TrimmedOrdered
<1>3. "answer" \in Node /\ "answer" \notin Unanswered
  BY DEF Node, Unanswered
<1>4. /\ Checkpoint(t, Trim(turns[t].messages), "answer", turns[t].reply)
      /\ session' = session /\ warming' \in BOOLEAN /\ profiles' \in [Emails -> Names \cup {None}]
  BY DEF TrimMemory, ChatInv, ChatTypeOK
<1>. QED
  BY <1>1, <1>2, <1>3, <1>4, CheckpointKeeps

\* Steps that store nothing.
LEMMA NoStoreKeeps ==
    ASSUME ChatInv, NEW t \in Turn, SyncFails(t) \/ CallModel(t) \/ CallFails(t)
    PROVE  ChatKept
<1>1. /\ turns[t] # None /\ turns[t].pc \in Unanswered
      /\ threads' = threads /\ session' = session /\ profiles' = profiles /\ warming' \in BOOLEAN
  BY DEF SyncFails, CallModel, CallFails, At, Unanswered, ChatInv, ChatTypeOK
<1>2. {"failed", "calling"} \subseteq Node /\ "none" \in Said
  BY DEF Node, Said
<1>3. Goes(t, "failed", "none") \/ Goes(t, "calling", "none")
  BY DEF SyncFails, CallModel, CallFails
<1>. QED
  BY <1>1, <1>2, <1>3, GoesKeeps

\* The page takes up the thread of the answer.
LEMMA AnswerKeeps ==
    ASSUME ChatInv, NEW t \in Turn, NEW arrives \in BOOLEAN, Answer(t, arrives)
    PROVE  ChatKept
<1>1. /\ turns[t] # None /\ turns[t].reply \in Said
      /\ threads' = threads /\ profiles' = profiles /\ warming' \in BOOLEAN
      /\ session' = session \/ session' = [session EXCEPT ![turns[t].page] = turns[t].thread]
  BY DEF Answer, At, ChatInv, ChatTypeOK, Turns
<1>. DEFINE pc == IF arrives THEN "done" ELSE "failed"
            said == IF warming THEN "notice" ELSE turns[t].reply
<1>2. pc \in Node /\ pc \notin Unanswered /\ said \in Said
  BY <1>1 DEF Node, Said, Unanswered
<1>3. Goes(t, pc, said)
  BY DEF Answer
<1>. HIDE DEF pc, said
<1>. QED
  BY <1>1, <1>2, <1>3, GoesKeeps

-----------------------------------------------------------------------------
(* A message is sent *)

\* The record of a new turn, and what it does to those it overlaps.
Opening(t, g, user, name, thread, alone, nth) ==
    [page |-> g, thread |-> thread, user |-> user, name |-> name,
     messages |-> Opened(t, thread), pc |-> "sync", reply |-> "none",
     alone |-> alone, nth |-> nth]
Overlapped(turn) == [turn EXCEPT !.alone = FALSE]
Thread(t, g) == IF session[g] = None THEN t ELSE session[g]
Mates(s) == {o \in Turn : Running(o) /\ turns[o].thread = s}

\* A new turn is a turn.
LEMMA OpeningTurn ==
    ASSUME NEW t \in Turn, NEW g \in Pages, NEW user \in Emails \cup {None},
           NEW name \in Statements, NEW thread \in Turn, NEW alone \in BOOLEAN, NEW nth \in Nat,
           Opened(t, thread) \in Seq(Message)
    PROVE  /\ Opening(t, g, user, name, thread, alone, nth) \in Turns
           /\ Opening(t, g, user, name, thread, alone, nth).page = g
           /\ Opening(t, g, user, name, thread, alone, nth).thread = thread
           /\ Opening(t, g, user, name, thread, alone, nth).user = user
           /\ Opening(t, g, user, name, thread, alone, nth).nth = nth
           /\ Opening(t, g, user, name, thread, alone, nth).alone = alone
           /\ Opening(t, g, user, name, thread, alone, nth).messages = Opened(t, thread)
           /\ Opening(t, g, user, name, thread, alone, nth).pc = "sync"
BY DEF Opening, Turns, Node, Said

\* An overlapped turn is the same but for its mark.
LEMMA OverlappedTurn ==
    ASSUME NEW turn \in Turns
    PROVE  /\ Overlapped(turn) \in Turns
           /\ Overlapped(turn).page = turn.page /\ Overlapped(turn).thread = turn.thread
           /\ Overlapped(turn).user = turn.user /\ Overlapped(turn).nth = turn.nth
           /\ Overlapped(turn).messages = turn.messages /\ Overlapped(turn).pc = turn.pc
           /\ ~Overlapped(turn).alone
BY DEF Overlapped, Turns

\* The turns sent can be counted.
LEMMA SentFinite == Cardinality(Sent) \in Nat
BY FS_Subset, FS_CardinalityType, ChatAssumption DEF Sent

\* A new turn does not change what the others work on.
LEMMA SentTurns ==
    ASSUME ChatInv, NEW t \in Turn, NEW g \in Pages, NEW user \in Emails \cup {None},
           NEW name \in Statements, Send(t, g, user, name)
    PROVE  /\ Thread(t, g) \in Turn /\ turns[t] = None
           /\ Opened(t, Thread(t, g)) \in Seq(Message)
           /\ Ordered(Opened(t, Thread(t, g))) /\ Asking(Opened(t, Thread(t, g)), t)
           /\ threads' = [threads EXCEPT ![Thread(t, g)] = Opened(t, Thread(t, g))]
           /\ turns' \in [Turn -> {None} \cup Turns]
           /\ turns'[t] # None /\ turns'[t].page = g /\ turns'[t].thread = Thread(t, g)
           /\ turns'[t].messages = Opened(t, Thread(t, g)) /\ turns'[t].pc = "sync"
           /\ turns'[t].user = user /\ turns'[t].nth = Cardinality(Sent) + 1
           /\ turns'[t].alone <=> Mates(Thread(t, g)) = {}
           /\ \A o \in Turn \ {t} : turns[o] = None => turns'[o] = None
           /\ \A o \in Turn \ {t} : turns[o] # None =>
                 /\ turns'[o].messages = turns[o].messages /\ turns'[o].pc = turns[o].pc
                 /\ turns'[o].alone => turns[o].alone /\ o \notin Mates(Thread(t, g))
           /\ TurnsStay
<1>. DEFINE thread == Thread(t, g)
            new == Opening(t, g, user, name, thread, Mates(thread) = {}, Cardinality(Sent) + 1)
<1>1. /\ turns \in [Turn -> {None} \cup Turns] /\ threads[thread] \in Seq(Message)
      /\ turns[t] = None /\ thread \in Turn
  BY DEF ChatInv, ChatTypeOK, Send, Thread
<1>2. ThreadOk(thread)
  BY <1>1 DEF ChatInv, ThreadsOk
<1>3. \A i \in 1 .. Len(threads[thread]) : threads[thread][i][1] # t
  BY <1>1, <1>2 DEF ThreadOk, Belongs
<1>4. Opened(t, thread) \in Seq(Message) /\ Ordered(Opened(t, thread)) /\ Asking(Opened(t, thread), t)
  BY <1>1, <1>2, <1>3, QuestionAdded DEF Opened, ThreadOk
<1>5. /\ new \in Turns /\ new.page = g /\ new.thread = thread /\ new.user = user
      /\ new.nth = Cardinality(Sent) + 1 /\ new.messages = Opened(t, thread) /\ new.pc = "sync"
      /\ new.alone = (Mates(thread) = {})
  <2>1. Cardinality(Sent) + 1 \in Nat /\ (Mates(thread) = {}) \in BOOLEAN
    BY SentFinite
  <2>2. PICK alone \in BOOLEAN : alone = (Mates(thread) = {})
    BY <2>1
  <2>3. new = Opening(t, g, user, name, thread, alone, Cardinality(Sent) + 1)
    BY <2>2
  <2>4. Cardinality(Sent) + 1 \in Nat /\ Opened(t, thread) \in Seq(Message) /\ thread \in Turn
    BY <1>1, <1>4, <2>1
  <2>. HIDE DEF new, thread
  <2>5. /\ new \in Turns /\ new.page = g /\ new.thread = thread /\ new.user = user
        /\ new.nth = Cardinality(Sent) + 1 /\ new.messages = Opened(t, thread) /\ new.pc = "sync"
        /\ new.alone = alone
    <3>. DEFINE n == Cardinality(Sent) + 1
    <3>1. new = Opening(t, g, user, name, thread, alone, n) /\ n \in Nat
      BY <2>3, <2>4
    <3>. HIDE DEF n
    <3>2. /\ new \in Turns /\ new.page = g /\ new.thread = thread /\ new.user = user
          /\ new.nth = n /\ new.messages = Opened(t, thread) /\ new.pc = "sync"
          /\ new.alone = alone
      BY <2>4, <3>1, OpeningTurn
    <3>. QED
      BY <3>2 DEF n
  <2>. QED
    BY <2>2, <2>5, Zenon
<1>6. /\ threads' = [threads EXCEPT ![thread] = Opened(t, thread)]
      /\ turns' = [o \in Turn |-> IF o = t THEN new
                                  ELSE IF o \in Mates(thread) THEN Overlapped(turns[o])
                                  ELSE turns[o]]
  BY DEF Send, Thread, Opening, Overlapped, Mates
<1>7. new # None
  BY <1>5, ChatAssumption
<1>. HIDE DEF new, thread
<1>8. turns'[t] = new
  BY <1>6
<1>9. ASSUME NEW o \in Turn \ {t}
      PROVE  /\ turns'[o] \in {None} \cup Turns
             /\ turns[o] = None => turns'[o] = None
             /\ turns[o] # None =>
                  /\ turns'[o] # None
                  /\ turns'[o].page = turns[o].page /\ turns'[o].thread = turns[o].thread
                  /\ turns'[o].user = turns[o].user /\ turns'[o].nth = turns[o].nth
                  /\ turns'[o].messages = turns[o].messages /\ turns'[o].pc = turns[o].pc
                  /\ turns'[o].alone => turns[o].alone /\ o \notin Mates(thread)
  <2>1. CASE o \in Mates(thread)
    <3>1. turns'[o] = Overlapped(turns[o]) /\ turns[o] # None /\ turns[o] \in Turns
      BY <1>1, <1>6, <2>1 DEF Mates, Running
    <3>2. Overlapped(turns[o]) # None
      BY <3>1, OverlappedTurn, ChatAssumption
    <3>. QED
      BY <2>1, <3>1, <3>2, OverlappedTurn
  <2>2. CASE o \notin Mates(thread)
    BY <1>1, <1>6, <2>2
  <2>. QED
    BY <2>1, <2>2
<1>10. turns' \in [Turn -> {None} \cup Turns]
  BY <1>5, <1>6, <1>8, <1>9
<1>11. TurnsStay
  BY <1>1, <1>9 DEF TurnsStay
<1>. QED
  BY <1>1, <1>4, <1>5, <1>6, <1>7, <1>8, <1>9, <1>10, <1>11 DEF thread

\* A message opens a turn on the thread of its page.
LEMMA SendKeeps ==
    ASSUME ChatInv, NEW t \in Turn, NEW g \in Pages, NEW user \in Emails \cup {None},
           NEW name \in Statements, Send(t, g, user, name)
    PROVE  ChatKept
<1>. DEFINE s == Thread(t, g)
            m == Opened(t, s)
<1>1. /\ s \in Turn /\ turns[t] = None /\ m \in Seq(Message) /\ Ordered(m) /\ Asking(m, t)
      /\ threads' = [threads EXCEPT ![s] = m]
      /\ turns' \in [Turn -> {None} \cup Turns]
      /\ turns'[t] # None /\ turns'[t].page = g /\ turns'[t].thread = s
      /\ turns'[t].messages = m /\ turns'[t].pc = "sync"
      /\ \A o \in Turn \ {t} : turns[o] = None => turns'[o] = None
      /\ \A o \in Turn \ {t} : turns[o] # None =>
            turns'[o].messages = turns[o].messages /\ turns'[o].pc = turns[o].pc
      /\ TurnsStay
  BY SentTurns
<1>2. m = Append(threads[s], <<t, "q">>) /\ threads[s] \in Seq(Message) /\ ThreadOk(s)
  BY <1>1 DEF Opened, ChatInv, ChatTypeOK, ThreadsOk
<1>3. /\ session' = session /\ profiles' = profiles /\ warming' = warming
  BY DEF Send
<1>4. turns'[s] # None /\ turns'[s].page = g
  <2>1. CASE session[g] = None
    BY <1>1, <2>1 DEF Thread
  <2>2. CASE session[g] # None
    BY <1>1, <2>2 DEF Thread, ChatInv, SessionsOk, TurnsStay
  <2>. QED
    BY <2>1, <2>2
<1>5. Belongs(m, s, turns')
  <2>1. Belongs(threads[s], s, turns')
    BY <1>1, <1>2, BelongsStays DEF ThreadOk
  <2>. QED
    BY <1>1, <1>2, <2>1 DEF Belongs
<1>. HIDE DEF s, m
<1>6. TurnOk(t)'
  BY <1>1, <1>4, <1>5 DEF TurnOk
<1>7. ASSUME NEW o \in Turn \ {t}, turns[o] # None PROVE TurnOk(o)'
  <2>1. /\ turns[o].messages \in Seq(Message) /\ turns[o].thread \in Turn /\ TurnOk(o)
    BY <1>7 DEF ChatInv, ChatTypeOK, Turns, TurnsOk
  <2>2. Belongs(turns[o].messages, turns[o].thread, turns')
    BY <1>1, <1>7, <2>1, BelongsStays DEF TurnOk
  <2>. QED
    BY <1>1, <1>7, <2>1, <2>2 DEF TurnOk, TurnsStay
<1>8. TurnsOk'
  BY <1>1, <1>6, <1>7 DEF TurnsOk, TurnOk
<1>9. ThreadsOk'
  <2>. SUFFICES ASSUME NEW d \in Turn PROVE ThreadOk(d)'
    BY DEF ThreadsOk
  <2>1. threads \in [Turn -> Seq(Message)]
    BY DEF ChatInv, ChatTypeOK
  <2>2. CASE d = s
    BY <1>1, <1>5, <2>1, <2>2 DEF ThreadOk
  <2>3. CASE d # s
    BY <1>1, <2>1, <2>3, ThreadStays
  <2>. QED
    BY <2>2, <2>3
<1>10. SessionsOk'
  BY <1>1, <1>3, SessionsStay
<1>11. ChatTypeOK'
  BY <1>1, <1>3 DEF ChatInv, ChatTypeOK
<1>. QED
  BY <1>1, <1>8, <1>9, <1>10, <1>11 DEF ChatInv, ChatKept

\* A page that is loaded again has no session.
LEMMA ReloadKeeps ==
    ASSUME ChatInv, NEW g \in Pages, Reload(g)
    PROVE  ChatKept
<1>1. /\ session' = [session EXCEPT ![g] = None]
      /\ UNCHANGED <<turns, threads, profiles, warming>>
  BY DEF Reload
<1>2. TurnsStay
  BY <1>1 DEF TurnsStay
<1>3. TurnsOk' /\ ThreadsOk'
  BY <1>1, <1>2, TurnStays, ThreadStays DEF TurnsOk, ThreadsOk
<1>4. ChatTypeOK' /\ SessionsOk'
  BY <1>1 DEF ChatInv, ChatTypeOK, SessionsOk
<1>. QED
  BY <1>2, <1>3, <1>4 DEF ChatInv, ChatKept

\* A turn that a restart has ended.
Ended(turn) == [turn EXCEPT !.pc = "failed"]
\* It is the same but for that.
LEMMA EndedTurn ==
    ASSUME NEW turn \in Turns
    PROVE  /\ Ended(turn) \in Turns
           /\ Ended(turn).page = turn.page /\ Ended(turn).thread = turn.thread
           /\ Ended(turn).user = turn.user /\ Ended(turn).nth = turn.nth
           /\ Ended(turn).alone = turn.alone
           /\ Ended(turn).messages = turn.messages /\ Ended(turn).pc = "failed"
BY DEF Ended, Turns, Node

\* What a restart does to the turns.
LEMMA RestartedTurns ==
    ASSUME ChatInv, ChatRestart
    PROVE  /\ turns' \in [Turn -> {None} \cup Turns]
           /\ \A t \in Turn : turns[t] = None => turns'[t] = None
           /\ \A t \in Turn : turns[t] # None =>
                 /\ turns'[t].messages = turns[t].messages /\ turns'[t].alone = turns[t].alone
                 /\ turns'[t].pc \in {"done", "failed"}
                 /\ turns'[t].pc = "done" => turns[t].pc = "done"
           /\ TurnsStay
<1>1. /\ turns \in [Turn -> {None} \cup Turns]
      /\ turns' = [t \in Turn |-> IF Running(t) THEN Ended(turns[t]) ELSE turns[t]]
  BY DEF ChatInv, ChatTypeOK, ChatRestart, Ended
<1>2. ASSUME NEW t \in Turn
      PROVE  /\ turns'[t] \in {None} \cup Turns
             /\ turns[t] = None => turns'[t] = None
             /\ turns[t] # None =>
                 /\ turns'[t] # None
                 /\ turns'[t].page = turns[t].page /\ turns'[t].thread = turns[t].thread
                 /\ turns'[t].user = turns[t].user /\ turns'[t].nth = turns[t].nth
                 /\ turns'[t].messages = turns[t].messages /\ turns'[t].alone = turns[t].alone
                 /\ turns'[t].pc \in {"done", "failed"}
                 /\ turns'[t].pc = "done" => turns[t].pc = "done"
  <2>1. CASE Running(t)
    <3>1. turns'[t] = Ended(turns[t]) /\ turns[t] # None /\ turns[t] \in Turns
      BY <1>1, <2>1 DEF Running
    <3>2. Ended(turns[t]) # None
      BY <3>1, EndedTurn, ChatAssumption
    <3>. QED
      BY <3>1, <3>2, EndedTurn
  <2>2. CASE ~Running(t)
    BY <1>1, <2>2 DEF Running
  <2>. QED
    BY <2>1, <2>2
<1>3. turns' \in [Turn -> {None} \cup Turns]
  BY <1>1, <1>2
<1>. QED
  BY <1>2, <1>3 DEF TurnsStay

\* Threads are as they were, or empty.
LEMMA ChatRestartKeeps ==
    ASSUME ChatInv, ChatRestart
    PROVE  ChatKept
<1>1. /\ turns' \in [Turn -> {None} \cup Turns] /\ TurnsStay
      /\ \A t \in Turn : turns[t] = None => turns'[t] = None
      /\ \A t \in Turn : turns[t] # None =>
            turns'[t].messages = turns[t].messages /\ turns'[t].pc \notin Unanswered
  BY RestartedTurns DEF Unanswered
<1>2. session' = session /\ warming' = FALSE
  BY DEF ChatRestart
<1>3. \/ threads' = threads /\ profiles' = profiles
      \/ threads' = [t \in Turn |-> << >>] /\ profiles' = [u \in Emails |-> None]
  BY DEF ChatRestart
<1>4. ASSUME NEW o \in Turn, turns[o] # None PROVE TurnOk(o)'
  <2>1. /\ turns[o].messages \in Seq(Message) /\ turns[o].thread \in Turn /\ TurnOk(o)
    BY <1>4 DEF ChatInv, ChatTypeOK, Turns, TurnsOk
  <2>2. Belongs(turns[o].messages, turns[o].thread, turns')
    BY <1>1, <1>4, <2>1, BelongsStays DEF TurnOk
  <2>. QED
    BY <1>1, <1>4, <2>1, <2>2 DEF TurnOk, TurnsStay
<1>5. TurnsOk'
  BY <1>1, <1>4 DEF TurnsOk, TurnOk
<1>6. ThreadsOk'
  <2>1. CASE threads' = threads
    BY <1>1, <2>1, ThreadStays DEF ThreadsOk
  <2>2. CASE threads' = [t \in Turn |-> << >>]
    BY <2>2, EmptyOrdered DEF ThreadsOk, ThreadOk, Belongs
  <2>. QED
    BY <1>3, <2>1, <2>2
<1>7. SessionsOk'
  BY <1>1, <1>2, SessionsStay
<1>8. ChatTypeOK'
  <2>1. << >> \in Seq(Message)
    OBVIOUS
  <2>2. profiles' \in [Emails -> Names \cup {None}] /\ threads' \in [Turn -> Seq(Message)]
    BY <1>3, <2>1 DEF ChatInv, ChatTypeOK
  <2>. QED
    BY <1>1, <1>2, <2>2 DEF ChatInv, ChatTypeOK
<1>. QED
  BY <1>1, <1>5, <1>6, <1>7, <1>8 DEF ChatInv, ChatKept

-----------------------------------------------------------------------------
(* Theorems *)

\* Who a page speaks for.
LEMMA UsersOfPages ==
    ASSUME AccountsTypeOK, NEW g \in Pages
    PROVE  CurrentUser(g) \in Emails \cup {None}
BY ChatAssumption DEF AccountsTypeOK, CurrentUser, Authenticated, Tokens

\* Every step keeps the invariant of the chat.
LEMMA ChatStepKeeps ==
    ASSUME AccountsTypeOK, ChatInv, [Next]_vars
    PROVE  ChatKept
<1>1. ASSUME NEW t \in Turn, NEW g \in Pages, NEW name \in Statements,
             Send(t, g, CurrentUser(g), name)
      PROVE  ChatKept
  BY <1>1, UsersOfPages, SendKeeps
<1>2. ASSUME NEW t \in Turn, Proceed(t) PROVE ChatKept
  BY <1>2, SyncKeeps, ReturnKeeps, TrimKeeps, NoStoreKeeps, AnswerKeeps DEF Proceed
<1>3. CASE UNCHANGED chatVars
  <2>1. UNCHANGED <<turns, session, threads, profiles, warming>> /\ TurnsStay
    BY <1>3 DEF chatVars, TurnsStay
  <2>2. TurnsOk' /\ ThreadsOk' /\ SessionsOk'
    BY <2>1, TurnStays, ThreadStays, SessionsStay DEF TurnsOk, ThreadsOk
  <2>. QED
    BY <2>1, <2>2 DEF ChatInv, ChatTypeOK, ChatKept
<1>. QED
  BY <1>1, <1>2, <1>3, StepOfChat, ReloadKeeps, ChatRestartKeeps DEF ChatStep

\* It holds at first.
LEMMA ChatInitKeeps == Init => ChatInv
<1>. SUFFICES ASSUME ChatInit PROVE ChatInv
  BY DEF Init
<1>1. ThreadsOk
  BY EmptyOrdered DEF ChatInit, ThreadsOk, ThreadOk
<1>2. << >> \in Seq(Message)
  OBVIOUS
<1>3. ChatTypeOK
  BY <1>2 DEF ChatInit, ChatTypeOK
<1>. QED
  BY <1>1, <1>3 DEF ChatInit, ChatInv, TurnsOk, TurnOk, SessionsOk

\* Every copy of a thread that a turn works on, and what is stored of it, is a
\* conversation of that thread.
THEOREM ChatInvariant == Spec => []ChatInv
<1>1. Init => ChatInv
  BY ChatInitKeeps
<1>2. AccountInv /\ ChatInv /\ [Next]_vars => ChatInv'
  BY ChatStepKeeps DEF ChatKept, AccountInv
<1>. QED
  BY <1>1, <1>2, AccountsInvariant, PTL DEF Spec

\* The variables of accounts and chat keep their types.
THEOREM TypeCorrect == Spec => []TypeOK
<1>1. AccountInv /\ ChatInv => TypeOK
  BY DEF AccountInv, ChatInv, TypeOK
<1>. QED
  BY <1>1, AccountsInvariant, ChatInvariant, PTL

\* The pages of the messages are that of the turn the thread is named after.
LEMMA ChatInvConversation == ChatInv => Conversation
<1>. SUFFICES ASSUME ChatInv, NEW s \in Turn
              PROVE  /\ IsInjective(threads[s])
                     /\ \A i \in 2 .. Len(threads[s]) :
                          threads[s][i][2] = "a" => threads[s][i - 1] = <<threads[s][i][1], "q">>
                     /\ \A i, j \in DOMAIN threads[s] :
                          turns[threads[s][i][1]].page = turns[threads[s][j][1]].page
  BY DEF Conversation
<1>1. threads[s] \in Seq(Message) /\ ThreadOk(s)
  BY DEF ChatInv, ChatTypeOK, ThreadsOk
<1>2. \A i \in DOMAIN threads[s] : turns[threads[s][i][1]].page = turns[s].page
  <2>. SUFFICES ASSUME NEW i \in DOMAIN threads[s]
                PROVE  turns[threads[s][i][1]].page = turns[s].page
    OBVIOUS
  <2>1. threads[s][i][1] \in Turn /\ i \in 1 .. Len(threads[s])
    BY <1>1 DEF Message
  <2>2. turns[threads[s][i][1]] # None /\ turns[threads[s][i][1]].thread = s
    BY <1>1, <2>1 DEF ThreadOk, Belongs
  <2>. QED
    BY <2>1, <2>2 DEF ChatInv, TurnsOk, TurnOk
<1>. QED
  BY <1>1, <1>2 DEF ThreadOk, Ordered

\* Whatever overlaps, what a thread holds is a conversation.
THEOREM ConversationInvariant == Spec => []Conversation
BY ChatInvConversation, ChatInvariant, PTL

\* A turn keeps its user, and its user keeps what was granted.
LEMMA GuestKept ==
    ASSUME AccountInv, ChatInv, GuestUnlessGranted, [Next]_vars
    PROVE  GuestUnlessGranted'
<1>1. Lasting /\ AccountsTypeOK
  BY StepKeeps DEF Kept, AccountInv
<1>2. \A e \in Emails : GrantedIn(req, e, "full") => GrantedIn(req', e, "full")
  BY <1>1 DEF GrantedIn, Lasting, CallsStay
<1>3. \A t \in Turn : turns[t] # None /\ turns[t].user # None =>
          turns[t].user \in Emails /\ GrantedIn(req, turns[t].user, "full")
  BY DEF GuestUnlessGranted, GrantedIn, ChatInv, ChatTypeOK, Turns
<1>4. \A t \in Turn : turns[t] # None /\ turns[t].user # None =>
          turns[t].user \in Emails /\ GrantedIn(req', turns[t].user, "full")
  BY <1>2, <1>3
<1>5. ASSUME NEW t \in Turn, NEW g \in Pages, NEW name \in Statements,
             Send(t, g, CurrentUser(g), name)
      PROVE  GuestUnlessGranted'
  <2>1. CurrentUser(g) \in Emails \cup {None}
    BY <1>1, UsersOfPages
  <2>2. CurrentUser(g) # None => GrantedIn(req, CurrentUser(g), "full")
    BY ChatAssumption DEF CurrentUser, Authenticated, AccountInv, HeldOk
  <2>3. CurrentUser(g) # None => GrantedIn(req', CurrentUser(g), "full")
    BY <1>2, <2>1, <2>2
  <2>4. /\ turns'[t].user = CurrentUser(g)
        /\ \A o \in Turn \ {t} : turns[o] = None => turns'[o] = None
        /\ TurnsStay
    BY <1>5, <2>1, SentTurns
  <2>. QED
    BY <1>4, <2>3, <2>4 DEF GuestUnlessGranted, GrantedIn, TurnsStay
<1>6. ASSUME \A t \in Turn : turns[t] = None => turns'[t] = None
      PROVE  GuestUnlessGranted'
  <2>1. TurnsStay
    BY <1>1, ChatStepKeeps DEF ChatKept
  <2>. QED
    BY <1>4, <1>6, <2>1 DEF GuestUnlessGranted, GrantedIn, TurnsStay
<1>7. ASSUME NEW t \in Turn, Proceed(t)
      PROVE  \A o \in Turn : turns[o] = None => turns'[o] = None
  BY <1>7 DEF Proceed, SyncMemory, SyncFails, CallModel, CallFails, TrimMemory, Return, Answer,
              Checkpoint, Goes, At, ChatInv, ChatTypeOK
<1>8. Reload(CHOOSE g \in Pages : Reload(g)) \/ UNCHANGED chatVars => turns' = turns
  BY DEF Reload, chatVars
<1>9. (\E g \in Pages : Reload(g)) => turns' = turns
  BY DEF Reload
<1>. QED
  BY <1>5, <1>6, <1>7, <1>8, <1>9, StepOfChat, RestartedTurns DEF ChatStep

\* A turn speaks for a user only if a request was granted a full token of that
\* user's.
THEOREM GuestInvariant == Spec => []GuestUnlessGranted
<1>1. Init => GuestUnlessGranted
  BY DEF Init, ChatInit, GuestUnlessGranted
<1>2. AccountInv /\ ChatInv /\ GuestUnlessGranted /\ [Next]_vars => GuestUnlessGranted'
  BY GuestKept
<1>. QED
  BY <1>1, <1>2, AccountsInvariant, ChatInvariant, PTL DEF Spec

-----------------------------------------------------------------------------
(* What a thread remembers *)

\* m has the answer of t, and only later messages after it; or a cap's worth
\* of later ones has pushed it out.
Follows(m, t, ts) ==
    \A i, j \in 1 .. Len(m) : i < j /\ m[i] = <<t, "a">> => ts[m[j][1]].nth > ts[t].nth
Recalls(m, t, ts) ==
    \/ \E i \in 1 .. Len(m) : m[i] = <<t, "a">>
    \/ Len(m) >= MessageCap /\ \A i \in 1 .. Len(m) : ts[m[i][1]].nth > ts[t].nth
Knows(m, t, ts) == Follows(m, t, ts) /\ Recalls(m, t, ts)

Over(t) == turns[t] # None /\ turns[t].pc \in {"answer", "done"} /\ turns[t].alone
\* A turn that nothing overlapped is known to its thread, and to every turn
\* that works on it since.
RecallOk(t) ==
    Over(t) =>
        /\ Knows(threads[turns[t].thread], t, turns)
        /\ \A o \in Turn \ {t} : Running(o) /\ turns[o].thread = turns[t].thread =>
               Knows(turns[o].messages, t, turns) /\ turns[o].nth > turns[t].nth
AloneOk ==
    \A t, o \in Turn :
        Running(t) /\ turns[t].alone /\ Running(o) /\ o # t => turns[o].thread # turns[t].thread
LastOk ==
    \A t \in Turn : At(t, "trim") =>
        /\ Len(turns[t].messages) > 0
        /\ turns[t].messages[Len(turns[t].messages)] = <<t, "a">>
NthOk == \A t \in Turn : turns[t] # None => turns[t].nth <= Cardinality(Sent)
RecallInv == AloneOk /\ LastOk /\ NthOk /\ (Durable => \A t \in Turn : RecallOk(t))

\* What is known stays known when a later message is added,
LEMMA KnowsAppend ==
    ASSUME NEW m \in Seq(Message), NEW x \in Message, NEW t \in Turn, NEW ts,
           Knows(m, t, ts), ts[x[1]].nth > ts[t].nth
    PROVE  Knows(Append(m, x), t, ts)
<1>. DEFINE n == Append(m, x)
<1>1. /\ Len(m) \in Nat /\ Len(n) = Len(m) + 1 /\ n[Len(m) + 1] = x
      /\ \A i \in 1 .. Len(m) : n[i] = m[i]
  OBVIOUS
<1>. HIDE DEF n
<1>2. Follows(n, t, ts)
  <2>. SUFFICES ASSUME NEW i \in 1 .. Len(n), NEW k \in 1 .. Len(n), i < k, n[i] = <<t, "a">>
                PROVE  ts[n[k][1]].nth > ts[t].nth
    BY DEF Follows
  <2>1. i \in 1 .. Len(m) /\ m[i] = <<t, "a">>
    BY <1>1
  <2>2. CASE k = Len(m) + 1
    BY <1>1, <2>2
  <2>3. CASE k \in 1 .. Len(m)
    BY <1>1, <2>1, <2>3 DEF Knows, Follows
  <2>. QED
    BY <1>1, <2>2, <2>3
<1>3. Recalls(n, t, ts)
  <2>1. CASE \E i \in 1 .. Len(m) : m[i] = <<t, "a">>
    BY <1>1, <2>1 DEF Recalls
  <2>2. CASE Len(m) >= MessageCap /\ \A i \in 1 .. Len(m) : ts[m[i][1]].nth > ts[t].nth
    <3>1. \A i \in 1 .. Len(n) : ts[n[i][1]].nth > ts[t].nth
      BY <1>1, <2>2
    <3>. QED
      BY <1>1, <2>2, <3>1, ChatAssumption DEF Recalls
  <2>. QED
    BY <2>1, <2>2 DEF Knows, Recalls
<1>. QED
  BY <1>2, <1>3 DEF Knows, n

\* when the front is trimmed,
LEMMA KnowsTrim ==
    ASSUME NEW m \in Seq(Message), NEW t \in Turn, NEW ts, Knows(m, t, ts)
    PROVE  Knows(Trim(m), t, ts)
<1>. DEFINE k == Trim(m)
<1>1. k \in Seq(Message)
  BY Trimmed
<1>2. PICK n \in Nat : /\ Len(k) = Len(m) - n
                       /\ n = 0 \/ Len(k) = MessageCap
                       /\ \A i \in 1 .. Len(k) : k[i] = m[i + n]
  BY Trimmed
<1>. HIDE DEF k
<1>3. Len(m) \in Nat /\ Len(k) \in Nat /\ MessageCap \in Nat
  BY <1>1, ChatAssumption
<1>4. \A i \in 1 .. Len(k) : i + n \in 1 .. Len(m)
  BY <1>2, <1>3
<1>5. Follows(k, t, ts)
  <2>. SUFFICES ASSUME NEW i \in 1 .. Len(k), NEW l \in 1 .. Len(k), i < l, k[i] = <<t, "a">>
                PROVE  ts[k[l][1]].nth > ts[t].nth
    BY DEF Follows
  <2>1. /\ i + n \in 1 .. Len(m) /\ l + n \in 1 .. Len(m) /\ i + n < l + n
        /\ m[i + n] = <<t, "a">> /\ k[l] = m[l + n]
    BY <1>2, <1>3, <1>4
  <2>. QED
    BY <2>1 DEF Knows, Follows
<1>6. Recalls(k, t, ts)
  <2>1. ASSUME NEW i \in 1 .. Len(m), m[i] = <<t, "a">>, n < i PROVE Recalls(k, t, ts)
    <3>1. i - n \in 1 .. Len(k) /\ (i - n) + n = i
      BY <1>2, <1>3, <2>1
    <3>2. k[i - n] = <<t, "a">>
      BY <1>2, <2>1, <3>1
    <3>. QED
      BY <3>1, <3>2 DEF Recalls
  <2>2. ASSUME NEW i \in 1 .. Len(m), m[i] = <<t, "a">>, i <= n PROVE Recalls(k, t, ts)
    <3>1. n # 0 /\ Len(k) = MessageCap
      BY <1>2, <2>2
    <3>2. ASSUME NEW l \in 1 .. Len(k) PROVE ts[k[l][1]].nth > ts[t].nth
      <4>1. l + n \in 1 .. Len(m) /\ i < l + n /\ k[l] = m[l + n]
        BY <1>2, <1>3, <1>4, <2>2
      <4>. QED
        BY <2>2, <4>1 DEF Knows, Follows
    <3>. QED
      BY <1>3, <3>1, <3>2 DEF Recalls
  <2>3. CASE Len(m) >= MessageCap /\ \A i \in 1 .. Len(m) : ts[m[i][1]].nth > ts[t].nth
    <3>1. Len(k) >= MessageCap
      BY <1>2, <1>3, <2>3
    <3>2. \A l \in 1 .. Len(k) : ts[k[l][1]].nth > ts[t].nth
      BY <1>2, <1>4, <2>3
    <3>. QED
      BY <3>1, <3>2 DEF Recalls
  <2>. QED
    BY <1>3, <2>1, <2>2, <2>3 DEF Knows, Recalls
<1>. QED
  BY <1>5, <1>6 DEF Knows, k

\* and when turns go on.
LEMMA KnowsStays ==
    ASSUME TurnsStay, NEW m \in Seq(Message), NEW s \in Turn, Belongs(m, s, turns),
           NEW t \in Turn, turns[t] # None, Knows(m, t, turns)
    PROVE  Knows(m, t, turns')
<1>1. turns'[t].nth = turns[t].nth
  BY DEF TurnsStay
<1>2. ASSUME NEW i \in 1 .. Len(m) PROVE turns'[m[i][1]].nth = turns[m[i][1]].nth
  <2>1. m[i] \in Message /\ m[i][1] \in Turn
    BY DEF Message
  <2>. QED
    BY <2>1 DEF Belongs, TurnsStay
<1>3. Follows(m, t, turns')
  BY <1>1, <1>2 DEF Knows, Follows
<1>4. Recalls(m, t, turns')
  BY <1>1, <1>2 DEF Knows, Recalls
<1>. QED
  BY <1>3, <1>4 DEF Knows

\* An answer is known to the conversation it ends, trimmed or not.
LEMMA KnowsOwn ==
    ASSUME NEW m \in Seq(Message), Ordered(m), NEW t \in Turn, NEW ts,
           Len(m) > 0, m[Len(m)] = <<t, "a">>
    PROVE  Knows(m, t, ts)
<1>1. Len(m) \in Nat /\ DOMAIN m = 1 .. Len(m)
  OBVIOUS
<1>2. Follows(m, t, ts)
  <2>. SUFFICES ASSUME NEW i \in 1 .. Len(m), NEW j \in 1 .. Len(m), i < j, m[i] = <<t, "a">>
                PROVE  FALSE
    BY DEF Follows
  <2>1. Len(m) \in DOMAIN m /\ i \in DOMAIN m /\ m[i] = m[Len(m)]
    BY <1>1
  <2>2. i = Len(m)
    BY <2>1 DEF Ordered, IsInjective
  <2>. QED
    BY <1>1, <2>2
<1>3. Recalls(m, t, ts)
  BY <1>1 DEF Recalls
<1>. QED
  BY <1>2, <1>3 DEF Knows

\* A turn goes on with what it knows, and stores that.
Tells(t, messages) ==
    \A u \in Turn :
        (turns[u] # None /\ Knows(turns[t].messages, u, turns) /\ turns[t].nth > turns[u].nth)
            => Knows(messages, u, turns')

Keeps(t, messages) ==
    \A u \in Turn :
        (turns[u] # None /\ Knows(turns[t].messages, u, turns) /\ turns[t].nth > turns[u].nth)
            => Knows(messages, u, turns)

\* The turns that run, and those that were sent, when one of them advances.
LEMMA AloneAdvances ==
    ASSUME ChatInv, RecallInv, NEW t \in Turn, Running(t), TurnsStay,
           turns'[t].alone = turns[t].alone, \A o \in Turn \ {t} : turns'[o] = turns[o]
    PROVE  AloneOk' /\ NthOk' /\ \A o \in Turn : Running(o)' => Running(o)
<1>1. \A o \in Turn : Running(o)' => Running(o)
  BY DEF Running
<1>2. AloneOk'
  BY <1>1 DEF RecallInv, AloneOk, TurnsStay, Running
<1>3. Sent' = Sent
  BY DEF Sent, TurnsStay, Running
<1>4. NthOk'
  BY <1>3 DEF RecallInv, NthOk, TurnsStay, Sent
<1>. QED
  BY <1>1, <1>2, <1>4

\* The turns besides the one that advances work on what they did.
LEMMA OthersKnow ==
    ASSUME ChatInv, TurnsStay, NEW u \in Turn, turns[u] # None, NEW o \in Turn, turns'[o] = turns[o],
           Running(o), Knows(turns[o].messages, u, turns), turns[o].nth > turns[u].nth
    PROVE  Knows(turns'[o].messages, u, turns') /\ turns'[o].nth > turns'[u].nth
<1>1. /\ turns[o] # None /\ turns[o].messages \in Seq(Message) /\ turns[o].thread \in Turn
      /\ Belongs(turns[o].messages, turns[o].thread, turns)
  BY DEF Running, ChatInv, ChatTypeOK, Turns, TurnsOk, TurnOk
<1>2. Knows(turns[o].messages, u, turns')
  BY <1>1, KnowsStays
<1>. QED
  BY <1>1, <1>2 DEF TurnsStay

\* A checkpoint keeps what every thread recalls.
LEMMA RecallCheckpoint ==
    ASSUME ChatInv, RecallInv, NEW t \in Turn, Running(t), NEW messages \in Seq(Message),
           NEW pc \in Node \ {"done", "failed"}, NEW reply \in Said,
           Checkpoint(t, messages, pc, reply), Tells(t, messages),
           pc = "trim" => Len(messages) > 0 /\ messages[Len(messages)] = <<t, "a">>,
           pc = "answer" => Knows(messages, t, turns')
    PROVE  RecallInv'
<1>. ChatTypeOK /\ turns[t] # None /\ Advances(t, messages, pc, reply)
  BY DEF ChatInv, Checkpoint, Advances, Running
<1>1. /\ turns'[t].messages = messages /\ turns'[t].pc = pc /\ turns'[t].alone = turns[t].alone
      /\ \A o \in Turn \ {t} : turns'[o] = turns[o]
      /\ TurnsStay
  BY OneAdvances
<1>2. /\ threads' = [threads EXCEPT ![turns[t].thread] = messages]
      /\ threads \in [Turn -> Seq(Message)] /\ turns[t] # None /\ turns[t].thread \in Turn
  BY DEF Checkpoint, ChatInv, ChatTypeOK, Turns, Running
<1>3. AloneOk' /\ NthOk' /\ \A o \in Turn : Running(o)' => Running(o)
  BY <1>1, AloneAdvances
<1>4. LastOk'
  BY <1>1 DEF RecallInv, LastOk, At
<1>5. ASSUME Durable, NEW u \in Turn, Over(u)' PROVE RecallOk(u)'
  <2>. DEFINE s == turns[u].thread
  <2>1. CASE u = t
    <3>1. Knows(messages, t, turns') /\ Running(t)' /\ turns'[t].alone
      BY <1>1, <1>5, <2>1 DEF Over, Running
    <3>2. threads'[turns'[t].thread] = messages
      BY <1>1, <1>2 DEF TurnsStay
    <3>3. \A o \in Turn \ {t} : Running(o)' => turns'[o].thread # turns'[t].thread
      BY <1>3, <3>1 DEF AloneOk
    <3>. QED
      BY <2>1, <3>1, <3>2, <3>3 DEF RecallOk
  <2>2. CASE u # t
    <3>1. Over(u) /\ RecallOk(u) /\ turns'[u] = turns[u] /\ turns[u] # None /\ turns[u] \in Turns
      BY <1>1, <1>5, <2>2 DEF Over, RecallInv, ChatInv, ChatTypeOK
    <3>2. turns[u].thread \in Turn
      BY <3>1 DEF Turns
    <3>3. turns[u].thread = turns[t].thread =>
              Knows(messages, u, turns') /\ turns[t].nth > turns[u].nth
      BY <2>2, <3>1 DEF RecallOk, Tells
    <3>4. Knows(threads'[turns'[u].thread], u, turns')
      <4>1. CASE turns[u].thread = turns[t].thread
        BY <1>2, <3>1, <3>3, <4>1
      <4>2. CASE turns[u].thread # turns[t].thread
        <5>1. threads'[turns[u].thread] = threads[turns[u].thread] /\ threads[turns[u].thread] \in Seq(Message)
          BY <1>2, <3>2, <4>2
        <5>2. Belongs(threads[turns[u].thread], turns[u].thread, turns)
          BY <3>2 DEF ChatInv, ThreadsOk, ThreadOk
        <5>3. Knows(threads[turns[u].thread], u, turns)
          BY <3>1 DEF RecallOk
        <5>. QED
          BY <1>1, <3>1, <3>2, <5>1, <5>2, <5>3, KnowsStays
      <4>. QED
        BY <4>1, <4>2
    <3>5. ASSUME NEW o \in Turn \ {u}, Running(o)', turns'[o].thread = turns'[u].thread
          PROVE  Knows(turns'[o].messages, u, turns') /\ turns'[o].nth > turns'[u].nth
      <4>1. CASE o = t
        BY <1>1, <1>2, <3>1, <3>3, <3>5, <4>1 DEF TurnsStay
      <4>2. CASE o # t
        <5>1. /\ turns'[o] = turns[o] /\ Running(o) /\ turns[o].thread = turns[u].thread
          BY <1>1, <1>3, <3>1, <3>5, <4>2
        <5>2. Knows(turns[o].messages, u, turns) /\ turns[o].nth > turns[u].nth
          BY <3>1, <5>1 DEF RecallOk
        <5>. QED
          BY <1>1, <3>1, <5>1, <5>2, OthersKnow
      <4>. QED
        BY <4>1, <4>2
    <3>. QED
      BY <3>4, <3>5 DEF RecallOk
  <2>. QED
    BY <2>1, <2>2
<1>6. Durable => \A u \in Turn : RecallOk(u)'
  BY <1>5 DEF RecallOk
<1>. QED
  BY <1>3, <1>4, <1>6 DEF RecallInv

\* So does a step that stores nothing.
LEMMA RecallGoes ==
    ASSUME ChatInv, RecallInv, NEW t \in Turn, Running(t),
           NEW pc \in Node, NEW reply \in Said, Goes(t, pc, reply), threads' = threads,
           pc # "trim", pc \in {"answer", "done"} => turns[t].pc = "answer"
    PROVE  RecallInv'
<1>1. turns[t] # None /\ turns[t].messages \in Seq(Message)
  BY DEF ChatInv, ChatTypeOK, Turns, Running
<1>. ChatTypeOK /\ Advances(t, turns[t].messages, pc, reply)
  BY DEF ChatInv, Goes, Advances
<1>2. /\ turns'[t].messages = turns[t].messages /\ turns'[t].pc = pc
      /\ turns'[t].alone = turns[t].alone
      /\ \A o \in Turn \ {t} : turns'[o] = turns[o]
      /\ TurnsStay
  BY <1>1, OneAdvances
<1>3. AloneOk' /\ NthOk' /\ \A o \in Turn : Running(o)' => Running(o)
  BY <1>2, AloneAdvances
<1>4. LastOk'
  BY <1>2 DEF RecallInv, LastOk, At
<1>5. ASSUME Durable, NEW u \in Turn, Over(u)' PROVE RecallOk(u)'
  <2>1. /\ Over(u) /\ RecallOk(u) /\ turns[u] # None /\ turns[u] \in Turns
    BY <1>1, <1>2, <1>5 DEF Over, RecallInv, ChatInv, ChatTypeOK
  <2>2. turns[u].thread \in Turn /\ turns'[u].thread = turns[u].thread
    BY <1>2, <2>1 DEF Turns, TurnsStay
  <2>3. Knows(threads[turns[u].thread], u, turns')
    <3>1. threads[turns[u].thread] \in Seq(Message) /\ Belongs(threads[turns[u].thread], turns[u].thread, turns)
      BY <2>2 DEF ChatInv, ChatTypeOK, ThreadsOk, ThreadOk
    <3>2. Knows(threads[turns[u].thread], u, turns)
      BY <2>1 DEF RecallOk
    <3>. QED
      BY <1>2, <2>1, <2>2, <3>1, <3>2, KnowsStays
  <2>4. ASSUME NEW o \in Turn \ {u}, Running(o)', turns'[o].thread = turns'[u].thread
        PROVE  Knows(turns'[o].messages, u, turns') /\ turns'[o].nth > turns'[u].nth
    <3>1. Running(o) /\ turns[o] # None /\ turns'[o].messages = turns[o].messages
      BY <1>2, <1>3, <2>4 DEF Running
    <3>2. turns[o].thread = turns[u].thread
      BY <1>2, <2>2, <2>4, <3>1 DEF TurnsStay
    <3>3. Knows(turns[o].messages, u, turns) /\ turns[o].nth > turns[u].nth
      BY <2>1, <3>1, <3>2 DEF RecallOk
    <3>4. turns[o].messages \in Seq(Message) /\ turns[o].thread \in Turn
          /\ Belongs(turns[o].messages, turns[o].thread, turns)
      BY <3>1 DEF ChatInv, ChatTypeOK, Turns, TurnsOk, TurnOk
    <3>5. Knows(turns[o].messages, u, turns')
      BY <1>2, <2>1, <3>3, <3>4, KnowsStays
    <3>. QED
      BY <1>2, <2>1, <3>1, <3>3, <3>5 DEF TurnsStay
  <2>. QED
    BY <2>2, <2>3, <2>4 DEF RecallOk
<1>6. Durable => \A u \in Turn : RecallOk(u)'
  BY <1>5 DEF RecallOk
<1>. QED
  BY <1>3, <1>4, <1>6 DEF RecallInv

\* What the turns do meanwhile does not matter.
LEMMA TellsNow ==
    ASSUME TurnsStay, NEW t \in Turn, turns[t].thread \in Turn,
           NEW m \in Seq(Message), Belongs(m, turns[t].thread, turns), Keeps(t, m)
    PROVE  Tells(t, m)
BY KnowsStays DEF Tells, Keeps

\* The nodes, one by one.
LEMMA SyncRecalls ==
    ASSUME ChatInv, RecallInv, NEW t \in Turn, SyncMemory(t)
    PROVE  RecallInv'
<1>1. /\ Running(t) /\ turns[t].messages \in Seq(Message) /\ turns[t].thread \in Turn
      /\ Belongs(turns[t].messages, turns[t].thread, turns)
  BY DEF SyncMemory, At, Running, ChatInv, ChatTypeOK, Turns, TurnsOk, TurnOk
<1>2. Checkpoint(t, turns[t].messages, "generate", "none")
  BY DEF SyncMemory
<1>3. Tells(t, turns[t].messages)
  <2>1. TurnsStay
    BY SyncKeeps DEF ChatKept
  <2>2. Keeps(t, turns[t].messages)
    BY <1>1 DEF Keeps
  <2>. QED
    BY <1>1, <2>1, <2>2, TellsNow
<1>4. "generate" \in Node \ {"done", "failed"} /\ "none" \in Said
  BY DEF Node, Said
<1>. QED
  BY <1>1, <1>2, <1>3, <1>4, RecallCheckpoint

\* The answer of a turn is a later message to those before it.
LEMMA ReturnRecalls ==
    ASSUME ChatInv, RecallInv, NEW t \in Turn, NEW reply \in Replies, Return(t, reply)
    PROVE  RecallInv'
<1>. DEFINE m == Append(turns[t].messages, <<t, "a">>)
<1>1. /\ Running(t) /\ turns[t] # None /\ turns[t].messages \in Seq(Message)
      /\ turns[t].thread \in Turn /\ <<t, "a">> \in Message
      /\ Belongs(turns[t].messages, turns[t].thread, turns)
  BY DEF Return, At, Running, ChatInv, ChatTypeOK, Turns, TurnsOk, TurnOk, Message
<1>2. /\ m \in Seq(Message) /\ Len(m) = Len(turns[t].messages) + 1 /\ m[Len(m)] = <<t, "a">>
      /\ Len(m) > 0
  BY <1>1
<1>3. Belongs(m, turns[t].thread, turns)
  BY <1>1 DEF Belongs
<1>4. ASSUME NEW u \in Turn, Knows(turns[t].messages, u, turns), turns[t].nth > turns[u].nth
      PROVE  Knows(m, u, turns)
  <2>. DEFINE x == <<t, "a">>
  <2>1. x \in Message /\ x[1] = t
    BY <1>1
  <2>. HIDE DEF x
  <2>2. Knows(Append(turns[t].messages, x), u, turns)
    BY <1>1, <1>4, <2>1, KnowsAppend
  <2>. QED
    BY <2>2 DEF x
<1>5. Checkpoint(t, m, "trim", reply)
  BY DEF Return
<1>. HIDE DEF m
<1>6. Tells(t, m)
  <2>1. TurnsStay
    BY ReturnKeeps DEF ChatKept
  <2>2. Keeps(t, m)
    BY <1>1, <1>2, <1>3, <1>4 DEF Keeps
  <2>. QED
    BY <1>1, <1>2, <1>3, <1>4, <2>1, <2>2, TellsNow
<1>7. "trim" \in Node \ {"done", "failed"} /\ reply \in Said
  BY DEF Node, Said
<1>. QED
  BY <1>1, <1>2, <1>5, <1>6, <1>7, RecallCheckpoint

\* Trimming gives up the oldest messages only.
LEMMA TrimRecalls ==
    ASSUME ChatInv, RecallInv, NEW t \in Turn, TrimMemory(t)
    PROVE  RecallInv'
<1>. DEFINE m == Trim(turns[t].messages)
<1>1. /\ Running(t) /\ turns[t].messages \in Seq(Message) /\ turns[t].thread \in Turn
      /\ turns[t].reply \in Said /\ Ordered(turns[t].messages)
      /\ Belongs(turns[t].messages, turns[t].thread, turns)
  BY DEF TrimMemory, At, Running, ChatInv, ChatTypeOK, Turns, TurnsOk, TurnOk
<1>2. m \in Seq(Message) /\ Belongs(m, turns[t].thread, turns)
  BY <1>1, TrimmedOrdered
<1>3. Knows(turns[t].messages, t, turns')
  <2>1. /\ Len(turns[t].messages) > 0
        /\ turns[t].messages[Len(turns[t].messages)] = <<t, "a">>
    BY DEF TrimMemory, RecallInv, LastOk
  <2>. QED
    BY <1>1, <2>1, KnowsOwn
<1>4. Knows(m, t, turns')
  BY <1>1, <1>3, KnowsTrim
<1>5. \A u \in Turn : Knows(turns[t].messages, u, turns) => Knows(m, u, turns)
  BY <1>1, KnowsTrim
<1>6. Checkpoint(t, m, "answer", turns[t].reply)
  BY DEF TrimMemory
<1>. HIDE DEF m
<1>7. Tells(t, m)
  <2>1. TurnsStay
    BY TrimKeeps DEF ChatKept
  <2>2. Keeps(t, m)
    BY <1>1, <1>2, <1>5 DEF Keeps
  <2>. QED
    BY <1>1, <1>2, <1>5, <2>1, <2>2, TellsNow
<1>8. "answer" \in Node \ {"done", "failed"}
  BY DEF Node
<1>. QED
  BY <1>1, <1>2, <1>4, <1>6, <1>7, <1>8, RecallCheckpoint

\* The steps that store nothing.
LEMMA NoStoreRecalls ==
    ASSUME ChatInv, RecallInv, NEW t \in Turn,
           \/ SyncFails(t) \/ CallModel(t) \/ CallFails(t)
           \/ \E arrives \in BOOLEAN : Answer(t, arrives)
    PROVE  RecallInv'
<1>1. Running(t) /\ turns[t].reply \in Said /\ threads' = threads
  BY DEF SyncFails, CallModel, CallFails, Answer, At, Running, ChatInv, ChatTypeOK, Turns
<1>2. {"failed", "calling", "done"} \subseteq Node /\ {"none", "notice"} \subseteq Said
  BY DEF Node, Said
<1>3. CASE SyncFails(t) \/ CallModel(t) \/ CallFails(t)
  <2>1. Goes(t, "failed", "none") \/ Goes(t, "calling", "none")
    BY <1>3 DEF SyncFails, CallModel, CallFails
  <2>. QED
    BY <1>1, <1>2, <2>1, RecallGoes
<1>4. ASSUME NEW arrives \in BOOLEAN, Answer(t, arrives) PROVE RecallInv'
  <2>. DEFINE pc == IF arrives THEN "done" ELSE "failed"
              said == IF warming THEN "notice" ELSE turns[t].reply
  <2>1. Goes(t, pc, said) /\ turns[t].pc = "answer"
    BY <1>4 DEF Answer, At
  <2>2. pc \in Node /\ pc # "trim" /\ said \in Said
    BY <1>1, <1>2
  <2>. HIDE DEF pc, said
  <2>. QED
    BY <1>1, <2>1, <2>2, RecallGoes
<1>. QED
  BY <1>3, <1>4

\* A new turn starts from what its thread knows, or spoils its mates.
LEMMA SendRecalls ==
    ASSUME ChatInv, RecallInv, NEW t \in Turn, NEW g \in Pages, NEW user \in Emails \cup {None},
           NEW name \in Statements, Send(t, g, user, name)
    PROVE  RecallInv'
<1>. DEFINE s == Thread(t, g)
            m == Opened(t, s)
<1>1. /\ s \in Turn /\ turns[t] = None /\ m \in Seq(Message)
      /\ threads' = [threads EXCEPT ![s] = m]
      /\ turns'[t] # None /\ turns'[t].thread = s
      /\ turns'[t].messages = m /\ turns'[t].pc = "sync"
      /\ turns'[t].nth = Cardinality(Sent) + 1
      /\ turns'[t].alone <=> Mates(s) = {}
      /\ \A o \in Turn \ {t} : turns[o] = None => turns'[o] = None
      /\ \A o \in Turn \ {t} : turns[o] # None =>
            /\ turns'[o].messages = turns[o].messages /\ turns'[o].pc = turns[o].pc
            /\ turns'[o].alone => turns[o].alone /\ o \notin Mates(s)
      /\ TurnsStay
  BY SentTurns
<1>2. /\ m = Append(threads[s], <<t, "q">>) /\ threads[s] \in Seq(Message)
      /\ <<t, "q">> \in Message /\ threads \in [Turn -> Seq(Message)]
      /\ Belongs(threads[s], s, turns)
  BY <1>1 DEF Opened, ChatInv, ChatTypeOK, Message, ThreadsOk, ThreadOk
<1>. HIDE DEF s, m
<1>3. \A o \in Turn \ {t} : Running(o)' => Running(o) /\ turns'[o].thread = turns[o].thread
  BY <1>1 DEF Running, TurnsStay
<1>4. AloneOk'
  <2>. SUFFICES ASSUME NEW u \in Turn, NEW o \in Turn,
                       Running(u)', turns'[u].alone, Running(o)', o # u,
                       turns'[o].thread = turns'[u].thread
                PROVE  FALSE
    BY DEF AloneOk
  <2>1. CASE u = t
    <3>1. o \in Mates(s)
      BY <1>1, <1>3, <2>1 DEF Mates
    <3>. QED
      BY <1>1, <2>1, <3>1
  <2>2. CASE u # t
    <3>1. Running(u) /\ turns[u] # None /\ turns[u].alone /\ u \notin Mates(s) /\ turns'[u].thread = turns[u].thread
      BY <1>1, <1>3, <2>2 DEF Running
    <3>2. CASE o = t
      BY <1>1, <3>1, <3>2 DEF Mates
    <3>3. CASE o # t
      BY <1>3, <3>1, <3>3 DEF RecallInv, AloneOk
    <3>. QED
      BY <3>2, <3>3
  <2>. QED
    BY <2>1, <2>2
<1>5. LastOk'
  BY <1>1 DEF RecallInv, LastOk, At
<1>6. Cardinality(Sent)' = Cardinality(Sent) + 1 /\ Cardinality(Sent) \in Nat
  <2>1. Sent' = Sent \cup {t} /\ t \notin Sent
    BY <1>1 DEF Sent, TurnsStay
  <2>2. IsFiniteSet(Sent)
    BY FS_Subset, ChatAssumption DEF Sent
  <2>. QED
    BY <2>1, <2>2, FS_AddElement, SentFinite
<1>7. \A u \in Turn : turns[u] # None =>
          turns[u].nth \in Nat /\ turns[u].nth <= Cardinality(Sent) /\ turns'[u].nth = turns[u].nth
  BY <1>1 DEF RecallInv, NthOk, TurnsStay, ChatInv, ChatTypeOK, Turns
<1>8. NthOk'
  BY <1>1, <1>6, <1>7 DEF NthOk
<1>9. ASSUME Durable, NEW u \in Turn, Over(u)' PROVE RecallOk(u)'
  <2>1. u # t /\ turns[u] # None /\ Over(u) /\ turns'[u].thread = turns[u].thread
    BY <1>1, <1>9 DEF Over, TurnsStay
  <2>2. RecallOk(u) /\ turns[u].thread \in Turn /\ u \notin Mates(s)
    BY <1>1, <1>9, <2>1 DEF Over, RecallInv, ChatInv, ChatTypeOK, Turns
  <2>3. turns'[t].nth > turns'[u].nth
    BY <1>1, <1>6, <1>7, <2>1
  <2>4. Knows(threads[turns[u].thread], u, turns')
    <3>1. /\ threads[turns[u].thread] \in Seq(Message)
          /\ Belongs(threads[turns[u].thread], turns[u].thread, turns)
      BY <2>2 DEF ChatInv, ChatTypeOK, ThreadsOk, ThreadOk
    <3>2. Knows(threads[turns[u].thread], u, turns)
      BY <2>1, <2>2 DEF RecallOk
    <3>. QED
      BY <1>1, <2>1, <2>2, <3>1, <3>2, KnowsStays
  <2>5. s = turns[u].thread => Knows(m, u, turns')
    BY <1>2, <2>3, <2>4, KnowsAppend
  <2>6. Knows(threads'[turns'[u].thread], u, turns')
    BY <1>1, <1>2, <2>1, <2>2, <2>4, <2>5
  <2>7. ASSUME NEW o \in Turn \ {u}, Running(o)', turns'[o].thread = turns'[u].thread
        PROVE  Knows(turns'[o].messages, u, turns') /\ turns'[o].nth > turns'[u].nth
    <3>1. CASE o = t
      BY <1>1, <2>1, <2>3, <2>5, <2>7, <3>1
    <3>2. CASE o # t
      <4>1. Running(o) /\ turns[o] # None /\ turns'[o].messages = turns[o].messages
        BY <1>1, <1>3, <2>7, <3>2 DEF Running
      <4>2. turns[o].thread = turns[u].thread
        BY <1>3, <2>1, <2>7, <3>2
      <4>3. Knows(turns[o].messages, u, turns) /\ turns[o].nth > turns[u].nth
        BY <2>1, <2>2, <4>1, <4>2 DEF RecallOk
      <4>4. turns[o].messages \in Seq(Message) /\ turns[o].thread \in Turn
            /\ Belongs(turns[o].messages, turns[o].thread, turns)
        BY <4>1 DEF ChatInv, ChatTypeOK, Turns, TurnsOk, TurnOk
      <4>5. Knows(turns[o].messages, u, turns')
        BY <1>1, <2>1, <4>3, <4>4, KnowsStays
      <4>. QED
        BY <1>7, <2>1, <4>1, <4>3, <4>5
    <3>. QED
      BY <3>1, <3>2
  <2>. QED
    BY <2>6, <2>7 DEF RecallOk
<1>10. Durable => \A u \in Turn : RecallOk(u)'
  BY <1>9 DEF RecallOk
<1>. QED
  BY <1>4, <1>5, <1>8, <1>10 DEF RecallInv

\* A restart leaves durable threads alone.
LEMMA RestartRecalls ==
    ASSUME ChatInv, RecallInv, ChatRestart
    PROVE  RecallInv'
<1>1. /\ TurnsStay
      /\ \A t \in Turn : turns[t] = None => turns'[t] = None
      /\ \A t \in Turn : turns[t] # None =>
            /\ turns'[t].messages = turns[t].messages /\ turns'[t].alone = turns[t].alone
            /\ turns'[t].pc \in {"done", "failed"}
            /\ turns'[t].pc = "done" => turns[t].pc = "done"
  BY RestartedTurns
<1>2. AloneOk' /\ LastOk'
  BY <1>1 DEF AloneOk, LastOk, Running, At
<1>3. NthOk'
  <2>1. Sent' = Sent
    BY <1>1 DEF Sent, TurnsStay
  <2>. QED
    BY <1>1, <2>1 DEF RecallInv, NthOk, TurnsStay, Sent
<1>4. ASSUME Durable, NEW u \in Turn, Over(u)' PROVE RecallOk(u)'
  <2>1. Over(u) /\ turns[u] # None /\ RecallOk(u) /\ turns'[u].thread = turns[u].thread /\ threads' = threads
    BY <1>1, <1>4 DEF Over, RecallInv, TurnsStay, ChatRestart
  <2>2. /\ turns[u].thread \in Turn /\ threads[turns[u].thread] \in Seq(Message)
        /\ Belongs(threads[turns[u].thread], turns[u].thread, turns)
    BY <2>1 DEF ChatInv, ChatTypeOK, Turns, ThreadsOk, ThreadOk
  <2>3. Knows(threads[turns[u].thread], u, turns')
    BY <1>1, <2>1, <2>2, KnowsStays DEF RecallOk
  <2>4. \A o \in Turn : ~Running(o)'
    BY <1>1 DEF Running
  <2>. QED
    BY <2>1, <2>3, <2>4 DEF RecallOk
<1>5. Durable => \A u \in Turn : RecallOk(u)'
  BY <1>4 DEF RecallOk
<1>. QED
  BY <1>2, <1>3, <1>5 DEF RecallInv

\* Every step keeps what threads recall.
LEMMA RecallKept ==
    ASSUME AccountsTypeOK, ChatInv, RecallInv, [Next]_vars
    PROVE  RecallInv'
<1>1. ASSUME NEW t \in Turn, NEW g \in Pages, NEW name \in Statements,
             Send(t, g, CurrentUser(g), name)
      PROVE  RecallInv'
  BY <1>1, UsersOfPages, SendRecalls
<1>2. ASSUME NEW t \in Turn, Proceed(t) PROVE RecallInv'
  BY <1>2, SyncRecalls, ReturnRecalls, TrimRecalls, NoStoreRecalls DEF Proceed
<1>3. (\E g \in Pages : Reload(g)) \/ UNCHANGED chatVars => UNCHANGED <<turns, threads>>
  BY DEF Reload, chatVars
<1>4. ASSUME UNCHANGED <<turns, threads>> PROVE RecallInv'
  BY <1>4 DEF RecallInv, AloneOk, LastOk, NthOk, Sent, RecallOk, Over, Running, At
<1>. QED
  BY <1>1, <1>2, <1>3, <1>4, StepOfChat, RestartRecalls DEF ChatStep

\* What threads recall is what users expect.
LEMMA RecallRemembers == ChatInv /\ RecallInv => RememberedTurn
<1>. SUFFICES ASSUME ChatInv, RecallInv, NEW t \in Turn, turns[t] # None,
                     turns[t].pc \in {"answer", "done"}, turns[t].alone, Durable
              PROVE  LET m == threads[turns[t].thread]
                     IN  \/ <<t, "a">> \in Range(m)
                         \/ /\ Len(m) >= MessageCap
                            /\ \A i \in DOMAIN m : turns[m[i][1]].nth > turns[t].nth
  BY DEF RememberedTurn
<1>. DEFINE m == threads[turns[t].thread]
<1>1. Recalls(m, t, turns) /\ m \in Seq(Message)
  BY DEF RecallInv, RecallOk, Over, Knows, ChatInv, ChatTypeOK, Turns
<1>2. DOMAIN m = 1 .. Len(m)
  BY <1>1
<1>. HIDE DEF m
<1>3. \/ <<t, "a">> \in Range(m)
      \/ Len(m) >= MessageCap /\ \A i \in DOMAIN m : turns[m[i][1]].nth > turns[t].nth
  BY <1>1, <1>2 DEF Recalls, Range
<1>. QED
  BY <1>3 DEF m

\* The answer to a turn that nothing overlapped stays in its thread until a
\* cap's worth of later messages has pushed it out.
THEOREM RememberedInvariant == Spec => []RememberedTurn
<1>1. Init => RecallInv
  BY DEF Init, ChatInit, RecallInv, AloneOk, LastOk, NthOk, RecallOk, Over, Running, At
<1>2. AccountInv /\ ChatInv /\ RecallInv /\ [Next]_vars => RecallInv'
  BY RecallKept DEF AccountInv
<1>3. ChatInv /\ RecallInv => RememberedTurn
  BY RecallRemembers
<1>. QED
  BY <1>1, <1>2, <1>3, AccountsInvariant, ChatInvariant, PTL DEF Spec

-----------------------------------------------------------------------------
(* The warming-up flag *)

\* The flag goes down with every return, and up only with a call.
THEOREM FlagInvariant == Spec => []FlagMeansCall
<1>1. Init => FlagMeansCall
  BY DEF Init, ChatInit, FlagMeansCall
<1>2. AccountInv /\ ChatInv /\ FlagMeansCall /\ [Next]_vars => FlagMeansCall'
  <2>. SUFFICES ASSUME AccountsTypeOK, ChatInv, FlagMeansCall, ChatStep PROVE FlagMeansCall'
    BY StepOfChat DEF AccountInv
  <2>1. ASSUME warming' = FALSE PROVE FlagMeansCall'
    BY <2>1 DEF FlagMeansCall
  <2>2. ASSUME warming' = warming, \A o \in Turn : InCall(o) => InCall(o)' PROVE FlagMeansCall'
    BY <2>2 DEF FlagMeansCall
  <2>3. ASSUME NEW t \in Turn, NEW g \in Pages, NEW name \in Statements,
               Send(t, g, CurrentUser(g), name)
        PROVE  FlagMeansCall'
    <3>1. \A o \in Turn : InCall(o) => InCall(o)'
      BY <2>3, UsersOfPages, SentTurns DEF InCall, At, TurnsStay
    <3>. QED
      BY <2>2, <2>3, <3>1 DEF Send
  <2>4. ASSUME NEW t \in Turn, CallModel(t) PROVE FlagMeansCall'
    <3>1. turns[t] # None /\ turns[t].messages \in Seq(Message) /\ ChatTypeOK
          /\ "calling" \in Node /\ "none" \in Said /\ Advances(t, turns[t].messages, "calling", "none")
      BY <2>4 DEF CallModel, At, Goes, Advances, ChatInv, ChatTypeOK, Turns, Node, Said
    <3>2. turns'[t].pc = "calling" /\ TurnsStay
      BY <3>1, OneAdvances
    <3>. QED
      BY <3>1, <3>2 DEF FlagMeansCall, InCall, At, TurnsStay
  <2>5. ASSUME NEW t \in Turn, SyncMemory(t) \/ SyncFails(t) \/ TrimMemory(t)
                               \/ \E arrives \in BOOLEAN : Answer(t, arrives)
        PROVE  FlagMeansCall'
    <3>1. \A o \in Turn : InCall(o) => turns'[o] = turns[o]
      BY <2>5 DEF SyncMemory, SyncFails, TrimMemory, Answer, Checkpoint, Goes, At, InCall,
                  ChatInv, ChatTypeOK
    <3>2. warming' = warming
      BY <2>5 DEF SyncMemory, SyncFails, TrimMemory, Answer
    <3>. QED
      BY <2>2, <3>1, <3>2 DEF InCall, At
  <2>6. ASSUME NEW t \in Turn, CallFails(t) \/ (\E reply \in Replies : Return(t, reply))
        PROVE  FlagMeansCall'
    BY <2>1, <2>6 DEF CallFails, Return
  <2>7. CASE ChatRestart
    BY <2>1, <2>7 DEF ChatRestart
  <2>8. CASE (\E g \in Pages : Reload(g)) \/ UNCHANGED chatVars
    BY <2>2, <2>8 DEF Reload, chatVars, InCall, At
  <2>. QED
    BY <2>3, <2>4, <2>5, <2>6, <2>7, <2>8 DEF ChatStep, Proceed
<1>. QED
  BY <1>1, <1>2, AccountsInvariant, ChatInvariant, PTL DEF Spec

-----------------------------------------------------------------------------
(* Towards the end *)

Place(pc) ==
    CASE pc = "sync" -> 0 [] pc = "generate" -> 1 [] pc = "calling" -> 2
      [] pc = "trim" -> 3 [] pc = "answer" -> 4 [] OTHER -> 5

\* A turn is at its node or has passed it; one that is over is never touched
\* again; and one that was overlapped stays marked.
Passes(o) ==
    turns[o] # None =>
        /\ turns'[o].pc # turns[o].pc => Place(turns[o].pc) < Place(turns'[o].pc)
        /\ ~Running(o) => turns'[o] = turns[o]
        /\ turns'[o].alone => turns[o].alone
Onward == TurnsStay /\ \A o \in Turn : Passes(o)

\* A node passes its turn on, and no other.
LEMMA AdvancePasses ==
    ASSUME ChatInv, NEW t \in Turn, NEW messages, NEW pc, NEW reply,
           Advances(t, messages, pc, reply), Running(t), Place(turns[t].pc) < Place(pc)
    PROVE  \A o \in Turn : Passes(o)
<1>1. turns \in [Turn -> {None} \cup Turns] /\ turns[t] \in Turns
  BY DEF ChatInv, ChatTypeOK, Running
<1>2. turns' = [turns EXCEPT ![t] = Advanced(turns[t], messages, pc, reply)]
  BY DEF Advances
<1>3. turns'[t].pc = pc /\ turns'[t].alone = turns[t].alone
  BY <1>1, <1>2 DEF Advanced, Turns
<1>4. \A o \in Turn \ {t} : turns'[o] = turns[o]
  BY <1>1, <1>2
<1>. QED
  BY <1>3, <1>4 DEF Passes

LEMMA ProceedPasses ==
    ASSUME ChatInv, NEW t \in Turn, Proceed(t)
    PROVE  \A o \in Turn : Passes(o)
<1>1. CASE SyncMemory(t)
  <2>1. /\ Advances(t, turns[t].messages, "generate", "none")
        /\ Running(t) /\ Place(turns[t].pc) < Place("generate")
    BY <1>1 DEF SyncMemory, Checkpoint, Advances, At, Running, Place
  <2>. QED
    BY <2>1, AdvancePasses
<1>2. CASE SyncFails(t) \/ CallFails(t)
  <2>1. /\ Advances(t, turns[t].messages, "failed", "none")
        /\ Running(t) /\ Place(turns[t].pc) < Place("failed")
    BY <1>2 DEF SyncFails, CallFails, Goes, Advances, At, Running, Place
  <2>. QED
    BY <2>1, AdvancePasses
<1>3. CASE CallModel(t)
  <2>1. /\ Advances(t, turns[t].messages, "calling", "none")
        /\ Running(t) /\ Place(turns[t].pc) < Place("calling")
    BY <1>3 DEF CallModel, Goes, Advances, At, Running, Place
  <2>. QED
    BY <2>1, AdvancePasses
<1>4. CASE TrimMemory(t)
  <2>1. /\ Advances(t, Trim(turns[t].messages), "answer", turns[t].reply)
        /\ Running(t) /\ Place(turns[t].pc) < Place("answer")
    BY <1>4 DEF TrimMemory, Checkpoint, Advances, At, Running, Place
  <2>. QED
    BY <2>1, AdvancePasses
<1>5. ASSUME NEW reply \in Replies, Return(t, reply)
      PROVE  \A o \in Turn : Passes(o)
  <2>1. /\ Advances(t, Append(turns[t].messages, <<t, "a">>), "trim", reply)
        /\ Running(t) /\ Place(turns[t].pc) < Place("trim")
    BY <1>5 DEF Return, Checkpoint, Advances, At, Running, Place
  <2>. QED
    BY <2>1, AdvancePasses
<1>6. ASSUME NEW arrives \in BOOLEAN, Answer(t, arrives)
      PROVE  \A o \in Turn : Passes(o)
  <2>. DEFINE pc == IF arrives THEN "done" ELSE "failed"
              reply == IF warming THEN "notice" ELSE turns[t].reply
  <2>1. Advances(t, turns[t].messages, pc, reply)
    BY <1>6 DEF Answer, Goes, Advances
  <2>2. Running(t) /\ Place(turns[t].pc) < Place(pc)
    BY <1>6 DEF Answer, At, Running, Place
  <2>. HIDE DEF pc, reply
  <2>. QED
    BY <2>1, <2>2, AdvancePasses
<1>. QED
  BY <1>1, <1>2, <1>3, <1>4, <1>5, <1>6 DEF Proceed

\* Turns go through the nodes in order, to their end, whatever overlaps,
\* fails or is cut: no node is run twice for a message, what a turn was
\* answered is settled, and an overlap is never forgotten.
THEOREM TurnsGoOnward == Spec => [][Onward]_vars
<1>1. ChatInv /\ AccountInv /\ [Next]_vars => Onward
  <2>. SUFFICES ASSUME ChatInv, AccountsTypeOK, [Next]_vars
                PROVE  Onward
    BY DEF AccountInv
  <2>0. TurnsStay /\ ChatStep
    BY ChatStepKeeps, StepOfChat DEF ChatKept
  <2>1. ASSUME NEW t \in Turn, NEW g \in Pages, NEW name \in Statements,
               Send(t, g, CurrentUser(g), name)
        PROVE  \A o \in Turn : Passes(o)
    <3>1. /\ turns[t] = None
          /\ \A o \in Turn \ {t} : turns[o] # None =>
                turns'[o].pc = turns[o].pc /\ (turns'[o].alone => turns[o].alone)
      BY <2>1, UsersOfPages, SentTurns
    <3>2. \A o \in Turn \ {t} : ~Running(o) => turns'[o] = turns[o]
      BY <2>1 DEF Send
    <3>. QED
      BY <3>1, <3>2 DEF Passes
  <2>2. ASSUME NEW t \in Turn, Proceed(t)
        PROVE  \A o \in Turn : Passes(o)
    BY <2>2, ProceedPasses
  <2>3. ASSUME ChatRestart PROVE \A o \in Turn : Passes(o)
    <3>. SUFFICES ASSUME NEW o \in Turn PROVE Passes(o)
      OBVIOUS
    <3>1. ~Running(o) => turns'[o] = turns[o]
      BY <2>3 DEF ChatRestart
    <3>2. turns[o] # None => turns'[o].alone = turns[o].alone
      BY <2>3, RestartedTurns
    <3>3. Running(o) => turns[o] \in Turns /\ turns[o].pc \in Node \ {"done", "failed"}
      BY DEF Running, ChatInv, ChatTypeOK, Turns
    <3>4. Running(o) => turns'[o].pc = "failed"
      BY <2>3, <3>3 DEF ChatRestart, Turns
    <3>5. Running(o) => Place(turns[o].pc) < Place("failed")
      BY <3>3 DEF Place, Node
    <3>. QED
      BY <3>1, <3>2, <3>4, <3>5 DEF Passes
  <2>4. ASSUME (\E g \in Pages : Reload(g)) \/ UNCHANGED chatVars
        PROVE  \A o \in Turn : Passes(o)
    BY <2>4 DEF Reload, chatVars, Passes
  <2>. QED
    <3>1. \A o \in Turn : Passes(o)
      BY <2>0, <2>1, <2>2, <2>3, <2>4 DEF ChatStep
    <3>. QED
      BY <2>0, <3>1 DEF Onward
<1>. QED
  BY <1>1, AccountsInvariant, ChatInvariant, PTL DEF Spec
=============================================================================
