-------------------------- MODULE SessionStore_proofs --------------------------
(***************************************************************************)
(* Theorems about SessionStore, for any number of processes, threads and   *)
(* sessions and every limit on a session. They need no fairness.           *)
(***************************************************************************)
EXTENDS SessionStore, FiniteSetTheorems, SequenceTheorems, TLAPS

\* t has the open transaction.
Transacting(t) == pc[t] \in {"insert", "commit", "newInsert", "newCommit"}

Creating(t) == pc[t] \in {"newBegin", "newInsert", "newCommit", "newLoad"}

Restoring(t) == pc[t] \in {"update", "load", "acpLoad", "acpUpdate"}

-----------------------------------------------------------------------------
(***************************************************************************)
(* What a thread works on, by its place.                                   *)
(***************************************************************************)
HasTask(t) ==
    /\ held[t] # 0 <=> pc[t] = "loop" \/ InAppend(t)
    /\ goal[t] # 0 <=> pc[t] \in {"newCommit", "newLoad"} \/ Restoring(t)
    /\ Creating(t) \/ Restoring(t) => t \in Managing
    /\ held[t] # 0 => held[t] \in db.live
    /\ pc[t] = "newLoad" \/ Restoring(t) => goal[t] \in db.live

ThreadsHaveTasks == \A t \in Threads : HasTask(t)

\* One prompt in a process, and not in the session that is being restored.
OnePromptInProcess ==
    \A t, u \in Threads : ConnectionOf[t] = ConnectionOf[u] =>
        /\ held[t] # 0 /\ held[u] # 0 => t = u
        /\ held[t] # 0 => held[t] # goal[u]

-----------------------------------------------------------------------------
(***************************************************************************)
(* The database and the open transaction. The sessions made so far are the *)
(* first ones, so that the next id is nobody's.                            *)
(***************************************************************************)
IdsInOrder ==
    /\ \E n \in 0 .. MaxSessions : db.live = 1 .. n
    /\ \A s \in Ids \ db.live : db.rows[s] = <<>>

OneTransaction ==
    /\ \A t \in Threads : Transacting(t) => lock = {ConnectionOf[t]}
    /\ \A t, u \in Threads : Transacting(t) /\ Transacting(u) => t = u
    /\ lock # {} => \E t \in Threads : Transacting(t)

\* What the open transaction has added to the database: nothing, the message
\* that makes the conversation the memory of its writer, or a session.
Drafted(t) ==
    /\ pc[t] \in {"insert", "newInsert"} => draft = db
    /\ pc[t] = "commit" =>
          /\ draft.live = db.live
          /\ \A s \in Ids \ {held[t]} : draft.rows[s] = db.rows[s]
          /\ draft.rows[held[t]] = Append(db.rows[held[t]], ConnectionOf[t])
          /\ draft.rows[held[t]] = mem[ConnectionOf[t]][held[t]]
          /\ Len(draft.rows[held[t]]) <= MaxRows
    /\ pc[t] = "newCommit" =>
          /\ \E n \in 0 .. MaxSessions : db.live = 1 .. n /\ goal[t] = n + 1
          /\ draft.live = db.live \cup {goal[t]}
          /\ \A s \in Ids \ {goal[t]} : draft.rows[s] = db.rows[s]
          /\ draft.rows[goal[t]] = <<"seed">>

DraftIsOneStep == \A t \in Threads : Drafted(t)

-----------------------------------------------------------------------------
(***************************************************************************)
(* The memories.                                                           *)
(***************************************************************************)
\* The message being appended is the process's own, at the end of its memory;
\* the rows read for a session are a prefix of it.
HasMemory(t) ==
    /\ InAppend(t) => LET m == mem[ConnectionOf[t]][held[t]]
                      IN  m # <<>> /\ Last(m) = ConnectionOf[t]
    /\ pc[t] = "acpUpdate" => IsPrefix(fresh[t], db.rows[goal[t]])

MemoryMatchesPlace == \A t \in Threads : HasMemory(t)

IInv ==
    /\ TypeOK
    /\ ThreadsHaveTasks
    /\ OnePromptInProcess
    /\ IdsInOrder
    /\ OneTransaction
    /\ DraftIsOneStep
    /\ MemoryMatchesPlace
    /\ MemoryIsPrefix

-----------------------------------------------------------------------------
(***************************************************************************)
(* Prefixes.                                                               *)
(***************************************************************************)
LEMMA PrefixIs ==
    ASSUME NEW S, NEW s \in Seq(S), NEW r \in Seq(S)
    PROVE  IsPrefix(s, r) <=> /\ Len(s) <= Len(r)
                              /\ \A i \in 1 .. Len(s) : s[i] = r[i]
<1>1. Len(s) \in Nat /\ Len(r) \in Nat
  OBVIOUS
<1>2. ASSUME Len(s) <= Len(r)
      PROVE  SubSeq(s, 1, Len(s)) = SubSeq(r, 1, Len(s)) <=>
                 \A i \in 1 .. Len(s) : s[i] = r[i]
  <2> DEFINE a == SubSeq(s, 1, Len(s))
             b == SubSeq(r, 1, Len(s))
  <2>1. /\ a \in Seq(S) /\ Len(a) = Len(s)
        /\ \A i \in 1 .. Len(s) : a[i] = s[i]
    BY <1>1
  <2>2. /\ b \in Seq(S) /\ Len(b) = Len(s)
        /\ \A i \in 1 .. Len(s) : b[i] = r[i]
    BY <1>1, <1>2
  <2> HIDE DEF a, b
  <2>3. a = b <=> \A i \in 1 .. Len(s) : a[i] = b[i]
    BY <2>1, <2>2, SeqEqual
  <2>4. a = b <=> \A i \in 1 .. Len(s) : s[i] = r[i]
    BY <2>1, <2>2, <2>3
  <2> QED
    BY <2>4 DEF a, b
<1> QED
  BY <1>2 DEF IsPrefix

LEMMA PrefixFacts ==
    ASSUME NEW S, NEW s \in Seq(S), NEW r \in Seq(S), NEW e \in S
    PROVE  /\ IsPrefix(r, r)
           /\ IsPrefix(<<>>, r)
           /\ IsPrefix(s, r) => IsPrefix(s, Append(r, e))
           /\ IsPrefix(s, r) /\ Len(s) = Len(r) => s = r
           /\ IsPrefix(s, r) => Len(s) <= Len(r)
<1>1. Append(r, e) \in Seq(S) /\ <<>> \in Seq(S)
  OBVIOUS
<1>2. IsPrefix(r, r) /\ IsPrefix(<<>>, r)
  <2>1. /\ Len(r) <= Len(r) /\ Len(<<>>) <= Len(r)
        /\ \A i \in 1 .. Len(<<>>) : <<>>[i] = r[i]
    OBVIOUS
  <2> QED
    BY <1>1, <2>1, PrefixIs
<1>3. IsPrefix(s, r) => IsPrefix(s, Append(r, e))
  <2> SUFFICES ASSUME IsPrefix(s, r) PROVE IsPrefix(s, Append(r, e))
    OBVIOUS
  <2>1. Len(s) <= Len(r) /\ \A i \in 1 .. Len(s) : s[i] = r[i]
    BY PrefixIs
  <2>2. /\ Len(Append(r, e)) = Len(r) + 1
        /\ \A i \in 1 .. Len(r) : Append(r, e)[i] = r[i]
    BY AppendProperties
  <2>3. Len(s) \in Nat /\ Len(r) \in Nat
    OBVIOUS
  <2>4. /\ Len(s) <= Len(Append(r, e))
        /\ \A i \in 1 .. Len(s) : s[i] = Append(r, e)[i]
    BY <2>1, <2>2, <2>3
  <2> QED
    BY <1>1, <2>4, PrefixIs
<1>4. IsPrefix(s, r) => Len(s) <= Len(r)
  BY DEF IsPrefix
<1>5. IsPrefix(s, r) /\ Len(s) = Len(r) => s = r
  <2> SUFFICES ASSUME IsPrefix(s, r), Len(s) = Len(r) PROVE s = r
    OBVIOUS
  <2>1. \A i \in 1 .. Len(s) : s[i] = r[i]
    BY PrefixIs
  <2> QED
    BY <2>1, SeqEqual
<1> QED
  BY <1>2, <1>3, <1>4, <1>5

\* The last message put at the end, and taken back.
LEMMA FrontOfAppend ==
    ASSUME NEW S, NEW s \in Seq(S), NEW e \in S
    PROVE  /\ Front(Append(s, e)) = s
           /\ Append(s, e) # <<>>
           /\ Last(Append(s, e)) = e
<1>1. /\ Append(s, e) \in Seq(S) /\ Append(s, e) # <<>>
      /\ Len(Append(s, e)) = Len(s) + 1
      /\ \A i \in 1 .. Len(s) : Append(s, e)[i] = s[i]
      /\ Append(s, e)[Len(s) + 1] = e
  BY AppendProperties
<1>2. Len(s) \in Nat
  OBVIOUS
<1>3. Front(Append(s, e)) = s
  <2> DEFINE a == Append(s, e)
             f == SubSeq(a, 1, Len(s))
  <2>1. a \in Seq(S) /\ Len(a) = Len(s) + 1
        /\ \A i \in 1 .. Len(s) : a[i] = s[i]
    BY <1>1
  <2> HIDE DEF a
  <2>2. /\ f \in Seq(S) /\ Len(f) = Len(s)
        /\ \A i \in 1 .. Len(s) : f[i] = a[i]
    BY <1>2, <2>1
  <2> HIDE DEF f
  <2>3. f = s
    BY <2>1, <2>2, SeqEqual
  <2>4. Front(a) = f
    BY <1>2, <2>1 DEF Front, f
  <2> QED
    BY <2>3, <2>4 DEF a
<1>4. Last(Append(s, e)) = e
  BY <1>1 DEF Last
<1> QED
  BY <1>1, <1>3, <1>4

LEMMA FrontFacts ==
    ASSUME NEW S, NEW s \in Seq(S), s # <<>>
    PROVE  /\ Front(s) \in Seq(S) /\ Last(s) \in S
           /\ Len(Front(s)) = Len(s) - 1
           /\ Append(Front(s), Last(s)) = s
<1>1. Len(s) \in Nat /\ Len(s) >= 1
  OBVIOUS
<1>2. Len(s) - 1 \in Nat /\ Len(s) \in 1 .. Len(s)
  BY <1>1
<1>3. Last(s) \in S
  BY <1>2 DEF Last
<1>4. /\ Front(s) \in Seq(S) /\ Len(Front(s)) = Len(s) - 1
      /\ \A i \in 1 .. Len(s) - 1 : Front(s)[i] = s[i]
  <2> DEFINE n == Len(s) - 1
             f == SubSeq(s, 1, n)
  <2>1. n \in Nat /\ n <= Len(s)
    BY <1>1
  <2> HIDE DEF n
  <2>2. /\ f \in Seq(S) /\ Len(f) = n
        /\ \A i \in 1 .. n : f[i] = s[i]
    BY <2>1
  <2> QED
    BY <2>2 DEF Front, n
<1> DEFINE a == Append(Front(s), Last(s))
<1>5. /\ a \in Seq(S) /\ Len(a) = Len(s)
      /\ \A i \in 1 .. Len(s) - 1 : a[i] = s[i]
      /\ a[Len(s)] = s[Len(s)]
  <2>1. /\ a \in Seq(S) /\ Len(a) = Len(Front(s)) + 1
        /\ \A i \in 1 .. Len(Front(s)) : a[i] = Front(s)[i]
        /\ a[Len(Front(s)) + 1] = Last(s)
    BY <1>3, <1>4, AppendProperties
  <2> HIDE DEF a
  <2> QED
    BY <1>1, <1>4, <2>1 DEF Last
<1> HIDE DEF a
<1>6. \A i \in 1 .. Len(s) : a[i] = s[i]
  <2>1. \A i \in 1 .. Len(s) : i \in 1 .. Len(s) - 1 \/ i = Len(s)
    BY <1>1
  <2> QED
    BY <1>5, <2>1
<1>7. a = s
  BY <1>5, <1>6, SeqEqual
<1> QED
  BY <1>3, <1>4, <1>7 DEF a

-----------------------------------------------------------------------------
(***************************************************************************)
(* Types.                                                                  *)
(***************************************************************************)
LEMMA TypeInit == Init => TypeOK
<1> SUFFICES ASSUME Init PROVE TypeOK
  OBVIOUS
<1>1. db \in Database /\ \A s \in Ids : Len(db.rows[s]) <= MaxRows
  <2>1. [s \in Ids |-> <<>>] \in [Ids -> Seq(Messages)]
    OBVIOUS
  <2> QED
    BY <2>1, BoundsAssumption DEF Init, Database
<1>2. mem \in [Connections -> [Ids -> Seq(Messages)]]
  BY DEF Init
<1>3. /\ held \in [Threads -> Ids \cup {0}] /\ goal \in [Threads -> Ids \cup {0}]
      /\ fresh \in [Threads -> Seq(Messages)] /\ pc \in [Threads -> Places]
  BY DEF Init, Places
<1> QED
  BY <1>1, <1>2, <1>3 DEF Init, TypeOK

LEMMA GotoType ==
    ASSUME TypeOK, NEW t \in Threads, NEW l \in Places, Goto(t, l)
    PROVE  /\ pc' \in [Threads -> Places]
           /\ pc'[t] = l
           /\ \A u \in Threads : u # t => pc'[u] = pc[u]
  BY DEF TypeOK, Goto

\* The thread is free again, the message it was appending is taken back.
LEMMA AbandonDoes ==
    ASSUME TypeOK, ThreadsHaveTasks, NEW t \in Threads, Abandon(t)
    PROVE  /\ pc' \in [Threads -> Places]
           /\ held' \in [Threads -> Ids \cup {0}]
           /\ goal' \in [Threads -> Ids \cup {0}]
           /\ fresh' \in [Threads -> Seq(Messages)]
           /\ mem' \in [Connections -> [Ids -> Seq(Messages)]]
           /\ pc'[t] = "free" /\ held'[t] = 0 /\ goal'[t] = 0
           /\ \A u \in Threads : u # t =>
                  /\ pc'[u] = pc[u] /\ held'[u] = held[u]
                  /\ goal'[u] = goal[u] /\ fresh'[u] = fresh[u]
<1>1. pc' \in [Threads -> Places] /\ pc'[t] = "free"
      /\ \A u \in Threads : u # t => pc'[u] = pc[u]
  BY GotoType DEF Abandon, Places
<1>2. /\ held' \in [Threads -> Ids \cup {0}]
      /\ goal' \in [Threads -> Ids \cup {0}]
      /\ fresh' \in [Threads -> Seq(Messages)]
      /\ held'[t] = 0 /\ goal'[t] = 0
      /\ \A u \in Threads : u # t =>
             held'[u] = held[u] /\ goal'[u] = goal[u] /\ fresh'[u] = fresh[u]
  BY DEF Abandon, TypeOK
<1>3. mem' \in [Connections -> [Ids -> Seq(Messages)]]
  <2>1. CASE ~InAppend(t)
    BY <2>1 DEF Abandon, TypeOK
  <2>2. CASE InAppend(t)
    <3> DEFINE c == ConnectionOf[t]
               s == held[t]
    <3>1. c \in Connections /\ s \in Ids
      BY <2>2, ThreadsAssumption DEF ThreadsHaveTasks, HasTask, TypeOK
    <3>2. mem' = [mem EXCEPT ![c][s] = Front(mem[c][s])]
      BY <2>2 DEF Abandon
    <3>3. Front(mem[c][s]) \in Seq(Messages)
      BY <3>1 DEF TypeOK, Front
    <3> QED
      BY <3>1, <3>2, <3>3 DEF TypeOK
  <2> QED
    BY <2>1, <2>2
<1> QED
  BY <1>1, <1>2, <1>3

-----------------------------------------------------------------------------
(***************************************************************************)
(* A step of one thread leaves what the others do and know alone.          *)
(***************************************************************************)
Moves(t) ==
    /\ pc' \in [Threads -> Places]
    /\ held' \in [Threads -> Ids \cup {0}]
    /\ goal' \in [Threads -> Ids \cup {0}]
    /\ fresh' \in [Threads -> Seq(Messages)]
    /\ \A u \in Threads : u # t =>
           /\ pc'[u] = pc[u] /\ held'[u] = held[u]
           /\ goal'[u] = goal[u] /\ fresh'[u] = fresh[u]

LEMMA TasksStep ==
    ASSUME ThreadsHaveTasks, NEW t \in Threads, Moves(t),
           db.live \subseteq db'.live, HasTask(t)'
    PROVE  ThreadsHaveTasks'
<1> SUFFICES ASSUME NEW u \in Threads PROVE HasTask(u)'
  BY DEF ThreadsHaveTasks
<1>1. CASE u = t
  BY <1>1
<1>2. CASE u # t
  BY <1>2 DEF ThreadsHaveTasks, HasTask, Moves, InAppend, Creating, Restoring
<1> QED
  BY <1>1, <1>2

\* No task is taken up.
LEMMA OnePromptStep ==
    ASSUME OnePromptInProcess, NEW t \in Threads, Moves(t),
           held'[t] \in {0, held[t]}, goal'[t] \in {0, goal[t]}
    PROVE  OnePromptInProcess'
<1>1. \A u \in Threads : held'[u] \in {0, held[u]} /\ goal'[u] \in {0, goal[u]}
  BY DEF Moves
<1>2. ASSUME NEW u \in Threads, NEW v \in Threads,
             ConnectionOf[u] = ConnectionOf[v]
      PROVE  /\ held'[u] # 0 /\ held'[v] # 0 => u = v
             /\ held'[u] # 0 => held'[u] # goal'[v]
  BY <1>1, <1>2 DEF OnePromptInProcess
<1> QED
  BY <1>2 DEF OnePromptInProcess

\* A step outside appends and transactions that touches neither the database
\* nor the memories.
LEMMA QuietStep ==
    ASSUME IInv, NEW t \in Threads, Moves(t), HasTask(t)',
           UNCHANGED <<db, draft, lock, mem>>,
           pc[t] \notin {"begin", "insert", "commit", "newInsert", "newCommit"},
           pc'[t] \notin {"begin", "insert", "commit", "newInsert",
                          "newCommit"},
           pc'[t] = "acpUpdate" => IsPrefix(fresh'[t], db.rows[goal'[t]])
    PROVE  /\ TypeOK' /\ ThreadsHaveTasks' /\ IdsInOrder' /\ OneTransaction'
           /\ DraftIsOneStep' /\ MemoryMatchesPlace' /\ MemoryIsPrefix'
<1>1. TypeOK'
  BY DEF IInv, TypeOK, Moves
<1>2. ThreadsHaveTasks'
  BY TasksStep DEF IInv
<1>3. IdsInOrder'
  BY DEF IInv, IdsInOrder
<1>4. OneTransaction'
  BY DEF IInv, OneTransaction, Transacting, Moves
<1>5. DraftIsOneStep'
  <2> SUFFICES ASSUME NEW u \in Threads PROVE Drafted(u)'
    BY DEF DraftIsOneStep
  <2>1. CASE u = t
    BY <2>1 DEF Drafted
  <2>2. CASE u # t
    BY <2>2 DEF IInv, DraftIsOneStep, Drafted, Moves
  <2> QED
    BY <2>1, <2>2
<1>6. MemoryMatchesPlace'
  <2> SUFFICES ASSUME NEW u \in Threads PROVE HasMemory(u)'
    BY DEF MemoryMatchesPlace
  <2>1. CASE u = t
    BY <2>1 DEF HasMemory, InAppend
  <2>2. CASE u # t
    BY <2>2 DEF IInv, MemoryMatchesPlace, HasMemory, InAppend, Moves
  <2> QED
    BY <2>1, <2>2
<1>7. MemoryIsPrefix'
  <2> SUFFICES ASSUME NEW c \in Connections, NEW s \in Ids
               PROVE  Settled(c, s)' = Settled(c, s)
    BY DEF IInv, MemoryIsPrefix
  <2>1. \A u \in Threads : /\ InAppend(u)' <=> InAppend(u)
                           /\ InAppend(u) => held'[u] = held[u]
    BY DEF InAppend, Moves
  <2> QED
    BY <2>1 DEF Settled
<1> QED
  BY <1>1, <1>2, <1>3, <1>4, <1>5, <1>6, <1>7

LEMMA StartPromptPreserves ==
    ASSUME IInv, NEW t \in Threads, NEW s \in Ids, StartPrompt(t, s)
    PROVE  IInv'
<1>1. Moves(t) /\ held'[t] = s /\ goal'[t] = goal[t] /\ pc'[t] = "loop"
  BY DEF StartPrompt, Goto, Moves, Places, IInv, TypeOK
<1>2. s \in db.live
  <2>1. ConnectionOf[t] \in Connections
    BY ThreadsAssumption
  <2>2. Settled(ConnectionOf[t], s) = mem[ConnectionOf[t]][s]
    BY DEF StartPrompt, Settled, IInv, ThreadsHaveTasks, HasTask
  <2>3. IsPrefix(mem[ConnectionOf[t]][s], db.rows[s])
    BY <2>1, <2>2 DEF IInv, MemoryIsPrefix
  <2>4. mem[ConnectionOf[t]][s] \in Seq(Messages)
    BY <2>1 DEF IInv, TypeOK
  <2>5. ASSUME db.rows[s] = <<>> PROVE FALSE
    <3> DEFINE m == mem[ConnectionOf[t]][s]
    <3>1. m \in Seq(Messages) /\ IsPrefix(m, <<>>) /\ m # <<>>
      BY <2>3, <2>4, <2>5 DEF StartPrompt
    <3> HIDE DEF m
    <3>2. Len(m) <= 0
      BY <3>1 DEF IsPrefix
    <3> QED
      BY <3>1, <3>2
  <2> QED
    BY <2>5 DEF IInv, IdsInOrder
<1>3. HasTask(t)'
  BY <1>1, <1>2 DEF StartPrompt, HasTask, InAppend, Creating, Restoring, Ids,
                    IInv, ThreadsHaveTasks
<1>4. OnePromptInProcess'
  <2> SUFFICES ASSUME NEW u \in Threads, NEW v \in Threads,
                      ConnectionOf[u] = ConnectionOf[v]
               PROVE  /\ held'[u] # 0 /\ held'[v] # 0 => u = v
                      /\ held'[u] # 0 => held'[u] # goal'[v]
    BY DEF OnePromptInProcess
  <2>1. \A w \in Threads : goal'[w] = goal[w]
    BY DEF StartPrompt
  <2>2. \A w \in Threads : ConnectionOf[w] = ConnectionOf[t] => goal[w] = 0
    \* Only the managing thread has a goal, and it is free.
    BY ThreadsAssumption DEF StartPrompt, IInv, ThreadsHaveTasks, HasTask,
                             Creating, Restoring
  <2>3. \A w \in Threads : ConnectionOf[w] = ConnectionOf[t] => held[w] = 0
    BY DEF StartPrompt
  <2> QED
    BY <1>1, <2>1, <2>2, <2>3 DEF Moves, IInv, OnePromptInProcess, Ids
<1> QED
  BY <1>1, <1>3, <1>4, QuietStep DEF StartPrompt, IInv

LEMMA EndPromptPreserves ==
    ASSUME IInv, NEW t \in Threads, EndPrompt(t)
    PROVE  IInv'
<1>1. Moves(t) /\ held'[t] = 0 /\ goal'[t] = goal[t] /\ pc'[t] = "free"
  BY DEF EndPrompt, Goto, Moves, Places, IInv, TypeOK
<1>2. HasTask(t)'
  BY <1>1 DEF EndPrompt, HasTask, InAppend, Creating, Restoring, IInv,
              ThreadsHaveTasks
<1>3. OnePromptInProcess'
  BY <1>1, OnePromptStep DEF IInv
<1> QED
  BY <1>1, <1>2, <1>3, QuietStep DEF EndPrompt, IInv

\* The transaction that a managing thread outside of one sees on its own
\* connection is that of an append: it changes no other session.
LEMMA ViewOfOthers ==
    ASSUME IInv, NEW t \in Threads, t \in Managing, ~Transacting(t)
    PROVE  /\ View(t).live = db.live
           /\ \A s \in Ids :
                 (\A u \in Threads : ConnectionOf[u] = ConnectionOf[t] =>
                                         held[u] # s)
                 => View(t).rows[s] = db.rows[s]
<1>1. CASE ~InTransaction(t)
  BY <1>1 DEF View
<1>2. CASE InTransaction(t)
  <2>1. PICK u \in Threads : Transacting(u) /\ lock = {ConnectionOf[u]}
    BY <1>2 DEF InTransaction, IInv, OneTransaction
  <2>2. ConnectionOf[u] = ConnectionOf[t] /\ u # t
    BY <1>2, <2>1 DEF InTransaction
  <2>3. ~Creating(u)
    BY <2>2, ThreadsAssumption DEF IInv, ThreadsHaveTasks, HasTask
  <2>4. pc[u] \in {"insert", "commit"}
    BY <2>1, <2>3 DEF Transacting, Creating
  <2>5. /\ draft.live = db.live
        /\ \A s \in Ids \ {held[u]} : draft.rows[s] = db.rows[s]
    BY <2>4 DEF IInv, DraftIsOneStep, Drafted
  <2> QED
    BY <1>2, <2>2, <2>5 DEF View
<1> QED
  BY <1>1, <1>2

LEMMA CreateSessionPreserves ==
    ASSUME IInv, NEW t \in Threads, CreateSession(t)
    PROVE  IInv'
<1>1. Moves(t) /\ held'[t] = held[t] /\ goal'[t] = goal[t] /\ pc'[t] = "newBegin"
  BY DEF CreateSession, Goto, Moves, Places, IInv, TypeOK
<1>2. HasTask(t)'
  BY <1>1 DEF CreateSession, HasTask, InAppend, Creating, Restoring, IInv,
              ThreadsHaveTasks
<1>3. OnePromptInProcess'
  BY <1>1, OnePromptStep DEF IInv
<1> QED
  BY <1>1, <1>2, <1>3, QuietStep DEF CreateSession, IInv

LEMMA RestoreSessionPreserves ==
    ASSUME IInv, NEW t \in Threads, NEW s \in Ids, RestoreSession(t, s)
    PROVE  IInv'
<1>1. /\ Moves(t) /\ held'[t] = held[t] /\ goal'[t] = s
      /\ pc'[t] \in {"acpLoad", "update"}
  BY DEF RestoreSession, Goto, Moves, Places, IInv, TypeOK
<1>2. s \in db.live /\ held[t] = 0
  <2>1. t \in Managing /\ ~Transacting(t) /\ s \in View(t).live
    BY DEF RestoreSession, Transacting
  <2>2. held[t] = 0
    BY DEF RestoreSession, IInv, ThreadsHaveTasks, HasTask, InAppend
  <2> QED
    BY <2>1, <2>2, ViewOfOthers
<1>3. HasTask(t)'
  BY <1>1, <1>2 DEF RestoreSession, HasTask, InAppend, Creating, Restoring, Ids
<1>4. OnePromptInProcess'
  <2> SUFFICES ASSUME NEW u \in Threads, NEW v \in Threads,
                      ConnectionOf[u] = ConnectionOf[v]
               PROVE  /\ held'[u] # 0 /\ held'[v] # 0 => u = v
                      /\ held'[u] # 0 => held'[u] # goal'[v]
    BY DEF OnePromptInProcess
  <2>1. held' = held
    BY DEF RestoreSession
  <2>2. CASE v = t
    BY <1>1, <2>1, <2>2 DEF RestoreSession, IInv, OnePromptInProcess
  <2>3. CASE v # t
    BY <1>1, <2>1, <2>3 DEF Moves, IInv, OnePromptInProcess
  <2> QED
    BY <2>2, <2>3
<1>5. pc[t] = "free"
  BY DEF RestoreSession
<1>6. UNCHANGED <<db, draft, lock, mem>>
  BY DEF RestoreSession
<1> QED
  BY <1>1, <1>3, <1>4, <1>5, <1>6, QuietStep DEF IInv

LEMMA AcpLoadSessionPreserves ==
    ASSUME IInv, NEW t \in Threads, AcpLoadSession(t)
    PROVE  IInv'
<1> DEFINE s == goal[t]
<1>1. /\ pc[t] = "acpLoad" /\ t \in Managing /\ ~Transacting(t)
      /\ s \in Ids /\ s # 0 /\ s \in db.live /\ held[t] = 0
  BY DEF AcpLoadSession, IInv, ThreadsHaveTasks, HasTask, Restoring, InAppend,
         Transacting, TypeOK
<1>2. View(t).rows[s] = db.rows[s]
  <2>1. \A u \in Threads : ConnectionOf[u] = ConnectionOf[t] => held[u] # s
    BY <1>1 DEF IInv, OnePromptInProcess
  <2> QED
    BY <1>1, <2>1, ViewOfOthers
<1>3. db.rows[s] \in Seq(Messages)
  BY <1>1 DEF IInv, TypeOK, Database
<1>4. fresh' = [fresh EXCEPT ![t] = db.rows[s]]
  BY <1>2 DEF AcpLoadSession
<1>5. /\ Moves(t) /\ held'[t] = held[t] /\ goal'[t] = goal[t]
      /\ pc'[t] = "acpUpdate" /\ fresh'[t] = db.rows[s]
  BY <1>3, <1>4 DEF AcpLoadSession, Goto, Moves, Places, IInv, TypeOK
<1>6. HasTask(t)'
  BY <1>1, <1>5 DEF AcpLoadSession, HasTask, InAppend, Creating, Restoring
<1>7. OnePromptInProcess'
  BY <1>5, OnePromptStep DEF IInv
<1>8. IsPrefix(fresh'[t], db.rows[goal'[t]])
  <2>1. "seed" \in Messages
    BY DEF Messages
  <2> QED
    BY <1>3, <1>5, <2>1, PrefixFacts
<1>9. UNCHANGED <<db, draft, lock, mem>>
  BY DEF AcpLoadSession
<1> QED
  BY <1>1, <1>5, <1>6, <1>7, <1>8, <1>9, QuietStep DEF IInv

-----------------------------------------------------------------------------
(***************************************************************************)
(* Steps that change a memory.                                             *)
(***************************************************************************)
LEMMA SettledIs ==
    ASSUME IInv, NEW t \in Threads
    PROVE  /\ InAppend(t) => Settled(ConnectionOf[t], held[t]) =
                                 Front(mem[ConnectionOf[t]][held[t]])
           /\ \A s \in Ids :
                 (\A u \in Threads : ConnectionOf[u] = ConnectionOf[t] =>
                                         held[u] # s)
                 => Settled(ConnectionOf[t], s) = mem[ConnectionOf[t]][s]
           /\ ~InAppend(t) /\ held[t] # 0 =>
                 Settled(ConnectionOf[t], held[t]) =
                     mem[ConnectionOf[t]][held[t]]
  BY DEF Settled, IInv, OnePromptInProcess

\* The exception of an append, of a creation or of a restoration: the memory is
\* as the database knew it.
LEMMA AbandonPreserves ==
    ASSUME IInv, NEW t \in Threads, Abandon(t), UNCHANGED db,
           \/ ~Transacting(t) /\ UNCHANGED <<draft, lock>>
           \/ Transacting(t) /\ lock' = {} /\ draft' = db
    PROVE  IInv'
<1>1. /\ Moves(t) /\ mem' \in [Connections -> [Ids -> Seq(Messages)]]
      /\ pc'[t] = "free" /\ held'[t] = 0 /\ goal'[t] = 0
  BY AbandonDoes DEF Moves, IInv
<1>2. TypeOK'
  BY <1>1 DEF Moves, IInv, TypeOK
<1>3. ThreadsHaveTasks'
  <2>1. HasTask(t)'
    BY <1>1 DEF HasTask, InAppend, Creating, Restoring
  <2> QED
    BY <1>1, <2>1, TasksStep DEF IInv
<1>4. OnePromptInProcess'
  BY <1>1, OnePromptStep DEF IInv
<1>5. IdsInOrder'
  BY DEF IInv, IdsInOrder
<1>6. OneTransaction' /\ (Transacting(t) => \A u \in Threads : ~Transacting(u)')
  BY <1>1 DEF IInv, OneTransaction, Transacting, Moves
\* Another thread that appends does so elsewhere.
<1>7. \A u \in Threads : u # t /\ InAppend(u) =>
          mem'[ConnectionOf[u]][held[u]] = mem[ConnectionOf[u]][held[u]]
  <2> SUFFICES ASSUME NEW u \in Threads, u # t, InAppend(u)
               PROVE  mem'[ConnectionOf[u]][held[u]] =
                          mem[ConnectionOf[u]][held[u]]
    OBVIOUS
  <2>1. CASE ~InAppend(t)
    BY <2>1 DEF Abandon
  <2>2. CASE InAppend(t)
    <3>1. held[t] # 0 /\ held[u] # 0 /\ ConnectionOf[u] # ConnectionOf[t]
      BY <2>2 DEF IInv, ThreadsHaveTasks, HasTask, OnePromptInProcess
    <3>2. mem' = [mem EXCEPT ![ConnectionOf[t]][held[t]] =
                                 Front(mem[ConnectionOf[t]][held[t]])]
      BY <2>2 DEF Abandon
    <3>3. ConnectionOf[u] \in Connections
      BY ThreadsAssumption
    <3> QED
      BY <3>1, <3>2, <3>3 DEF IInv, TypeOK
  <2> QED
    BY <2>1, <2>2
<1>8. DraftIsOneStep'
  <2> SUFFICES ASSUME NEW u \in Threads PROVE Drafted(u)'
    BY DEF DraftIsOneStep
  <2>1. CASE Transacting(t) \/ u = t
    BY <1>1, <1>6, <2>1 DEF Drafted, Transacting
  <2>2. CASE ~Transacting(t) /\ u # t
    <3>1. /\ pc'[u] = pc[u] /\ held'[u] = held[u] /\ goal'[u] = goal[u]
          /\ UNCHANGED <<db, draft>> /\ Drafted(u)
      BY <1>1, <2>2 DEF Moves, IInv, DraftIsOneStep
    <3> QED
      BY <1>7, <2>2, <3>1 DEF Drafted, InAppend
  <2> QED
    BY <2>1, <2>2
<1>9. MemoryMatchesPlace'
  <2> SUFFICES ASSUME NEW u \in Threads PROVE HasMemory(u)'
    BY DEF MemoryMatchesPlace
  <2>1. CASE u = t
    BY <1>1, <2>1 DEF HasMemory, InAppend
  <2>2. CASE u # t
    <3>1. /\ pc'[u] = pc[u] /\ held'[u] = held[u] /\ goal'[u] = goal[u]
          /\ fresh'[u] = fresh[u] /\ HasMemory(u)
      BY <1>1, <2>2 DEF Moves, IInv, MemoryMatchesPlace
    <3> QED
      BY <1>7, <2>2, <3>1 DEF HasMemory, InAppend
  <2> QED
    BY <2>1, <2>2
<1>10. MemoryIsPrefix'
  <2> SUFFICES ASSUME NEW c \in Connections, NEW s \in Ids
               PROVE  Settled(c, s)' = Settled(c, s)
    BY DEF IInv, MemoryIsPrefix
  <2>1. \A u \in Threads : u # t => /\ InAppend(u)' <=> InAppend(u)
                                    /\ held'[u] = held[u]
    BY <1>1 DEF InAppend, Moves
  <2>2. ~InAppend(t)'
    BY <1>1 DEF InAppend
  <2>3. CASE InAppend(t) /\ c = ConnectionOf[t] /\ s = held[t]
    <3>1. Settled(c, s) = Front(mem[c][s])
      BY <2>3, SettledIs
    <3>2. mem'[c][s] = Front(mem[c][s])
      BY <2>3 DEF Abandon, IInv, TypeOK
    <3>3. \A u \in Threads : u # t /\ ConnectionOf[u] = c => held'[u] # s
      BY <2>1, <2>3 DEF IInv, OnePromptInProcess, Ids
    <3>4. Settled(c, s)' = mem'[c][s]
      BY <2>2, <3>3 DEF Settled
    <3> QED
      BY <3>1, <3>2, <3>4
  <2>4. CASE ~(InAppend(t) /\ c = ConnectionOf[t] /\ s = held[t])
    <3>1. mem'[c][s] = mem[c][s]
      BY <2>4 DEF Abandon, IInv, TypeOK
    <3> QED
      BY <2>1, <2>2, <2>4, <3>1 DEF Settled
  <2> QED
    BY <2>3, <2>4
<1> QED
  BY <1>2, <1>3, <1>4, <1>5, <1>6, <1>8, <1>9, <1>10 DEF IInv

\* A session becomes active with rows it has in the database.
LEMMA InstallPreserves ==
    ASSUME IInv, NEW t \in Threads, NEW rows \in Seq(Messages),
           Install(t, rows), UNCHANGED <<db, draft, lock, held>>,
           pc[t] = "newLoad" \/ Restoring(t), IsPrefix(rows, db.rows[goal[t]])
    PROVE  IInv'
<1> DEFINE s == goal[t]
           c == ConnectionOf[t]
<1>1. /\ s \in Ids /\ c \in Connections /\ held[t] = 0
      /\ ~InAppend(t) /\ ~Transacting(t)
  BY ThreadsAssumption DEF IInv, ThreadsHaveTasks, HasTask, Restoring, InAppend,
                           Transacting, TypeOK
<1>2. mem' = [mem EXCEPT ![c][s] = rows]
  BY DEF Install
<1>3. /\ mem' \in [Connections -> [Ids -> Seq(Messages)]]
      /\ mem'[c][s] = rows
      /\ \A d \in Connections, r \in Ids :
             d # c \/ r # s => mem'[d][r] = mem[d][r]
  <2>1. mem \in [Connections -> [Ids -> Seq(Messages)]]
    BY DEF IInv, TypeOK
  <2> HIDE DEF s, c
  <2> QED
    BY <1>1, <1>2, <2>1
<1>4. Moves(t) /\ held'[t] = 0 /\ goal'[t] = 0 /\ pc'[t] = "free"
  BY <1>1 DEF Install, Goto, Moves, Places, IInv, TypeOK
<1>5. TypeOK'
  BY <1>3, <1>4 DEF Moves, IInv, TypeOK
<1>6. ThreadsHaveTasks'
  <2>1. HasTask(t)'
    BY <1>4 DEF HasTask, InAppend, Creating, Restoring
  <2> QED
    BY <1>4, <2>1, TasksStep DEF IInv
<1>7. OnePromptInProcess'
  BY <1>1, <1>4, OnePromptStep DEF IInv
<1>8. IdsInOrder'
  BY DEF IInv, IdsInOrder
<1>9. OneTransaction'
  BY <1>1, <1>4 DEF IInv, OneTransaction, Transacting, Moves
\* No prompt of the process runs in the session.
<1>10. \A u \in Threads : ConnectionOf[u] = c => held[u] # s
  BY <1>1 DEF IInv, OnePromptInProcess, Ids
<1>11. \A u \in Threads : InAppend(u) =>
          mem'[ConnectionOf[u]][held[u]] = mem[ConnectionOf[u]][held[u]]
  BY <1>3, <1>10, ThreadsAssumption
     DEF IInv, ThreadsHaveTasks, HasTask, TypeOK
<1>12. DraftIsOneStep'
  <2> SUFFICES ASSUME NEW u \in Threads PROVE Drafted(u)'
    BY DEF DraftIsOneStep
  <2>1. CASE u = t
    BY <1>4, <2>1 DEF Drafted
  <2>2. CASE u # t
    <3>1. /\ pc'[u] = pc[u] /\ goal'[u] = goal[u] /\ Drafted(u)
      BY <1>4, <2>2 DEF Moves, IInv, DraftIsOneStep
    <3> QED
      BY <1>11, <3>1 DEF Drafted, InAppend
  <2> QED
    BY <2>1, <2>2
<1>13. MemoryMatchesPlace'
  <2> SUFFICES ASSUME NEW u \in Threads PROVE HasMemory(u)'
    BY DEF MemoryMatchesPlace
  <2>1. CASE u = t
    BY <1>4, <2>1 DEF HasMemory, InAppend
  <2>2. CASE u # t
    <3>1. /\ pc'[u] = pc[u] /\ goal'[u] = goal[u] /\ fresh'[u] = fresh[u]
          /\ HasMemory(u)
      BY <1>4, <2>2 DEF Moves, IInv, MemoryMatchesPlace
    <3> QED
      BY <1>11, <3>1 DEF HasMemory, InAppend
  <2> QED
    BY <2>1, <2>2
<1>14. MemoryIsPrefix'
  <2>1. \A u \in Threads : InAppend(u)' <=> InAppend(u)
    BY <1>1, <1>4 DEF InAppend, Moves
  <2> SUFFICES ASSUME NEW d \in Connections, NEW r \in Ids
               PROVE  IsPrefix(Settled(d, r)', db.rows[r])
    BY DEF MemoryIsPrefix
  <2>2. CASE d = c /\ r = s
    <3>1. Settled(d, r)' = mem'[d][r]
      BY <1>10, <2>2 DEF Settled
    <3> QED
      BY <1>3, <2>2, <3>1
  <2>3. CASE ~(d = c /\ r = s)
    <3>1. Settled(d, r)' = Settled(d, r)
      BY <1>3, <2>1, <2>3 DEF Settled
    <3> QED
      BY <3>1 DEF IInv, MemoryIsPrefix
  <2> QED
    BY <2>2, <2>3
<1> QED
  BY <1>5, <1>6, <1>7, <1>8, <1>9, <1>12, <1>13, <1>14 DEF IInv

\* load_session, of a session just made or of an old one.
LEMMA LoadPreserves ==
    ASSUME IInv, NEW t \in Threads, LoadCreated(t) \/ LoadSession(t)
    PROVE  IInv'
<1> DEFINE s == goal[t]
<1>1. /\ pc[t] \in {"newLoad", "load"} /\ t \in Managing /\ ~Transacting(t)
      /\ s \in Ids /\ s # 0 /\ held[t] = 0
  BY DEF LoadCreated, LoadSession, IInv, ThreadsHaveTasks, HasTask, Creating,
         Restoring, InAppend, Transacting, TypeOK
<1>2. View(t).rows[s] = db.rows[s]
  <2>1. \A u \in Threads : ConnectionOf[u] = ConnectionOf[t] => held[u] # s
    BY <1>1 DEF IInv, OnePromptInProcess
  <2> QED
    BY <1>1, <2>1, ViewOfOthers
<1>3. /\ db.rows[s] \in Seq(Messages) /\ "seed" \in Messages
  BY <1>1 DEF IInv, TypeOK, Database, Messages
<1>4. Install(t, db.rows[s])
  BY <1>2 DEF LoadCreated, LoadSession
<1>5. IsPrefix(db.rows[s], db.rows[s])
  BY <1>3, PrefixFacts
<1> QED
  BY <1>1, <1>3, <1>4, <1>5, InstallPreserves
     DEF LoadCreated, LoadSession, Restoring

LEMMA UpdateModelPreserves ==
    ASSUME IInv, NEW t \in Threads, UpdateModel(t)
    PROVE  IInv'
<1>1. CASE pc[t] = "update"
  <2>1. /\ Moves(t) /\ held'[t] = held[t] /\ goal'[t] = goal[t]
        /\ pc'[t] = "load"
    BY <1>1 DEF UpdateModel, Goto, Moves, Places, IInv, TypeOK
  <2>2. HasTask(t)'
    BY <1>1, <2>1 DEF UpdateModel, HasTask, InAppend, Creating, Restoring, IInv,
                      ThreadsHaveTasks
  <2>3. OnePromptInProcess'
    BY <2>1, OnePromptStep DEF IInv
  <2>4. UNCHANGED <<db, draft, lock, mem>>
    BY <1>1 DEF UpdateModel
  <2> QED
    BY <1>1, <2>1, <2>2, <2>3, <2>4, QuietStep DEF IInv
<1>2. CASE pc[t] = "acpUpdate"
  <2>1. Install(t, fresh[t])
    BY <1>2 DEF UpdateModel
  <2>2. fresh[t] \in Seq(Messages) /\ IsPrefix(fresh[t], db.rows[goal[t]])
    BY <1>2 DEF IInv, TypeOK, MemoryMatchesPlace, HasMemory
  <2> QED
    BY <1>2, <2>1, <2>2, InstallPreserves DEF UpdateModel, Restoring
<1> QED
  BY <1>1, <1>2 DEF UpdateModel

LEMMA PushPreserves ==
    ASSUME IInv, NEW t \in Threads, Push(t)
    PROVE  IInv'
<1> DEFINE c == ConnectionOf[t]
           s == held[t]
           m == mem[c][s]
<1>1. /\ s \in Ids /\ s # 0 /\ c \in Connections /\ pc[t] = "loop"
      /\ goal[t] = 0 /\ ~InAppend(t)
  BY ThreadsAssumption DEF Push, IInv, ThreadsHaveTasks, HasTask, Restoring,
                           InAppend, TypeOK
<1>2. m \in Seq(Messages) /\ c \in Messages
  BY <1>1 DEF IInv, TypeOK, Messages
<1>3. /\ Append(m, c) \in Seq(Messages) /\ Append(m, c) # <<>>
      /\ Last(Append(m, c)) = c /\ Front(Append(m, c)) = m
  <2> HIDE DEF c, s, m
  <2>1. Append(m, c) \in Seq(Messages)
    BY <1>2
  <2>2. \A q \in Seq(Messages), e \in Messages :
            /\ Front(Append(q, e)) = q
            /\ Append(q, e) # <<>> /\ Last(Append(q, e)) = e
    BY FrontOfAppend
  <2> QED
    BY <1>2, <2>1, <2>2
<1>4. mem' = [mem EXCEPT ![c][s] = Append(m, c)]
  BY DEF Push
<1>5. /\ mem' \in [Connections -> [Ids -> Seq(Messages)]]
      /\ mem'[c][s] = Append(m, c)
      /\ \A d \in Connections, r \in Ids :
             d # c \/ r # s => mem'[d][r] = mem[d][r]
  <2>1. mem \in [Connections -> [Ids -> Seq(Messages)]]
    BY DEF IInv, TypeOK
  <2> DEFINE new == Append(m, c)
  <2>2. new \in Seq(Messages) /\ mem' = [mem EXCEPT ![c][s] = new]
    BY <1>3, <1>4
  <2> HIDE DEF s, c, m, new
  <2> QED
    BY <1>1, <2>1, <2>2 DEF new
<1>6. /\ Moves(t) /\ held' = held /\ goal' = goal /\ fresh' = fresh
      /\ pc'[t] = "begin"
  BY <1>1 DEF Push, Goto, Moves, Places, IInv, TypeOK
<1>7. UNCHANGED <<db, draft, lock>>
  BY DEF Push
<1>8. TypeOK'
  BY <1>5, <1>6, <1>7 DEF Moves, IInv, TypeOK
<1>9. ThreadsHaveTasks'
  <2>1. HasTask(t)'
    BY <1>1, <1>6, <1>7 DEF HasTask, InAppend, Creating, Restoring, IInv,
                            ThreadsHaveTasks
  <2> QED
    BY <1>6, <1>7, <2>1, TasksStep DEF IInv
<1>10. OnePromptInProcess'
  BY <1>6, OnePromptStep DEF IInv
<1>11. IdsInOrder'
  BY <1>7 DEF IInv, IdsInOrder
<1>12. OneTransaction'
  BY <1>1, <1>6, <1>7 DEF IInv, OneTransaction, Transacting, Moves
<1>13. \A u \in Threads : u # t /\ InAppend(u) =>
          mem'[ConnectionOf[u]][held[u]] = mem[ConnectionOf[u]][held[u]]
  <2> SUFFICES ASSUME NEW u \in Threads, u # t, InAppend(u)
               PROVE  mem'[ConnectionOf[u]][held[u]] =
                          mem[ConnectionOf[u]][held[u]]
    OBVIOUS
  <2>1. held[u] # 0 /\ held[u] \in Ids /\ ConnectionOf[u] \in Connections
    BY ThreadsAssumption DEF IInv, ThreadsHaveTasks, HasTask, TypeOK
  <2>2. ConnectionOf[u] # c
    BY <1>1, <2>1 DEF IInv, OnePromptInProcess
  <2> QED
    BY <1>5, <2>1, <2>2
<1>14. DraftIsOneStep'
  <2> SUFFICES ASSUME NEW u \in Threads PROVE Drafted(u)'
    BY DEF DraftIsOneStep
  <2>1. CASE u = t
    BY <1>6, <2>1 DEF Drafted
  <2>2. CASE u # t
    <3>1. pc'[u] = pc[u] /\ Drafted(u)
      BY <1>6, <2>2 DEF Moves, IInv, DraftIsOneStep
    <3> QED
      BY <1>6, <1>7, <1>13, <2>2, <3>1 DEF Drafted, InAppend
  <2> QED
    BY <2>1, <2>2
<1>15. MemoryMatchesPlace'
  <2> SUFFICES ASSUME NEW u \in Threads PROVE HasMemory(u)'
    BY DEF MemoryMatchesPlace
  <2>1. CASE u = t
    BY <1>3, <1>5, <1>6, <2>1 DEF HasMemory
  <2>2. CASE u # t
    <3>1. pc'[u] = pc[u] /\ HasMemory(u)
      BY <1>6, <2>2 DEF Moves, IInv, MemoryMatchesPlace
    <3> QED
      BY <1>6, <1>7, <1>13, <2>2, <3>1 DEF HasMemory, InAppend
  <2> QED
    BY <2>1, <2>2
\* The message is not settled yet.
<1>16. MemoryIsPrefix'
  <2>1. \A u \in Threads : u # t => (InAppend(u)' <=> InAppend(u))
    BY <1>6 DEF InAppend, Moves
  <2>2. InAppend(t)'
    BY <1>6 DEF InAppend
  <2> SUFFICES ASSUME NEW d \in Connections, NEW r \in Ids
               PROVE  Settled(d, r)' = Settled(d, r)
    BY <1>7 DEF IInv, MemoryIsPrefix
  <2>3. CASE d = c /\ r = s
    <3>1. Settled(d, r)' = Front(mem'[d][r])
      BY <1>6, <2>2, <2>3 DEF Settled
    <3>2. Settled(d, r) = m
      BY <1>1, <2>3, SettledIs
    <3> QED
      BY <1>3, <1>5, <2>3, <3>1, <3>2
  <2>4. CASE ~(d = c /\ r = s)
    <3>1. mem'[d][r] = mem[d][r]
      BY <1>5, <2>4
    <3>2. \A u \in Threads :
             ConnectionOf[u] = d /\ held'[u] = r /\ InAppend(u)'
             <=> ConnectionOf[u] = d /\ held[u] = r /\ InAppend(u)
      BY <1>6, <2>1, <2>4
    <3> QED
      BY <3>1, <3>2 DEF Settled
  <2> QED
    BY <2>3, <2>4
<1> QED
  BY <1>8, <1>9, <1>10, <1>11, <1>12, <1>14, <1>15, <1>16 DEF IInv

-----------------------------------------------------------------------------
(***************************************************************************)
(* Steps of a transaction.                                                 *)
(***************************************************************************)
\* A step of the thread that has, or takes, the write lock: the others are in
\* no transaction and their part of the state stays.
LEMMA TransactionStep ==
    ASSUME IInv, NEW t \in Threads, Moves(t), UNCHANGED <<mem, held, fresh>>,
           lock = {} \/ Transacting(t), ~Restoring(t), ~Restoring(t)',
           InAppend(t) <=> InAppend(t)', UNCHANGED db
    PROVE  /\ \A u \in Threads : u # t => ~Transacting(u) /\ ~Transacting(u)'
           /\ MemoryMatchesPlace' /\ MemoryIsPrefix'
<1>1. \A u \in Threads : u # t => ~Transacting(u) /\ ~Transacting(u)'
  BY DEF IInv, OneTransaction, Transacting, Moves
<1>2. MemoryMatchesPlace'
  <2> SUFFICES ASSUME NEW u \in Threads PROVE HasMemory(u)'
    BY DEF MemoryMatchesPlace
  <2>1. CASE u = t
    BY <2>1 DEF IInv, MemoryMatchesPlace, HasMemory, Restoring
  <2>2. CASE u # t
    BY <2>2 DEF IInv, MemoryMatchesPlace, HasMemory, InAppend, Moves
  <2> QED
    BY <2>1, <2>2
<1>3. MemoryIsPrefix'
  <2>1. \A u \in Threads : InAppend(u)' <=> InAppend(u)
    BY DEF InAppend, Moves
  <2> SUFFICES ASSUME NEW c \in Connections, NEW s \in Ids
               PROVE  Settled(c, s)' = Settled(c, s)
    BY DEF IInv, MemoryIsPrefix
  <2> QED
    BY <2>1 DEF Settled
<1> QED
  BY <1>1, <1>2, <1>3

LEMMA BeginPreserves ==
    ASSUME IInv, NEW t \in Threads, Begin(t)
    PROVE  IInv'
<1>1. /\ pc[t] \in {"begin", "newBegin"}
      /\ pc'[t] = IF pc[t] = "begin" THEN "insert" ELSE "newInsert"
      /\ Moves(t)
  BY DEF Begin, Goto, Moves, Places, IInv, TypeOK
<1>2. /\ lock = {} /\ lock' = {ConnectionOf[t]} /\ draft' = db
      /\ UNCHANGED <<db, mem, held, goal, fresh>>
  BY DEF Begin
<1>3. /\ ~Restoring(t) /\ ~Restoring(t)' /\ (InAppend(t) <=> InAppend(t)')
      /\ Transacting(t)'
  BY <1>1 DEF Restoring, InAppend, Transacting
<1>4. /\ \A u \in Threads : u # t => ~Transacting(u) /\ ~Transacting(u)'
      /\ MemoryMatchesPlace' /\ MemoryIsPrefix'
  BY <1>1, <1>2, <1>3, TransactionStep
<1>5. TypeOK'
  BY <1>1, <1>2, ThreadsAssumption DEF Moves, IInv, TypeOK
<1>6. ThreadsHaveTasks'
  <2>1. HasTask(t)'
    BY <1>1, <1>2 DEF HasTask, InAppend, Creating, Restoring, IInv,
                      ThreadsHaveTasks
  <2> QED
    BY <1>1, <1>2, <2>1, TasksStep DEF IInv
<1>7. OnePromptInProcess'
  BY <1>1, <1>2, OnePromptStep DEF IInv
<1>8. IdsInOrder'
  BY <1>2 DEF IInv, IdsInOrder
<1>9. OneTransaction'
  BY <1>2, <1>3, <1>4 DEF OneTransaction
<1>10. DraftIsOneStep'
  <2> SUFFICES ASSUME NEW u \in Threads PROVE Drafted(u)'
    BY DEF DraftIsOneStep
  <2>1. CASE u = t
    BY <1>1, <1>2, <2>1 DEF Drafted
  <2>2. CASE u # t
    BY <1>4, <2>2 DEF Drafted, Transacting
  <2> QED
    BY <2>1, <2>2
<1> QED
  BY <1>4, <1>5, <1>6, <1>7, <1>8, <1>9, <1>10 DEF IInv

\* The message is inserted where the memory has it.
LEMMA InsertPreserves ==
    ASSUME IInv, NEW t \in Threads, Insert(t)
    PROVE  IInv'
<1> DEFINE c == ConnectionOf[t]
           s == held[t]
           m == mem[c][s]
           r == db.rows[s]
<1>1. /\ pc[t] = "insert" /\ pc'[t] = "commit" /\ Moves(t)
      /\ UNCHANGED <<db, lock, mem, held, goal, fresh>>
  BY DEF Insert, Goto, Moves, Places, IInv, TypeOK
<1>2. s \in Ids /\ s # 0 /\ c \in Connections /\ InAppend(t) /\ Transacting(t)
  BY <1>1, ThreadsAssumption DEF IInv, ThreadsHaveTasks, HasTask, InAppend,
                                 Transacting, TypeOK
<1>3. /\ m \in Seq(Messages) /\ r \in Seq(Messages) /\ c \in Messages
      /\ db \in Database
  BY <1>2 DEF IInv, TypeOK, Database, Messages
<1>4. draft = db
  BY <1>1 DEF IInv, DraftIsOneStep, Drafted
<1>5. /\ Len(m) - 1 = Len(r) /\ Len(r) < MaxRows
      /\ draft' = [db EXCEPT !.rows[s] = Append(r, c)]
  BY <1>4 DEF Insert
<1>6. m # <<>> /\ Last(m) = c /\ IsPrefix(Front(m), r)
  BY <1>2, SettledIs DEF IInv, MemoryMatchesPlace, HasMemory, MemoryIsPrefix
<1>7. /\ Append(r, c) = m /\ Append(r, c) \in Seq(Messages)
      /\ Len(Append(r, c)) <= MaxRows
  <2> HIDE DEF c, s, m, r
  <2>1. /\ Front(m) \in Seq(Messages) /\ Len(Front(m)) = Len(m) - 1
        /\ Append(Front(m), Last(m)) = m
    BY <1>3, <1>6, FrontFacts
  <2>2. Front(m) = r
    BY <1>3, <1>5, <1>6, <2>1, PrefixFacts
  <2>3. Append(r, c) = m
    BY <1>6, <2>1, <2>2
  <2>4. Len(Append(r, c)) = Len(r) + 1 /\ Len(r) \in Nat
    BY <1>3, AppendProperties
  <2> QED
    BY <1>3, <1>5, <2>3, <2>4, BoundsAssumption
<1>8. /\ draft' \in Database /\ draft'.live = db.live
      /\ draft'.rows[s] = Append(r, c)
      /\ \A q \in Ids \ {s} : draft'.rows[q] = db.rows[q]
  <2> DEFINE new == Append(r, c)
  <2>1. new \in Seq(Messages) /\ draft' = [db EXCEPT !.rows[s] = new]
    BY <1>5, <1>7
  <2> HIDE DEF s, c, m, r, new
  <2> QED
    BY <1>2, <1>3, <2>1 DEF Database, new
<1>9. ~Restoring(t) /\ ~Restoring(t)' /\ InAppend(t)' /\ Transacting(t)'
  BY <1>1 DEF Restoring, InAppend, Transacting
<1>10. /\ \A u \in Threads : u # t => ~Transacting(u) /\ ~Transacting(u)'
       /\ MemoryMatchesPlace' /\ MemoryIsPrefix'
  BY <1>1, <1>2, <1>9, TransactionStep
<1>11. TypeOK'
  BY <1>1, <1>8 DEF Moves, IInv, TypeOK
<1>12. ThreadsHaveTasks'
  <2>1. HasTask(t)'
    BY <1>1 DEF HasTask, InAppend, Creating, Restoring, IInv, ThreadsHaveTasks
  <2> QED
    BY <1>1, <2>1, TasksStep DEF IInv
<1>13. OnePromptInProcess'
  BY <1>1, OnePromptStep DEF IInv
<1>14. IdsInOrder'
  BY <1>1 DEF IInv, IdsInOrder
<1>15. OneTransaction'
  BY <1>1, <1>2, <1>9, <1>10 DEF IInv, OneTransaction
<1>16. DraftIsOneStep'
  <2> SUFFICES ASSUME NEW u \in Threads PROVE Drafted(u)'
    BY DEF DraftIsOneStep
  <2>1. CASE u = t
    BY <1>1, <1>7, <1>8, <2>1 DEF Drafted
  <2>2. CASE u # t
    BY <1>10, <2>2 DEF Drafted, Transacting
  <2> QED
    BY <2>1, <2>2
<1> QED
  BY <1>10, <1>11, <1>12, <1>13, <1>14, <1>15, <1>16 DEF IInv

\* The new id is nobody's.
LEMMA InsertSessionPreserves ==
    ASSUME IInv, NEW t \in Threads, InsertSession(t)
    PROVE  IInv'
<1> DEFINE s == Cardinality(db.live) + 1
<1>1. /\ pc[t] = "newInsert" /\ pc'[t] = "newCommit" /\ draft = db
      /\ UNCHANGED <<db, lock, mem, held, fresh>>
  BY DEF InsertSession, Goto, IInv, TypeOK, DraftIsOneStep, Drafted
<1>2. PICK n \in 0 .. MaxSessions : db.live = 1 .. n
  BY DEF IInv, IdsInOrder
<1>3. s = n + 1 /\ n \in Nat
  <2>1. n \in Nat /\ Cardinality(1 .. n) = n
    BY FS_Interval, BoundsAssumption
  <2> QED
    BY <1>2, <2>1
<1>4. /\ s \in Ids /\ goal' = [goal EXCEPT ![t] = s]
      /\ draft' = [db EXCEPT !.live = db.live \cup {s}, !.rows[s] = <<"seed">>]
  BY <1>1 DEF InsertSession
<1>5. /\ goal' \in [Threads -> Ids \cup {0}] /\ goal'[t] = s /\ s # 0
      /\ \A u \in Threads : u # t => goal'[u] = goal[u]
  BY <1>3, <1>4 DEF IInv, TypeOK
<1>6. /\ draft' \in Database /\ draft'.live = db.live \cup {s}
      /\ draft'.rows[s] = <<"seed">>
      /\ \A q \in Ids \ {s} : draft'.rows[q] = db.rows[q]
  <2>1. /\ db.live \in SUBSET Ids /\ db.rows \in [Ids -> Seq(Messages)]
        /\ db = [live |-> db.live, rows |-> db.rows]
        /\ <<"seed">> \in Seq(Messages)
    BY DEF IInv, TypeOK, Messages, Database
  <2> DEFINE new == <<"seed">>
  <2>2. /\ new \in Seq(Messages)
        /\ draft' = [db EXCEPT !.live = db.live \cup {s}, !.rows[s] = new]
    BY <1>4, <2>1
  <2> DEFINE live == db.live \cup {s}
             rows == [db.rows EXCEPT ![s] = new]
  <2>3. live \in SUBSET Ids /\ s \in Ids /\ new \in Seq(Messages)
    BY <1>4, <2>1
  <2>4. draft' = [live |-> live, rows |-> rows]
    BY <2>1, <2>2
  <2> HIDE DEF s, new, live
  <2>5. /\ rows \in [Ids -> Seq(Messages)] /\ rows[s] = new
        /\ \A q \in Ids \ {s} : rows[q] = db.rows[q]
    BY <2>1, <2>3
  <2> HIDE DEF rows
  <2>6. /\ draft' \in Database /\ draft'.live = live /\ draft'.rows = rows
    BY <2>3, <2>4, <2>5 DEF Database
  <2> QED
    BY <2>5, <2>6 DEF live, new
<1> HIDE DEF s
<1>7. Moves(t)
  BY <1>1, <1>5 DEF InsertSession, Goto, Moves, Places, IInv, TypeOK
<1>8. /\ ~Restoring(t) /\ ~Restoring(t)' /\ ~InAppend(t) /\ ~InAppend(t)'
      /\ Transacting(t) /\ Transacting(t)'
  BY <1>1 DEF Restoring, InAppend, Transacting
<1>9. /\ \A u \in Threads : u # t => ~Transacting(u) /\ ~Transacting(u)'
      /\ MemoryMatchesPlace' /\ MemoryIsPrefix'
  BY <1>1, <1>7, <1>8, TransactionStep
<1>10. TypeOK'
  BY <1>1, <1>6, <1>7 DEF Moves, IInv, TypeOK
<1>11. ThreadsHaveTasks'
  <2>1. HasTask(t)'
    BY <1>1, <1>5 DEF HasTask, InAppend, Creating, Restoring, IInv,
                      ThreadsHaveTasks
  <2> QED
    BY <1>1, <1>7, <2>1, TasksStep DEF IInv
<1>12. OnePromptInProcess'
  <2>1. \A u \in Threads : held[u] # s
    BY <1>2, <1>3, <1>5 DEF IInv, ThreadsHaveTasks, HasTask
  <2> SUFFICES ASSUME NEW u \in Threads, NEW v \in Threads,
                      ConnectionOf[u] = ConnectionOf[v]
               PROVE  /\ held'[u] # 0 /\ held'[v] # 0 => u = v
                      /\ held'[u] # 0 => held'[u] # goal'[v]
    BY DEF OnePromptInProcess
  <2>2. CASE v = t
    BY <1>1, <1>5, <2>1, <2>2 DEF IInv, OnePromptInProcess
  <2>3. CASE v # t
    BY <1>1, <1>5, <2>3 DEF IInv, OnePromptInProcess
  <2> QED
    BY <2>2, <2>3
<1>13. IdsInOrder'
  BY <1>1 DEF IInv, IdsInOrder
<1>14. OneTransaction'
  BY <1>1, <1>8, <1>9 DEF IInv, OneTransaction
<1>15. DraftIsOneStep'
  <2> SUFFICES ASSUME NEW u \in Threads PROVE Drafted(u)'
    BY DEF DraftIsOneStep
  <2>1. CASE u = t
    BY <1>1, <1>2, <1>3, <1>5, <1>6, <2>1 DEF Drafted
  <2>2. CASE u # t
    BY <1>9, <2>2 DEF Drafted, Transacting
  <2> QED
    BY <2>1, <2>2
<1> QED
  BY <1>9, <1>10, <1>11, <1>12, <1>13, <1>14, <1>15 DEF IInv

\* What becomes durable extends the conversations that were.
LEMMA CommitExtends ==
    ASSUME IInv, NEW t \in Threads, Commit(t)
    PROVE  /\ db.live \subseteq draft.live
           /\ \A s \in Ids : \A q \in Seq(Messages) :
                 IsPrefix(q, db.rows[s]) => IsPrefix(q, draft.rows[s])
           /\ \A s \in Ids : Len(draft.rows[s]) <= MaxRows
           /\ \E n \in 0 .. MaxSessions : draft.live = 1 .. n
           /\ \A s \in Ids \ draft.live : draft.rows[s] = <<>>
<1>1. /\ \A s \in Ids : db.rows[s] \in Seq(Messages)
      /\ \A s \in Ids : Len(db.rows[s]) <= MaxRows
      /\ "seed" \in Messages
  BY DEF IInv, TypeOK, Database, Messages
<1>2. CASE pc[t] = "commit"
  <2> DEFINE h == held[t]
             c == ConnectionOf[t]
  <2>1. /\ draft.live = db.live /\ h \in Ids /\ h \in db.live /\ c \in Messages
        /\ \A s \in Ids \ {h} : draft.rows[s] = db.rows[s]
        /\ draft.rows[h] = Append(db.rows[h], c)
        /\ Len(draft.rows[h]) <= MaxRows
    BY <1>2, ThreadsAssumption
       DEF IInv, DraftIsOneStep, Drafted, ThreadsHaveTasks, HasTask, InAppend,
           TypeOK, Messages
  <2> HIDE DEF h, c
  <2>2. ASSUME NEW q \in Seq(Messages), IsPrefix(q, db.rows[h])
        PROVE  IsPrefix(q, draft.rows[h])
    BY <1>1, <2>1, <2>2, PrefixFacts
  <2> QED
    BY <1>1, <2>1, <2>2 DEF IInv, IdsInOrder
<1>3. CASE pc[t] = "newCommit"
  <2> DEFINE g == goal[t]
  <2>1. PICK n \in 0 .. MaxSessions : db.live = 1 .. n /\ g = n + 1
    BY <1>3 DEF IInv, DraftIsOneStep, Drafted
  <2>2. /\ g \in Ids /\ draft.live = db.live \cup {g}
        /\ \A s \in Ids \ {g} : draft.rows[s] = db.rows[s]
        /\ draft.rows[g] = <<"seed">>
    BY <1>3 DEF IInv, DraftIsOneStep, Drafted, ThreadsHaveTasks, HasTask, TypeOK
  <2> HIDE DEF g
  <2>3. n + 1 \in 0 .. MaxSessions /\ draft.live = 1 .. n + 1
    BY <2>1, <2>2, BoundsAssumption DEF Ids
  <2>4. db.rows[g] = <<>>
    BY <2>1, <2>2 DEF IInv, IdsInOrder
  <2>5. ASSUME NEW q \in Seq(Messages), IsPrefix(q, db.rows[g])
        PROVE  IsPrefix(q, draft.rows[g])
    <3>1. Len(q) <= 0
      BY <2>4, <2>5 DEF IsPrefix
    <3>2. q = <<>>
      BY <3>1
    <3>3. <<"seed">> \in Seq(Messages)
      BY <1>1
    <3> QED
      BY <1>1, <2>2, <3>2, <3>3, PrefixFacts
  <2>6. Len(draft.rows[g]) <= MaxRows
    BY <2>2, BoundsAssumption
  <2> QED
    BY <1>1, <2>1, <2>2, <2>3, <2>5, <2>6 DEF IInv, IdsInOrder
<1> QED
  BY <1>2, <1>3 DEF Commit

LEMMA CommitPreserves ==
    ASSUME IInv, NEW t \in Threads, Commit(t)
    PROVE  IInv'
<1>1. /\ pc[t] \in {"commit", "newCommit"} /\ db' = draft /\ lock' = {}
      /\ pc'[t] = IF pc[t] = "commit" THEN "loop" ELSE "newLoad"
      /\ UNCHANGED <<draft, mem, held, goal, fresh>> /\ Moves(t)
  BY DEF Commit, Goto, Moves, Places, IInv, TypeOK
<1>2. \A u \in Threads : ~Transacting(u)' /\ (u # t => ~Transacting(u))
  BY <1>1 DEF IInv, OneTransaction, Transacting, Moves
<1>3. TypeOK'
  BY <1>1, CommitExtends DEF Moves, IInv, TypeOK
<1>4. ThreadsHaveTasks'
  <2>1. HasTask(t)'
    BY <1>1 DEF HasTask, InAppend, Creating, Restoring, IInv, ThreadsHaveTasks,
                DraftIsOneStep, Drafted
  <2> QED
    BY <1>1, <2>1, TasksStep, CommitExtends
       DEF IInv
<1>5. OnePromptInProcess'
  BY <1>1, OnePromptStep DEF IInv
<1>6. IdsInOrder'
  BY <1>1, CommitExtends DEF IdsInOrder
<1>7. OneTransaction'
  BY <1>1, <1>2 DEF OneTransaction
<1>8. DraftIsOneStep'
  BY <1>2 DEF DraftIsOneStep, Drafted, Transacting
<1>9. MemoryMatchesPlace'
  <2> SUFFICES ASSUME NEW u \in Threads PROVE HasMemory(u)'
    BY DEF MemoryMatchesPlace
  <2>1. CASE u = t
    BY <1>1, <2>1 DEF HasMemory, InAppend
  <2>2. CASE u # t
    <3>1. pc'[u] = pc[u] /\ HasMemory(u)
      BY <1>1, <2>2 DEF Moves, IInv, MemoryMatchesPlace
    <3>2. ASSUME pc[u] = "acpUpdate"
          PROVE  IsPrefix(fresh[u], draft.rows[goal[u]])
      <4>1. goal[u] \in Ids /\ fresh[u] \in Seq(Messages)
        BY <3>2 DEF IInv, ThreadsHaveTasks, HasTask, Restoring, TypeOK
      <4> QED
        BY <3>1, <3>2, <4>1, CommitExtends DEF HasMemory
    <3> QED
      BY <1>1, <3>1, <3>2 DEF HasMemory, InAppend
  <2> QED
    BY <2>1, <2>2
<1>10. MemoryIsPrefix'
  <2> SUFFICES ASSUME NEW c \in Connections, NEW s \in Ids
               PROVE  IsPrefix(Settled(c, s)', draft.rows[s])
    BY <1>1 DEF MemoryIsPrefix
  <2>1. \A u \in Threads : u # t => (InAppend(u)' <=> InAppend(u))
    BY <1>1 DEF InAppend, Moves
  <2>2. ~InAppend(t)'
    BY <1>1 DEF InAppend
  \* The message of the commit: the memory is what becomes durable.
  <2>3. CASE pc[t] = "commit" /\ c = ConnectionOf[t] /\ s = held[t]
    <3>1. \A u \in Threads : u # t /\ ConnectionOf[u] = c => held[u] # s
      BY <2>3 DEF IInv, OnePromptInProcess, Ids
    <3>2. Settled(c, s)' = mem[c][s]
      BY <1>1, <2>2, <3>1 DEF Settled
    <3>3. draft.rows[s] = mem[c][s]
      BY <2>3 DEF IInv, DraftIsOneStep, Drafted
    <3>4. mem[c][s] \in Seq(Messages) /\ "seed" \in Messages
      BY DEF IInv, TypeOK, Messages
    <3> QED
      BY <3>2, <3>3, <3>4, PrefixFacts
  <2>4. CASE ~(pc[t] = "commit" /\ c = ConnectionOf[t] /\ s = held[t])
    <3>1. \A u \in Threads :
             ConnectionOf[u] = c /\ held'[u] = s /\ InAppend(u)'
             <=> ConnectionOf[u] = c /\ held[u] = s /\ InAppend(u)
      BY <1>1, <2>1, <2>2, <2>4 DEF InAppend
    <3>2. Settled(c, s)' = Settled(c, s)
      BY <1>1, <3>1 DEF Settled
    <3>3. IsPrefix(Settled(c, s), db.rows[s])
      BY DEF IInv, MemoryIsPrefix
    <3>4. Settled(c, s) \in Seq(Messages)
      <4>1. mem[c][s] \in Seq(Messages)
        BY DEF IInv, TypeOK
      <4>2. Front(mem[c][s]) \in Seq(Messages)
        BY <4>1 DEF Front
      <4> QED
        BY <4>1, <4>2 DEF Settled
    <3> QED
      BY <3>2, <3>3, <3>4, CommitExtends
  <2> QED
    BY <2>3, <2>4
<1> QED
  BY <1>3, <1>4, <1>5, <1>6, <1>7, <1>8, <1>9, <1>10 DEF IInv

-----------------------------------------------------------------------------
\* A process dies with its memory and its transaction.
LEMMA CrashPreserves ==
    ASSUME IInv, NEW c \in Connections, Crash(c)
    PROVE  IInv'
<1> DEFINE Of(t) == ConnectionOf[t] = c
<1>1. /\ \A t \in Threads : Of(t) => /\ pc'[t] = "free" /\ held'[t] = 0
                                     /\ goal'[t] = 0 /\ fresh'[t] = <<>>
      /\ \A t \in Threads : ~Of(t) =>
             /\ pc'[t] = pc[t] /\ held'[t] = held[t]
             /\ goal'[t] = goal[t] /\ fresh'[t] = fresh[t]
  BY DEF Crash
<1>2. UNCHANGED db /\ lock' = lock \ {c}
  BY DEF Crash
<1>3. /\ \A s \in Ids : mem'[c][s] = <<>>
      /\ \A d \in Connections \ {c} : mem'[d] = mem[d]
      /\ mem' \in [Connections -> [Ids -> Seq(Messages)]]
  <2> DEFINE none == [s \in Ids |-> <<>>]
  <2>1. none \in [Ids -> Seq(Messages)] /\ \A s \in Ids : none[s] = <<>>
    OBVIOUS
  <2>2. mem' = [mem EXCEPT ![c] = none]
    BY DEF Crash
  <2>3. mem \in [Connections -> [Ids -> Seq(Messages)]]
    BY DEF IInv, TypeOK
  <2> HIDE DEF none
  <2> QED
    BY <2>1, <2>2, <2>3
<1>4. TypeOK'
  <2>1. /\ pc' \in [Threads -> Places]
        /\ held' \in [Threads -> Ids \cup {0}]
        /\ goal' \in [Threads -> Ids \cup {0}]
        /\ fresh' \in [Threads -> Seq(Messages)]
    <3>1. pc' \in [Threads -> Places]
      BY DEF Crash, IInv, TypeOK, Places
    <3>2. held' \in [Threads -> Ids \cup {0}] /\ goal' \in [Threads -> Ids \cup {0}]
      BY DEF Crash, IInv, TypeOK
    <3>3. fresh' \in [Threads -> Seq(Messages)]
      BY DEF Crash, IInv, TypeOK
    <3> QED
      BY <3>1, <3>2, <3>3
  <2>2. lock' = {} \/ \E d \in Connections : lock' = {d}
    BY <1>2 DEF IInv, TypeOK
  <2>3. draft' \in Database
    BY DEF Crash, IInv, TypeOK
  <2> QED
    BY <1>2, <1>3, <2>1, <2>2, <2>3 DEF IInv, TypeOK
<1>5. ThreadsHaveTasks'
  <2> SUFFICES ASSUME NEW t \in Threads PROVE HasTask(t)'
    BY DEF ThreadsHaveTasks
  <2>1. CASE Of(t)
    BY <1>1, <2>1 DEF HasTask, InAppend, Creating, Restoring
  <2>2. CASE ~Of(t)
    BY <1>1, <1>2, <2>2 DEF IInv, ThreadsHaveTasks, HasTask, InAppend, Creating,
                            Restoring
  <2> QED
    BY <2>1, <2>2
<1>6. OnePromptInProcess'
  BY <1>1 DEF IInv, OnePromptInProcess
<1>7. IdsInOrder'
  BY <1>2 DEF IInv, IdsInOrder
<1>8. \A t \in Threads : Transacting(t)' <=> ~Of(t) /\ Transacting(t)
  BY <1>1 DEF Transacting
<1>9. OneTransaction'
  BY <1>2, <1>8 DEF IInv, OneTransaction
<1>10. DraftIsOneStep'
  <2> SUFFICES ASSUME NEW t \in Threads PROVE Drafted(t)'
    BY DEF DraftIsOneStep
  <2>1. CASE Of(t)
    BY <1>1, <2>1 DEF Drafted
  <2>2. CASE ~Of(t) /\ ~Transacting(t)
    BY <1>1, <2>2 DEF Drafted, Transacting
  <2>3. CASE ~Of(t) /\ Transacting(t)
    <3>1. ConnectionOf[t] \in Connections \ {c} /\ lock = {ConnectionOf[t]}
      BY <2>3, ThreadsAssumption DEF IInv, OneTransaction
    <3>2. draft' = draft /\ mem'[ConnectionOf[t]] = mem[ConnectionOf[t]]
      BY <1>3, <3>1 DEF Crash
    <3>3. /\ pc'[t] = pc[t] /\ held'[t] = held[t] /\ goal'[t] = goal[t]
          /\ db' = db /\ Drafted(t)
      BY <1>1, <1>2, <2>3 DEF IInv, DraftIsOneStep
    <3> QED
      BY <3>2, <3>3 DEF Drafted
  <2> QED
    BY <2>1, <2>2, <2>3
<1>11. MemoryMatchesPlace'
  <2> SUFFICES ASSUME NEW t \in Threads PROVE HasMemory(t)'
    BY DEF MemoryMatchesPlace
  <2>1. CASE Of(t)
    BY <1>1, <2>1 DEF HasMemory, InAppend
  <2>2. CASE ~Of(t)
    <3>1. mem'[ConnectionOf[t]] = mem[ConnectionOf[t]]
      BY <1>3, <2>2, ThreadsAssumption
    <3> QED
      BY <1>1, <1>2, <2>2, <3>1 DEF IInv, MemoryMatchesPlace, HasMemory, InAppend
  <2> QED
    BY <2>1, <2>2
<1>12. MemoryIsPrefix'
  <2> SUFFICES ASSUME NEW d \in Connections, NEW s \in Ids
               PROVE  IsPrefix(Settled(d, s)', db.rows[s])
    BY <1>2 DEF MemoryIsPrefix
  <2>1. CASE d = c
    <3>1. \A t \in Threads : ConnectionOf[t] = d => ~InAppend(t)'
      BY <1>1, <2>1 DEF InAppend
    <3>2. Settled(d, s)' = <<>>
      BY <1>3, <2>1, <3>1 DEF Settled
    <3>3. db.rows[s] \in Seq(Messages) /\ <<>> \in Seq(Messages)
          /\ "seed" \in Messages
      BY DEF IInv, TypeOK, Database, Messages
    <3> QED
      <4> DEFINE r == db.rows[s]
      <4>1. r \in Seq(Messages) /\ "seed" \in Messages
        BY <3>3
      <4> HIDE DEF r
      <4>2. IsPrefix(<<>>, r)
        BY <4>1, PrefixFacts
      <4> QED
        BY <3>2, <4>2 DEF r
  <2>2. CASE d # c
    <3>1. \A t \in Threads : ConnectionOf[t] = d =>
              held'[t] = held[t] /\ (InAppend(t)' <=> InAppend(t))
      BY <1>1, <2>2 DEF InAppend
    <3>2. mem'[d] = mem[d]
      BY <1>3, <2>2
    <3>3. Settled(d, s)' = Settled(d, s)
      BY <3>1, <3>2 DEF Settled
    <3> QED
      BY <3>3 DEF IInv, MemoryIsPrefix
  <2> QED
    BY <2>1, <2>2
<1> QED
  BY <1>4, <1>5, <1>6, <1>7, <1>9, <1>10, <1>11, <1>12 DEF IInv

-----------------------------------------------------------------------------
(***************************************************************************)
(* The invariant and the theorems.                                         *)
(***************************************************************************)
LEMMA InvInit == Init => IInv
<1> SUFFICES ASSUME Init PROVE IInv
  OBVIOUS
<1>1. TypeOK
  BY TypeInit
<1>2. \A t \in Threads : pc[t] = "free" /\ held[t] = 0 /\ goal[t] = 0
  BY DEF Init
<1>3. ThreadsHaveTasks /\ OnePromptInProcess
  BY <1>2 DEF ThreadsHaveTasks, HasTask, OnePromptInProcess, InAppend, Creating,
              Restoring
<1>4. IdsInOrder
  <2>1. db.live = 1 .. 0
    BY DEF Init
  <2>2. 0 \in 0 .. MaxSessions
    BY BoundsAssumption
  <2> QED
    BY <2>1, <2>2 DEF Init, IdsInOrder
<1>5. OneTransaction /\ DraftIsOneStep /\ MemoryMatchesPlace
  BY <1>2 DEF Init, OneTransaction, DraftIsOneStep, Drafted, MemoryMatchesPlace,
              HasMemory, Transacting, InAppend
<1>6. MemoryIsPrefix
  <2> SUFFICES ASSUME NEW c \in Connections, NEW s \in Ids
               PROVE  IsPrefix(Settled(c, s), db.rows[s])
    BY DEF MemoryIsPrefix
  <2>1. Settled(c, s) = <<>> /\ db.rows[s] = <<>>
    BY <1>2 DEF Settled, InAppend, Init
  <2>2. IsPrefix(<<>>, <<>>)
    BY DEF IsPrefix
  <2> QED
    BY <2>1, <2>2
<1> QED
  BY <1>1, <1>3, <1>4, <1>5, <1>6 DEF IInv

LEMMA InvNext == IInv /\ [Next]_vars => IInv'
<1> SUFFICES ASSUME IInv, [Next]_vars PROVE IInv'
  OBVIOUS
<1>1. ASSUME NEW t \in Threads, Begin(t) PROVE IInv'
  BY <1>1, BeginPreserves
<1>2. ASSUME NEW t \in Threads, BeginFails(t) PROVE IInv'
  <2>1. ~Transacting(t)
    BY <1>2 DEF BeginFails, Transacting
  <2> QED
    BY <1>2, <2>1, AbandonPreserves DEF BeginFails
<1>3. ASSUME NEW t \in Threads, StatementFails(t) \/ InsertRefused(t) PROVE IInv'
  <2>1. Transacting(t) /\ Rollback(t)
    BY <1>3 DEF StatementFails, InsertRefused, Transacting
  <2> QED
    BY <2>1, AbandonPreserves DEF Rollback
<1>4. ASSUME NEW t \in Threads, Insert(t) PROVE IInv'
  BY <1>4, InsertPreserves
<1>5. ASSUME NEW t \in Threads, Commit(t) PROVE IInv'
  BY <1>5, CommitPreserves
<1>6. ASSUME NEW t \in Threads, InsertSession(t) PROVE IInv'
  BY <1>6, InsertSessionPreserves
<1>7. ASSUME NEW t \in Threads, LoadCreated(t) \/ LoadSession(t) PROVE IInv'
  BY <1>7, LoadPreserves
<1>8. ASSUME NEW t \in Threads, UpdateModel(t) PROVE IInv'
  BY <1>8, UpdateModelPreserves
<1>9. ASSUME NEW t \in Threads, UpdateFails(t) PROVE IInv'
  <2>1. ~Transacting(t)
    BY <1>9 DEF UpdateFails, Transacting
  <2> QED
    BY <1>9, <2>1, AbandonPreserves DEF UpdateFails
<1>10. ASSUME NEW t \in Threads, AcpLoadSession(t) PROVE IInv'
  BY <1>10, AcpLoadSessionPreserves
<1>11. ASSUME NEW t \in Threads, EndPrompt(t) PROVE IInv'
  BY <1>11, EndPromptPreserves
<1>12. ASSUME NEW t \in Threads, Push(t) PROVE IInv'
  BY <1>12, PushPreserves
<1>13. ASSUME NEW t \in Threads, CreateSession(t) PROVE IInv'
  BY <1>13, CreateSessionPreserves
<1>14. ASSUME NEW t \in Threads, NEW s \in Ids, StartPrompt(t, s) PROVE IInv'
  BY <1>14, StartPromptPreserves
<1>15. ASSUME NEW t \in Threads, NEW s \in Ids, RestoreSession(t, s) PROVE IInv'
  BY <1>15, RestoreSessionPreserves
<1>16. ASSUME NEW c \in Connections, Crash(c) PROVE IInv'
  BY <1>16, CrashPreserves
<1>17. CASE UNCHANGED vars
  <2>1. TypeOK'
    BY <1>17 DEF vars, IInv, TypeOK
  <2>2. ThreadsHaveTasks' /\ OnePromptInProcess' /\ IdsInOrder' /\ OneTransaction'
    BY <1>17 DEF vars, IInv, ThreadsHaveTasks, HasTask, OnePromptInProcess,
                 IdsInOrder, OneTransaction, InAppend, Transacting, Creating,
                 Restoring
  <2>3. DraftIsOneStep'
    BY <1>17 DEF vars, IInv, DraftIsOneStep, Drafted
  <2>4. MemoryMatchesPlace'
    BY <1>17 DEF vars, IInv, MemoryMatchesPlace, HasMemory, InAppend
  <2>5. MemoryIsPrefix'
    BY <1>17 DEF vars, IInv, MemoryIsPrefix, Settled, InAppend
  <2> QED
    BY <2>1, <2>2, <2>3, <2>4, <2>5 DEF IInv
<1> QED
  BY <1>1, <1>2, <1>3, <1>4, <1>5, <1>6, <1>7, <1>8, <1>9, <1>10, <1>11, <1>12,
     <1>13, <1>14, <1>15, <1>16, <1>17 DEF Next, Continue

LEMMA Invariance == Spec => []IInv
  BY InvInit, InvNext, PTL DEF Spec

\* The variables have their types and no session in the database is longer than
\* the limit on its size, whatever fails or dies.
THEOREM TypeCorrect == Spec => []TypeOK
<1>1. IInv => TypeOK
  BY DEF IInv
<1> QED
  BY <1>1, Invariance, PTL

\* However many processes have a session open, and whatever they restore, fail
\* at or die of, the memory of each is a prefix of the one durable conversation.
THEOREM NoForks == Spec => []MemoryIsPrefix
<1>1. IInv => MemoryIsPrefix
  BY DEF IInv
<1> QED
  BY <1>1, Invariance, PTL

\* A message becomes durable only behind all those its writer had in memory.
THEOREM NothingIsLostInCommits == Spec => CommitsWholeMemory
<1> DEFINE Whole == \A s \in Ids : db'.rows[s] # db.rows[s] /\ db.rows[s] # <<>>
                        => \E c \in Connections : db'.rows[s] = mem[c][s]
<1>1. IInv /\ [Next]_vars => [Whole]_vars
  <2> SUFFICES ASSUME IInv, [Next]_vars, db' # db PROVE Whole
    BY DEF vars
  <2>1. PICK t \in Threads : Commit(t)
    BY DEF vars, Next, Continue, Begin, BeginFails, StatementFails, Rollback,
           Insert, InsertRefused, InsertSession, LoadCreated, UpdateModel,
           UpdateFails, LoadSession, AcpLoadSession, EndPrompt, Push,
           CreateSession, StartPrompt, RestoreSession, Crash
  <2>2. CASE pc[t] = "commit"
    <3>1. /\ \A s \in Ids \ {held[t]} : draft.rows[s] = db.rows[s]
          /\ draft.rows[held[t]] = mem[ConnectionOf[t]][held[t]]
          /\ ConnectionOf[t] \in Connections /\ db' = draft
      BY <2>1, <2>2, ThreadsAssumption DEF Commit, IInv, DraftIsOneStep, Drafted
    <3> QED
      BY <3>1
  <2>3. CASE pc[t] = "newCommit"
    <3>1. /\ \A s \in Ids \ {goal[t]} : draft.rows[s] = db.rows[s]
          /\ db' = draft /\ goal[t] \notin db.live
      BY <2>1, <2>3 DEF Commit, IInv, DraftIsOneStep, Drafted
    <3> QED
      BY <3>1 DEF IInv, IdsInOrder
  <2> QED
    BY <2>1, <2>2, <2>3 DEF Commit
<1> QED
  BY <1>1, Invariance, PTL DEF Spec, CommitsWholeMemory
================================================================================
