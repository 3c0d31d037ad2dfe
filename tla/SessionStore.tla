----------------------------- MODULE SessionStore -----------------------------
(***************************************************************************)
(* The session database and those who share it: SqliteSessionStore         *)
(* (sqlite_session_store.cpp), restoring a session (session_manager.cpp,   *)
(* acp_session_registry.cpp) and appending to it (agent_session.cpp,       *)
(* history.hpp).                                                           *)
(*                                                                         *)
(* Several processes open the same file, each with one connection. A TUI   *)
(* or console process uses it from one thread at a time; in agent-acp the  *)
(* server thread and the prompt's worker use it at once. The mutex in      *)
(* SQLite serialises single statements of a connection, and a transaction  *)
(* belongs to the connection, not to the thread that began it: a statement *)
(* is the grain of the actions.                                            *)
(*                                                                         *)
(* SQLite is external: BEGIN IMMEDIATE takes the one write lock, COMMIT    *)
(* publishes, ROLLBACK and the death of the process forget. archive_session*)
(* and reset_session have no caller in the programs and are left out, and  *)
(* with them the case that sqlite3_changes is not 1.                       *)
(***************************************************************************)
EXTENDS Integers, Sequences, SequencesExt

CONSTANTS
    Connections,     \* one per process
    Threads,
    ConnectionOf,    \* the connection a thread uses
    Prompting,       \* threads that run prompts
    Managing,        \* threads that create and restore sessions: one in a
                     \* process, the UI's, the console's or the ACP server's
    Servers,         \* those that do it by acp_session_registry.cpp
    MaxSessions,     \* bound: sessions created
    MaxRows          \* limits.max_session_bytes, counted in messages

ASSUME ThreadsAssumption ==
    /\ ConnectionOf \in [Threads -> Connections]
    /\ Prompting \subseteq Threads /\ Managing \subseteq Threads
    /\ Servers \subseteq Managing
    /\ \A t, u \in Managing : ConnectionOf[t] = ConnectionOf[u] => t = u
ASSUME BoundsAssumption ==
    /\ MaxSessions \in Nat /\ MaxRows \in Nat \ {0}

Ids == 1 .. MaxSessions

VARIABLES
    db,        \* what is committed
    draft,     \* the version of the open transaction
    lock,      \* {} or the connection with the open transaction
    mem,       \* per connection the history_ of its sessions, <<>> if none
    pc,        \* per thread
    held,      \* the session of the prompt it runs, 0 if none
    goal,      \* the session it creates or restores, 0 if none
    fresh      \* the rows it has read for it

vars == <<db, draft, lock, mem, pc, held, goal, fresh>>

Init ==
    /\ db = [live |-> {}, rows |-> [s \in Ids |-> <<>>]]
    /\ draft = db /\ lock = {}
    /\ mem = [c \in Connections |-> [s \in Ids |-> <<>>]]
    /\ pc = [t \in Threads |-> "free"]
    /\ held = [t \in Threads |-> 0] /\ goal = [t \in Threads |-> 0]
    /\ fresh = [t \in Threads |-> <<>>]

-----------------------------------------------------------------------------
(***************************************************************************)
(* Statements and transactions.                                            *)
(***************************************************************************)
InTransaction(t) == lock = {ConnectionOf[t]}

\* What a SELECT of thread t sees: also what its connection has not committed.
View(t) == IF InTransaction(t) THEN draft ELSE db

Goto(t, l) == pc' = [pc EXCEPT ![t] = l]

InAppend(t) == pc[t] \in {"begin", "insert", "commit"}

\* Mutant: a failed append leaves its message in memory.
AbandonKeepsMessage(t) ==
    /\ Goto(t, "free")
    /\ held' = [held EXCEPT ![t] = 0]
    /\ goal' = [goal EXCEPT ![t] = 0]
    /\ fresh' = [fresh EXCEPT ![t] = <<>>]
    /\ UNCHANGED mem

\* The exception leaves the operation: an append is taken back in memory and
\* ends the prompt, a session being created or restored is dropped.
Abandon(t) ==
    /\ Goto(t, "free")
    /\ held' = [held EXCEPT ![t] = 0]
    /\ goal' = [goal EXCEPT ![t] = 0]
    /\ fresh' = [fresh EXCEPT ![t] = <<>>]
    /\ mem' = IF InAppend(t)
              THEN [mem EXCEPT ![ConnectionOf[t]][held[t]] = Front(@)]
              ELSE mem

\* Mutant: the guard object has no destructor.
RollbackForgotten(t) ==
    /\ Abandon(t)
    /\ UNCHANGED <<db, draft, lock>>

\* ~Transaction before COMMIT.
Rollback(t) ==
    /\ lock' = {} /\ draft' = db
    /\ Abandon(t)
    /\ UNCHANGED db

\* BEGIN IMMEDIATE. With no transaction to roll back its failure does nothing.
Begin(t) ==
    /\ pc[t] \in {"begin", "newBegin"}
    /\ lock = {}
    /\ lock' = {ConnectionOf[t]} /\ draft' = db
    /\ Goto(t, IF pc[t] = "begin" THEN "insert" ELSE "newInsert")
    /\ UNCHANGED <<db, mem, held, goal, fresh>>

\* A transaction within a transaction; another process that keeps the lock
\* for longer than the busy timeout; a message over the size limit; an I/O
\* error.
BeginFails(t) ==
    /\ pc[t] \in {"begin", "newBegin"}
    /\ Abandon(t)
    /\ UNCHANGED <<db, draft, lock>>

\* A statement or the COMMIT itself fails.
StatementFails(t) ==
    /\ pc[t] \in {"insert", "commit", "newInsert", "newCommit"}
    /\ Rollback(t)

-----------------------------------------------------------------------------
(***************************************************************************)
(* Prompts: AgentSession::submit, reduced to its appends.                  *)
(***************************************************************************)
\* One prompt at a time per process (AcpPromptController, TuiSession), started
\* by a managing thread that is between two operations.
StartPrompt(t, s) ==
    /\ pc[t] = "free" /\ t \in Prompting
    /\ \E u \in Managing : ConnectionOf[u] = ConnectionOf[t] /\ pc[u] = "free"
    /\ mem[ConnectionOf[t]][s] # <<>>
    /\ \A u \in Threads : ConnectionOf[u] = ConnectionOf[t] => held[u] = 0
    /\ held' = [held EXCEPT ![t] = s]
    /\ Goto(t, "loop")
    /\ UNCHANGED <<db, draft, lock, mem, goal, fresh>>

EndPrompt(t) ==
    /\ pc[t] = "loop"
    /\ held' = [held EXCEPT ![t] = 0]
    /\ Goto(t, "free")
    /\ UNCHANGED <<db, draft, lock, mem, goal, fresh>>

\* append_history: first the memory, then append_message. A message is known
\* by the process that wrote it.
Push(t) ==
    /\ pc[t] = "loop"
    /\ mem' = [mem EXCEPT ![ConnectionOf[t]][held[t]] =
                              Append(@, ConnectionOf[t])]
    /\ Goto(t, "begin")
    /\ UNCHANGED <<db, draft, lock, held, goal, fresh>>

\* Mutant: the store numbers the message itself.
InsertAtEnd(t) ==
    /\ pc[t] = "insert"
    /\ Len(draft.rows[held[t]]) < MaxRows
    /\ draft' = [draft EXCEPT !.rows[held[t]] = Append(@, ConnectionOf[t])]
    /\ Goto(t, "commit")
    /\ UNCHANGED <<db, lock, mem, held, goal, fresh>>

\* Mutant: the limit on the session's size is not checked.
InsertUnlimited(t) ==
    /\ pc[t] = "insert"
    /\ Len(mem[ConnectionOf[t]][held[t]]) - 1 = Len(draft.rows[held[t]])
    /\ Len(draft.rows[held[t]]) <= MaxRows
    /\ draft' = [draft EXCEPT !.rows[held[t]] = Append(@, ConnectionOf[t])]
    /\ Goto(t, "commit")
    /\ UNCHANGED <<db, lock, mem, held, goal, fresh>>

\* The sequence has to be MAX(sequence) + 1 and the size within the limit.
Insert(t) ==
    /\ pc[t] = "insert"
    /\ Len(mem[ConnectionOf[t]][held[t]]) - 1 = Len(draft.rows[held[t]])
    /\ Len(draft.rows[held[t]]) < MaxRows
    /\ draft' = [draft EXCEPT !.rows[held[t]] = Append(@, ConnectionOf[t])]
    /\ Goto(t, "commit")
    /\ UNCHANGED <<db, lock, mem, held, goal, fresh>>

InsertRefused(t) ==
    /\ pc[t] = "insert"
    /\ \/ Len(mem[ConnectionOf[t]][held[t]]) - 1 # Len(draft.rows[held[t]])
       \/ Len(draft.rows[held[t]]) >= MaxRows
    /\ Rollback(t)

\* COMMIT, after the UPDATE of the session's title and time.
Commit(t) ==
    /\ pc[t] \in {"commit", "newCommit"}
    /\ db' = draft /\ lock' = {}
    /\ Goto(t, IF pc[t] = "commit" THEN "loop" ELSE "newLoad")
    /\ UNCHANGED <<draft, mem, held, goal, fresh>>

-----------------------------------------------------------------------------
(***************************************************************************)
(* new_session and session/new: create_session, then its load_session.     *)
(***************************************************************************)
CreateSession(t) ==
    /\ pc[t] = "free" /\ t \in Managing
    /\ Goto(t, "newBegin")
    /\ UNCHANGED <<db, draft, lock, mem, held, goal, fresh>>

\* The id is random and nobody else's; here it is the next one.
InsertSession(t) ==
    /\ pc[t] = "newInsert"
    /\ LET s == Cardinality(draft.live) + 1
       IN /\ s \in Ids
          /\ draft' = [draft EXCEPT !.live = @ \cup {s}, !.rows[s] = <<"seed">>]
          /\ goal' = [goal EXCEPT ![t] = s]
    /\ Goto(t, "newCommit")
    /\ UNCHANGED <<db, lock, mem, held, fresh>>

\* The session is active with these rows: the old object, if any, is replaced.
Install(t, rows) ==
    /\ mem' = [mem EXCEPT ![ConnectionOf[t]][goal[t]] = rows]
    /\ goal' = [goal EXCEPT ![t] = 0]
    /\ fresh' = [fresh EXCEPT ![t] = <<>>]
    /\ Goto(t, "free")

LoadCreated(t) ==
    /\ pc[t] = "newLoad"
    /\ Install(t, View(t).rows[goal[t]])
    /\ UNCHANGED <<db, draft, lock, held>>

(***************************************************************************)
(* continue_latest and resume update the model's name, then load; session/ *)
(* load and resume of ACP load, then update. Not while a prompt of the     *)
(* process runs in the session.                                            *)
(***************************************************************************)
RestoreSession(t, s) ==
    /\ pc[t] = "free" /\ t \in Managing
    /\ s \in View(t).live
    /\ \A u \in Threads : ConnectionOf[u] = ConnectionOf[t] => held[u] # s
    /\ goal' = [goal EXCEPT ![t] = s]
    /\ Goto(t, IF t \in Servers THEN "acpLoad" ELSE "update")
    /\ UNCHANGED <<db, draft, lock, mem, held, fresh>>

\* update_model: one UPDATE, its own transaction unless one is open on the
\* connection, which it then joins. The model's name is not modelled.
UpdateModel(t) ==
    /\ pc[t] \in {"update", "acpUpdate"}
    /\ lock = {} \/ InTransaction(t)
    /\ IF pc[t] = "update"
       THEN Goto(t, "load") /\ UNCHANGED <<mem, goal, fresh>>
       ELSE Install(t, fresh[t])
    /\ UNCHANGED <<db, draft, lock, held>>

UpdateFails(t) ==
    /\ pc[t] \in {"update", "acpUpdate"}
    /\ Abandon(t)
    /\ UNCHANGED <<db, draft, lock>>

LoadSession(t) ==
    /\ pc[t] = "load"
    /\ Install(t, View(t).rows[goal[t]])
    /\ UNCHANGED <<db, draft, lock, held>>

AcpLoadSession(t) ==
    /\ pc[t] = "acpLoad"
    /\ fresh' = [fresh EXCEPT ![t] = View(t).rows[goal[t]]]
    /\ Goto(t, "acpUpdate")
    /\ UNCHANGED <<db, draft, lock, mem, held, goal>>

-----------------------------------------------------------------------------
\* The process of a connection dies; SQLite forgets its transaction.
Crash(c) ==
    /\ lock' = lock \ {c} /\ draft' = IF c \in lock THEN db ELSE draft
    /\ mem' = [mem EXCEPT ![c] = [s \in Ids |-> <<>>]]
    /\ LET Reset(f, v) == [t \in Threads |-> IF ConnectionOf[t] = c THEN v
                                                                    ELSE f[t]]
       IN /\ pc' = Reset(pc, "free") /\ held' = Reset(held, 0)
          /\ goal' = Reset(goal, 0) /\ fresh' = Reset(fresh, <<>>)
    /\ UNCHANGED db

\* What a thread inside an operation does next.
Continue(t) ==
    \/ Begin(t) \/ BeginFails(t) \/ StatementFails(t)
    \/ Insert(t) \/ InsertRefused(t) \/ Commit(t)
    \/ InsertSession(t) \/ LoadCreated(t)
    \/ UpdateModel(t) \/ UpdateFails(t) \/ LoadSession(t) \/ AcpLoadSession(t)

Next ==
    \/ \E t \in Threads :
          \/ Continue(t) \/ EndPrompt(t) \/ Push(t) \/ CreateSession(t)
          \/ \E s \in Ids : StartPrompt(t, s) \/ RestoreSession(t, s)
    \/ \E c \in Connections : Crash(c)

\* A thread that began an operation is scheduled until it ends.
Fairness == \A t \in Threads : WF_vars(Continue(t))

Spec == Init /\ [][Next]_vars /\ Fairness

-----------------------------------------------------------------------------
Places   == {"free", "loop", "begin", "insert", "commit", "newBegin",
             "newInsert", "newCommit", "newLoad", "update", "load",
             "acpLoad", "acpUpdate"}
Messages == Connections \cup {"seed"}
Database == [live : SUBSET Ids, rows : [Ids -> Seq(Messages)]]

\* The types of the variables; no session grows beyond its limit.
TypeOK ==
    /\ db \in Database /\ draft \in Database
    /\ \A s \in Ids : Len(db.rows[s]) <= MaxRows
    /\ lock = {} \/ \E c \in Connections : lock = {c}
    /\ mem \in [Connections -> [Ids -> Seq(Messages)]]
    /\ pc \in [Threads -> Places]
    /\ held \in [Threads -> Ids \cup {0}] /\ goal \in [Threads -> Ids \cup {0}]
    /\ fresh \in [Threads -> Seq(Messages)]

\* The part of a session's memory that is not waiting to be stored.
Settled(c, s) ==
    LET m == mem[c][s]
    IN IF \E t \in Threads : ConnectionOf[t] = c /\ held[t] = s /\ InAppend(t)
       THEN Front(m) ELSE m

(***************************************************************************)
(* However many processes have a session open, what each of them shows the *)
(* model is a prefix of the one durable conversation: a process that fell  *)
(* behind has its appends refused and taken back, it never forks it.       *)
(***************************************************************************)
MemoryIsPrefix ==
    \A c \in Connections, s \in Ids : IsPrefix(Settled(c, s), db.rows[s])

(***************************************************************************)
(* A message becomes durable only as the last one of a memory that holds   *)
(* all before it: nobody answers a conversation without having seen it.    *)
(***************************************************************************)
CommitsWholeMemory ==
    [][\A s \in Ids : db'.rows[s] # db.rows[s] /\ db.rows[s] # <<>> =>
           \E c \in Connections : db'.rows[s] = mem[c][s]]_vars

(***************************************************************************)
(* An operation that is about to begin its transaction waits at most for   *)
(* another process, by the busy timeout: it never finds one of its own     *)
(* connection open, which would make it fail at once                       *)
(* (docs/session-persistence.md:60).                                       *)
(***************************************************************************)
BeginsAlone ==
    \A t \in Threads : pc[t] \in {"begin", "newBegin"} => ~InTransaction(t)

\* The write lock is released, whatever fails: the other processes go on.
LockIsReleased == lock # {} ~> lock = {}
=============================================================================
