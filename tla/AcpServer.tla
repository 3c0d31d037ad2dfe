------------------------------ MODULE AcpServer ------------------------------
(***************************************************************************)
(* The sessions of an ACP client: the handshake and the session requests   *)
(* of AcpServer (acp_server.cpp), the registry of active sessions          *)
(* (acp_session_registry.cpp), and the order in which the store lists them *)
(* by pages (list_sessions_page in sqlite_session_store.cpp).              *)
(*                                                                         *)
(* Requests are handled one after the other, each here in one step: what   *)
(* other processes and the worker of a prompt do meanwhile to the rows is  *)
(* only to set their times, and may as well come before or after. A        *)
(* refused request changes nothing and is left out, except where it fails  *)
(* half way. Prompts are AcpPrompt's; here they only keep a session busy   *)
(* and its time moving.                                                    *)
(***************************************************************************)
EXTENDS SequencesExt, Integers

CONSTANTS
    Ids,           \* the session ids, as numbers in the order SQLite has them
    WorkspaceOf,   \* the workspace each is created in
    PageSize,      \* kSessionPageSize
    ActiveLimit,   \* context_.active_session_limit
    MaxTime        \* bound: the clock's last millisecond

ASSUME ServerAssumption ==
    /\ Ids \subseteq Nat /\ DOMAIN WorkspaceOf = Ids
    /\ PageSize \in Nat \ {0} /\ ActiveLimit \in Nat \ {0}
    /\ MaxTime \in Nat \ {0}

VARIABLES
    initialized,   \* initialized_
    now,           \* now_ms
    updated,       \* per session updated_at_ms, 0 if it has no row
    actives,       \* active_, by the ids
    working,       \* the sessions of the running prompt, at most one
    held,          \* history: the sessions the client was told it may prompt
    listing        \* what the client has of session/list so far

serverVars == <<initialized, now, updated, actives, working, held, listing>>

Workspaces == {WorkspaceOf[s] : s \in Ids}

\* filter: the workspaces asked for; got: the ids so far; next: nextCursor of
\* the last page; began: history, the rows when the first page was asked for.
NoListing == [filter |-> {}, got |-> <<>>, next |-> <<>>,
              began |-> [s \in Ids |-> 0]]

ServerInit ==
    /\ initialized = FALSE /\ now = 1
    /\ updated = [s \in Ids |-> 0]
    /\ actives = {} /\ working = {} /\ held = {}
    /\ listing = NoListing

-----------------------------------------------------------------------------
(***************************************************************************)
(* The order of the list. A cursor is the time and the id of the last      *)
(* session of a page, and <<>> where there is none.                        *)
(***************************************************************************)
\* Mutant: only the time is compared.
ComesAfterByTime(s, c) == updated[s] < c[1]

\* updated_at_ms < ? OR (updated_at_ms = ? AND id < ?)
ComesAfter(s, c) == updated[s] < c[1] \/ (updated[s] = c[1] /\ s < c[2])

Cursor(s) == <<updated[s], s>>

\* ORDER BY updated_at_ms DESC, id DESC.
Precedes(r, s) == updated[s] < updated[r] \/ (updated[s] = updated[r] /\ s < r)

InOrder(S) ==
    LET ranks == 1..Cardinality(S)
    IN  CHOOSE rows \in [ranks -> S] :
            \A i, j \in ranks : i < j => Precedes(rows[i], rows[j])

\* The WHERE of the query.
Matching(filter, before) ==
    {s \in Ids : /\ updated[s] # 0 /\ WorkspaceOf[s] \in filter
                 /\ before # <<>> => ComesAfter(s, before)}

\* list_sessions_page: one row more than the limit tells whether there is
\* another page.
ListSessionsPage(filter, before, limit) ==
    LET rows == InOrder(Matching(filter, before))
        more == Len(rows) > limit
        page == IF more THEN SubSeq(rows, 1, limit) ELSE rows
    IN  [sessions |-> page,
         next     |-> IF more THEN Cursor(Last(page)) ELSE <<>>]

-----------------------------------------------------------------------------
(***************************************************************************)
(* The handshake and session/list.                                         *)
(***************************************************************************)
Initialize ==
    /\ ~initialized
    /\ initialized' = TRUE
    /\ UNCHANGED <<now, updated, actives, working, held, listing>>

\* session/list without a cursor: one workspace or all of them.
ListFirst ==
    /\ initialized
    /\ \E filter \in {{w} : w \in Workspaces} \cup {Workspaces} :
          LET page == ListSessionsPage(filter, <<>>, PageSize)
          IN  listing' = [filter |-> filter, got |-> page.sessions,
                          next |-> page.next, began |-> updated]
    /\ UNCHANGED <<initialized, now, updated, actives, working, held>>

\* ... and with the cursor of the last page.
ListNext ==
    /\ listing.next # <<>>
    /\ LET page == ListSessionsPage(listing.filter, listing.next, PageSize)
       IN  listing' = [listing EXCEPT !.got = @ \o page.sessions,
                                      !.next = page.next]
    /\ UNCHANGED <<initialized, now, updated, actives, working, held>>

-----------------------------------------------------------------------------
(***************************************************************************)
(* The registry.                                                           *)
(***************************************************************************)
\* Mutant: the sessions are counted only when a new one is made.
HasRoomToLoad(s) == updated[s] # 0 \/ Cardinality(actives) < ActiveLimit

HasRoom(s) == s \in actives \/ Cardinality(actives) < ActiveLimit

\* update_model and create_session: the row's time.
Stamp(s) == updated' = [updated EXCEPT ![s] = now]

\* session/new.
NewSession(s) ==
    /\ initialized /\ updated[s] = 0 /\ HasRoom(s)
    /\ Stamp(s)
    /\ actives' = actives \cup {s} /\ held' = held \cup {s}
    /\ UNCHANGED <<initialized, now, working, listing>>

\* session/load and session/resume of a session whose prompt does not run.
\* The replay of a load can fail, with the session active already; the row
\* can fail to be restored, with the model updated already.
RestoreSession(s) ==
    /\ initialized /\ updated[s] # 0 /\ s \notin working /\ HasRoom(s)
    /\ Stamp(s)
    /\ \/ actives' = actives \cup {s} /\ held' = held \cup {s}
       \/ actives' = actives \cup {s} /\ UNCHANGED held
       \/ UNCHANGED <<actives, held>>
    /\ UNCHANGED <<initialized, now, working, listing>>

\* session/close: cancel_and_wait first, for the session of the prompt.
CloseActive(s) ==
    /\ initialized
    /\ working' = working \ {s}
    /\ actives' = actives \ {s} /\ held' = held \ {s}
    /\ UNCHANGED <<initialized, now, updated, listing>>

\* session/prompt.
PromptSession(s) ==
    /\ s \in actives /\ working = {}
    /\ working' = {s}
    /\ UNCHANGED <<initialized, now, updated, actives, held, listing>>

-----------------------------------------------------------------------------
(***************************************************************************)
(* What happens to the rows otherwise.                                     *)
(***************************************************************************)
\* The worker appends a message, or is done.
PromptAppends(s) ==
    /\ s \in working
    /\ Stamp(s)
    /\ UNCHANGED <<initialized, now, actives, working, held, listing>>

PromptEnds ==
    /\ working' = {}
    /\ UNCHANGED <<initialized, now, updated, actives, held, listing>>

\* Another process creates or uses a session.
OthersUse(s) ==
    /\ Stamp(s)
    /\ UNCHANGED <<initialized, now, actives, working, held, listing>>

ClockTicks ==
    /\ now < MaxTime
    /\ now' = now + 1
    /\ UNCHANGED <<initialized, updated, actives, working, held, listing>>

ServerNext ==
    \/ Initialize \/ ListFirst \/ ListNext \/ PromptEnds \/ ClockTicks
    \/ \E s \in Ids :
          \/ NewSession(s) \/ RestoreSession(s) \/ CloseActive(s)
          \/ PromptSession(s) \/ PromptAppends(s) \/ OthersUse(s)

ServerSpec == ServerInit /\ [][ServerNext]_serverVars

-----------------------------------------------------------------------------
ServerTypeOK ==
    /\ initialized \in BOOLEAN /\ now \in 1..MaxTime
    /\ updated \in [Ids -> 0..now]
    /\ actives \subseteq Ids /\ working \subseteq Ids /\ held \subseteq Ids
    /\ Cardinality(working) <= 1
    /\ listing \in [filter : SUBSET Workspaces, got : Seq(Ids),
                   next : {<<>>} \cup (1..now) \X Ids, began : [Ids -> 0..now]]

(***************************************************************************)
(* The pages of session/list make a list (docs/acp-integration.md:105),    *)
(* though sessions are used and made between them: no session is in it     *)
(* twice, and one that was not used since the first page is in it or comes *)
(* after the cursor of the last page. For the first part it takes a clock  *)
(* that is not set back.                                                   *)
(***************************************************************************)
PagesMakeAList ==
    /\ IsInjective(listing.got)
    /\ \A s \in Ids :
          /\ listing.began[s] # 0 /\ listing.began[s] = updated[s]
          /\ WorkspaceOf[s] \in listing.filter
          => \/ s \in Range(listing.got)
             \/ listing.next # <<>> /\ ComesAfter(s, listing.next)

(***************************************************************************)
(* A session the client was given is there until the client closes it,     *)
(* whatever failed for it or another one later; it has a row; and however  *)
(* sessions came to be active, by a request that failed afterwards too,    *)
(* they are no more than the limit.                                        *)
(***************************************************************************)
GivenSessionsAreActive ==
    /\ held \subseteq actives
    /\ working \subseteq actives
    /\ \A s \in actives : updated[s] # 0
    /\ Cardinality(actives) <= ActiveLimit
=============================================================================
