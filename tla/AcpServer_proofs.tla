-------------------------- MODULE AcpServer_proofs --------------------------
(***************************************************************************)
(* Proofs about AcpServer: its types, the registry of active sessions, and *)
(* the list of sessions that the pages of session/list make. Ids is any    *)
(* set of numbers, infinite too: only those with a row are counted, and    *)
(* there are finitely many of them at any time. And, with AcpPrompt_proofs,*)
(* about the two together (MCAcpServer).                                   *)
(***************************************************************************)
EXTENDS MCAcpServer, AcpPrompt_proofs, FiniteSetTheorems

USE ServerAssumption

-----------------------------------------------------------------------------
(***************************************************************************)
(* The order of the rows.                                                  *)
(***************************************************************************)
Times == updated \in [Ids -> Nat]

\* Of two sessions one comes first, and the order is transitive.
LEMMA OrderIsTotal ==
    ASSUME Times, NEW r \in Ids, NEW s \in Ids, NEW q \in Ids
    PROVE  /\ ~Precedes(r, r)
           /\ r # s => Precedes(r, s) \/ Precedes(s, r)
           /\ Precedes(q, r) /\ Precedes(r, s) => Precedes(q, s)
BY DEF Times, Precedes

\* A finite set has its members in order, each of them once. A member's place
\* is one more than the number of those before it.
LEMMA OrderedRows ==
    ASSUME Times, NEW S \in SUBSET Ids, IsFiniteSet(S)
    PROVE  LET rows == InOrder(S)
               n    == Cardinality(S)
           IN  /\ n \in Nat /\ rows \in [1..n -> S]
               /\ \A i, j \in 1..n : i < j => Precedes(rows[i], rows[j])
               /\ \A i, j \in 1..n : rows[i] = rows[j] => i = j
               /\ \A s \in S : \E i \in 1..n : rows[i] = s
<1> DEFINE n == Cardinality(S)
           Before(s) == {r \in S : Precedes(r, s)}
           place == [s \in S |-> Cardinality(Before(s)) + 1]
           Sorted(f) == \A i, j \in 1..n : i < j => Precedes(f[i], f[j])
<1>n. n \in Nat
  BY FS_CardinalityType
<1>1. ASSUME NEW s \in S
      PROVE  /\ IsFiniteSet(Before(s)) /\ Cardinality(Before(s)) \in Nat
             /\ Cardinality(Before(s)) <= n - 1
  <2>1. Before(s) \in SUBSET (S \ {s})
    BY OrderIsTotal
  <2>2. IsFiniteSet(S \ {s}) /\ Cardinality(S \ {s}) = n - 1
    BY FS_RemoveElement
  <2>3. IsFiniteSet(Before(s)) /\ Cardinality(Before(s)) <= n - 1
    <3> HIDE DEF Before, n
    <3> QED BY <2>1, <2>2, FS_Subset
  <2> QED BY <2>3, FS_CardinalityType
<1>2. ASSUME NEW r \in S, NEW s \in S, Precedes(r, s)
      PROVE  place[r] < place[s]
  <2>1. Before(r) \cup {r} \in SUBSET Before(s) /\ r \notin Before(r)
    BY <1>2, OrderIsTotal
  <2>2. Cardinality(Before(r) \cup {r}) = Cardinality(Before(r)) + 1
    <3>1. IsFiniteSet(Before(r)) BY <1>1
    <3> HIDE DEF Before
    <3> QED BY <3>1, <2>1, FS_AddElement
  <2>3. Cardinality(Before(r) \cup {r}) <= Cardinality(Before(s))
    <3>1. IsFiniteSet(Before(s)) BY <1>1
    <3> HIDE DEF Before
    <3> QED BY <3>1, <2>1, FS_Subset
  <2> QED BY <2>2, <2>3, <1>1
<1>3. place \in Injection(S, 1..n)
  <2>1. place \in [S -> 1..n]
    BY <1>1, <1>n
  <2>2. ASSUME NEW r \in S, NEW s \in S, place[r] = place[s]  PROVE r = s
    <3>1. place[r] \in 1..n /\ place[s] \in 1..n BY <2>1
    <3> HIDE DEF place
    <3> QED BY <3>1, <2>2, <1>2, <1>n, OrderIsTotal
  <2> HIDE DEF place
  <2> QED BY <2>1, <2>2 DEF Injection, IsInjective
<1>4. \A i \in 1..n : \E s \in S : place[s] = i
  <2>1. IsFiniteSet(1..n) /\ Cardinality(1..n) = n
    BY <1>n, FS_Interval
  <2>2. place \in Surjection(S, 1..n)
    <3> HIDE DEF place
    <3> QED BY <2>1, <1>3, FS_Injection
  <2> HIDE DEF place
  <2> QED BY <2>2 DEF Surjection
<1>5. \E f \in [1..n -> S] : Sorted(f)
  <2> DEFINE f == [i \in 1..n |-> CHOOSE s \in S : place[s] = i]
  <2>1. \A i \in 1..n : f[i] \in S /\ place[f[i]] = i
    <3> HIDE DEF place, n
    <3> QED BY <1>4
  <2>2. f \in [1..n -> S]
    <3> HIDE DEF place, n
    <3> QED BY <2>1
  <2>3. Sorted(f)
    <3> SUFFICES ASSUME NEW i \in 1..n, NEW j \in 1..n, i < j
                 PROVE  Precedes(f[i], f[j])
      OBVIOUS
    <3> HIDE DEF f, place
    <3>1. f[i] # f[j] /\ ~(place[f[j]] < place[f[i]])
      BY <2>1, <1>n
    <3> QED BY <3>1, <2>1, <1>2, OrderIsTotal
  <2> QED BY <2>2, <2>3
<1> DEFINE rows == InOrder(S)
<1>6. rows \in [1..n -> S] /\ Sorted(rows)
  <2>1. rows = CHOOSE f \in [1..n -> S] : Sorted(f)
    BY DEF InOrder
  <2> HIDE DEF rows, Sorted, n
  <2> QED BY <2>1, <1>5
<1>7. ASSUME NEW i \in 1..n, NEW j \in 1..n, rows[i] = rows[j]  PROVE i = j
  <2> HIDE DEF rows
  <2>1. rows[i] \in Ids
    BY <1>6
  <2>2. ~Precedes(rows[i], rows[i])
    BY <2>1, OrderIsTotal
  <2>3. ~(i < j) /\ ~(j < i)
    BY <2>2, <1>6, <1>7
  <2> QED BY <2>3, <1>n
<1>8. \A s \in S : \E i \in 1..n : rows[i] = s
  <2> HIDE DEF rows
  <2>1. rows \in Injection(1..n, S)
    BY <1>6, <1>7 DEF Injection, IsInjective
  <2>2. IsFiniteSet(1..n) /\ Cardinality(1..n) = n
    BY <1>n, FS_Interval
  <2>3. rows \in Surjection(1..n, S)
    BY <2>1, <2>2, FS_Injection
  <2> QED BY <2>3 DEF Surjection
<1> HIDE DEF rows
<1>9. /\ n \in Nat /\ rows \in [1..n -> S]
      /\ \A i, j \in 1..n : i < j => Precedes(rows[i], rows[j])
      /\ \A i, j \in 1..n : rows[i] = rows[j] => i = j
      /\ \A s \in S : \E i \in 1..n : rows[i] = s
  BY <1>n, <1>6, <1>7, <1>8
<1> QED BY <1>9 DEF rows

-----------------------------------------------------------------------------
(***************************************************************************)
(* A page: what list_sessions_page answers for the rows there are.         *)
(***************************************************************************)
Used == {s \in Ids : updated[s] # 0}

Cursors == Nat \X Ids

\* What the list needs of a page: its sessions match, each is there once; the
\* cursor is behind all of them, and before all others that match.
PageIsRight(page, filter, before) ==
    /\ page.sessions \in Seq(Ids) /\ IsInjective(page.sessions)
    /\ Range(page.sessions) \subseteq Matching(filter, before)
    /\ page.next # <<>> =>
          /\ \E s \in Range(page.sessions) : page.next = Cursor(s)
          /\ \A s \in Range(page.sessions) : ~ComesAfter(s, page.next)
    /\ \A s \in Matching(filter, before) :
          \/ s \in Range(page.sessions)
          \/ page.next # <<>> /\ ComesAfter(s, page.next)

LEMMA CursorIsSomething ==
    \A c \in Cursors : c # <<>>
BY DEF Cursors

\* To come after the cursor of a session is to come after it in the order.
LEMMA CursorOfSession ==
    ASSUME Times, NEW r \in Ids, NEW s \in Ids
    PROVE  /\ Cursor(r) \in Cursors
           /\ ComesAfter(s, Cursor(r)) <=> Precedes(r, s)
BY DEF Times, Cursors, Cursor, ComesAfter, Precedes

LEMMA Pages ==
    ASSUME Times, IsFiniteSet(Used), NEW filter, NEW before
    PROVE  PageIsRight(ListSessionsPage(filter, before, PageSize), filter, before)
<1> DEFINE M == Matching(filter, before)
           n == Cardinality(M)
           rows == InOrder(M)
           page == ListSessionsPage(filter, before, PageSize)
<1>1. M \in SUBSET Ids /\ IsFiniteSet(M)
  <2>1. M \subseteq Used
    BY Zenon DEF Matching, Used
  <2>2. M \subseteq Ids
    BY Zenon DEF Matching
  <2> HIDE DEF M
  <2> QED BY <2>1, <2>2, FS_Subset
<1>2. /\ n \in Nat /\ rows \in [1..n -> M]
      /\ \A i, j \in 1..n : i < j => Precedes(rows[i], rows[j])
      /\ \A i, j \in 1..n : rows[i] = rows[j] => i = j
      /\ \A s \in M : \E i \in 1..n : rows[i] = s
  <2> HIDE DEF M
  <2> QED BY <1>1, OrderedRows
<1>3. Len(rows) = n
  <2> HIDE DEF rows, n
  <2> QED BY <1>2
<1>4. page = [sessions |-> IF n > PageSize THEN SubSeq(rows, 1, PageSize) ELSE rows,
              next |-> IF n > PageSize
                       THEN Cursor(Last(SubSeq(rows, 1, PageSize))) ELSE <<>>]
  <2>1. page = LET more == Len(rows) > PageSize
                   batch == IF more THEN SubSeq(rows, 1, PageSize) ELSE rows
               IN  [sessions |-> batch,
                    next |-> IF more THEN Cursor(Last(batch)) ELSE <<>>]
    BY DEF ListSessionsPage
  <2> HIDE DEF page, rows, n
  <2> QED BY <2>1, <1>3
<1> HIDE DEF page, rows, n, M
<1>5. CASE n > PageSize
  <2> DEFINE batch == [i \in 1..PageSize |-> rows[i]]
             last == rows[PageSize]
  <2>1. SubSeq(rows, 1, PageSize) = batch
    BY <1>2, <1>5
  <2>2. batch \in Seq(Ids) /\ Len(batch) = PageSize /\ Last(batch) = last
    <3>1. 1..PageSize \subseteq 1..n /\ PageSize \in 1..PageSize
      BY <1>2, <1>5
    <3>2. batch \in [1..PageSize -> Ids] /\ batch[PageSize] = last
      BY <3>1, <1>1, <1>2
    <3> HIDE DEF batch, last
    <3> QED BY <3>2 DEF Last
  <2>3. page.sessions = batch /\ page.next = Cursor(last)
    <3> HIDE DEF batch, last
    <3> QED BY <1>4, <1>5, <2>1, <2>2
  <2>4. last \in Ids /\ last \in Range(batch)
    <3>1. PageSize \in 1..PageSize /\ PageSize \in 1..n
      BY <1>2, <1>5
    <3>2. last \in Ids
      BY <3>1, <1>1, <1>2
    <3> QED BY <3>1, <3>2, Zenon DEF Range
  <2>5. IsInjective(batch) /\ Range(batch) \subseteq M
    BY <1>2, <1>5 DEF IsInjective, Range
  <2>6. ASSUME NEW s \in Range(batch)  PROVE ~ComesAfter(s, Cursor(last))
    <3>1. PICK i \in 1..PageSize : s = rows[i]
      BY DEF Range
    <3>2. s \in Ids /\ (i < PageSize \/ s = last)
      BY <3>1, <1>1, <1>2, <1>5
    <3>3. s = last \/ Precedes(s, last)
      BY <3>1, <3>2, <1>2, <1>5
    <3>4. ~Precedes(last, s)
      <4> HIDE DEF last
      <4>1. ~Precedes(s, s) BY <3>2, OrderIsTotal
      <4>2. Precedes(s, last) /\ Precedes(last, s) => Precedes(s, s)
        BY <3>2, <2>4, OrderIsTotal
      <4> QED BY <3>3, <4>1, <4>2
    <3> HIDE DEF last
    <3> QED BY <3>2, <3>4, <2>4, CursorOfSession
  <2>7. ASSUME NEW s \in M, s \notin Range(batch)
        PROVE  ComesAfter(s, Cursor(last))
    <3>1. PICK i \in 1..n : rows[i] = s
      BY <1>2
    <3>2. ~(i \in 1..PageSize)
      BY <2>7, <3>1 DEF Range
    <3>3. Precedes(last, s)
      BY <3>1, <3>2, <1>2, <1>5
    <3>4. s \in Ids
      BY <1>1
    <3> HIDE DEF last
    <3> QED BY <3>3, <3>4, <2>4, CursorOfSession
  <2>8. Cursor(last) # <<>>
    <3> HIDE DEF last
    <3> QED BY <2>4, CursorOfSession, CursorIsSomething
  <2> HIDE DEF batch, last
  <2> QED BY <2>2, <2>3, <2>4, <2>5, <2>6, <2>7, <2>8 DEF PageIsRight, M, page
<1>6. CASE ~(n > PageSize)
  <2>1. page.sessions = rows /\ page.next = <<>>
    BY <1>4, <1>6
  <2>2. rows \in Seq(Ids) /\ IsInjective(rows) /\ Range(rows) = M
    <3>1. rows \in [1..n -> Ids]
      BY <1>1, <1>2
    <3>2. IsInjective(rows)
      BY <1>2 DEF IsInjective
    <3>3. Range(rows) = M
      BY <1>2 DEF Range
    <3> QED BY <3>1, <3>2, <3>3, <1>2
  <2> QED BY <2>1, <2>2 DEF PageIsRight, M, page
<1> QED BY <1>5, <1>6

-----------------------------------------------------------------------------
(***************************************************************************)
(* The inductive invariant. It takes more than the two properties: that    *)
(* sessions are counted while there are finitely many; that one prompt     *)
(* runs; that times only grow, so that a session which has its old time    *)
(* was not used; and that what the list has is not behind the cursor, so   *)
(* that it does not come again.                                            *)
(***************************************************************************)
Counted == IsFiniteSet(Used)

OneWorks == \A r, s \in working : r = s

SinceBegun == \A s \in Ids : listing.began[s] <= updated[s]

CursorIsLast ==
    listing.next # <<>> =>
        \A s \in Range(listing.got) : ~ComesAfter(s, listing.next)

ServerInv ==
    /\ ServerTypeOK /\ Counted /\ OneWorks
    /\ GivenSessionsAreActive
    /\ SinceBegun /\ CursorIsLast /\ PagesMakeAList

\* What the invariant says of the list.
ListInv == SinceBegun /\ CursorIsLast /\ PagesMakeAList

\* Active sessions are counted, for they have rows.
LEMMA ActivesAreCounted ==
    ASSUME ServerTypeOK, Counted, GivenSessionsAreActive
    PROVE  IsFiniteSet(actives) /\ Cardinality(actives) \in Nat
<1>1. actives \in SUBSET Used
  BY DEF ServerTypeOK, GivenSessionsAreActive, Used
<1> QED BY <1>1, FS_Subset, FS_CardinalityType DEF Counted

LEMMA TimesAreNumbers ==
    ASSUME ServerTypeOK
    PROVE  /\ Times /\ now \in Nat \ {0}
           /\ listing.began \in [Ids -> Nat]
           /\ listing.next # <<>> => listing.next \in Cursors
BY DEF ServerTypeOK, Times, Cursors

-----------------------------------------------------------------------------
(***************************************************************************)
(* Setting a session's time.                                               *)
(***************************************************************************)
\* Whoever uses a session, the list remains one: the session is now before
\* every cursor, and it has another time than it had unless it is the same.
LEMMA StampKeepsList ==
    ASSUME ServerTypeOK, ListInv, NEW s \in Ids, Stamp(s), UNCHANGED listing
    PROVE  ListInv'
<1>1. /\ updated \in [Ids -> Nat] /\ now \in Nat
      /\ \A q \in Ids : updated[q] <= now
      /\ listing.began \in [Ids -> Nat]
  BY DEF ServerTypeOK
<1>2. \A q \in Ids : /\ updated'[q] \in Nat /\ updated[q] <= updated'[q]
                     /\ updated'[q] = updated[q] \/ updated[q] < updated'[q]
  BY <1>1 DEF Stamp
<1>3. SinceBegun'
  BY <1>1, <1>2 DEF SinceBegun, ListInv
<1>4. ASSUME NEW c \in Cursors, NEW q \in Ids, ~ComesAfter(q, c)
      PROVE  ~ComesAfter(q, c)'
  BY <1>1, <1>2, <1>4 DEF ComesAfter, Cursors
<1>5. CursorIsLast'
  <2>1. \A q \in Range(listing.got) : q \in Ids
    BY DEF ServerTypeOK, Range
  <2>2. listing.next # <<>> => listing.next \in Cursors
    BY TimesAreNumbers
  <2> QED BY <2>1, <2>2, <1>4 DEF CursorIsLast, ListInv
<1>6. PagesMakeAList'
  <2>1. IsInjective(listing.got)'
    BY DEF PagesMakeAList, ListInv
  <2>2. ASSUME NEW q \in Ids, listing.began[q] # 0, listing.began[q] = updated'[q],
               WorkspaceOf[q] \in listing.filter
        PROVE  \/ q \in Range(listing.got)
               \/ listing.next # <<>> /\ ComesAfter(q, listing.next)'
    <3>1. updated'[q] = updated[q]
      <4>1. listing.began[q] <= updated[q]
        BY DEF SinceBegun, ListInv
      <4>2. updated'[q] = updated[q] \/ updated[q] < updated'[q]
        BY <1>2
      <4>3. updated[q] \in Nat /\ updated'[q] \in Nat /\ listing.began[q] \in Nat
        BY <1>1, <1>2
      <4> QED BY <2>2, <4>1, <4>2, <4>3
    <3>2. \/ q \in Range(listing.got)
          \/ listing.next # <<>> /\ ComesAfter(q, listing.next)
      BY <2>2, <3>1 DEF PagesMakeAList, ListInv
    <3> QED BY <3>1, <3>2 DEF ComesAfter
  <2> QED BY <2>1, <2>2 DEF PagesMakeAList
<1> QED BY <1>3, <1>5, <1>6 DEF ListInv

\* The types after it, and one row more at most.
LEMMA StampKeepsTypes ==
    ASSUME ServerTypeOK, Counted, NEW s \in Ids, Stamp(s), UNCHANGED now
    PROVE  /\ updated' \in [Ids -> 0..now] /\ updated'[s] # 0
           /\ \A q \in Ids : updated[q] # 0 => updated'[q] # 0
           /\ Counted'
<1>1. updated \in [Ids -> 0..now] /\ now \in Nat \ {0}
  BY DEF ServerTypeOK
<1>2. /\ updated' \in [Ids -> 0..now] /\ updated'[s] # 0
      /\ \A q \in Ids \ {s} : updated'[q] = updated[q]
  BY <1>1 DEF Stamp
<1>3. Used' = Used \cup {s}
  BY <1>2 DEF Used
<1>4. Counted'
  BY <1>3, FS_AddElement DEF Counted
<1> QED BY <1>1, <1>2, <1>4

-----------------------------------------------------------------------------
(***************************************************************************)
(* The list.                                                               *)
(***************************************************************************)
LEMMA CursorInTime ==
    ASSUME NEW s \in Ids, updated[s] \in 1..now
    PROVE  Cursor(s) \in (1..now) \X Ids
BY DEF Cursor

LEMMA FirstPage ==
    ASSUME ServerInv, ListFirst
    PROVE  listing' \in [filter : SUBSET Workspaces, got : Seq(Ids),
                         next : {<<>>} \cup (1..now) \X Ids,
                         began : [Ids -> 0..now]]
           /\ ListInv'
<1>1. PICK filter \in {{w} : w \in Workspaces} \cup {Workspaces} :
         LET page == ListSessionsPage(filter, <<>>, PageSize)
         IN  listing' = [filter |-> filter, got |-> page.sessions,
                         next |-> page.next, began |-> updated]
  BY DEF ListFirst
<1> DEFINE page == ListSessionsPage(filter, <<>>, PageSize)
<1>2. PageIsRight(page, filter, <<>>)
  BY Pages, TimesAreNumbers DEF ServerInv, Counted
<1>0. listing' = [filter |-> filter, got |-> page.sessions,
                  next |-> page.next, began |-> updated]
  BY <1>1
<1>3. /\ listing'.filter = filter /\ listing'.got = page.sessions
      /\ listing'.next = page.next /\ listing'.began = updated
      /\ UNCHANGED updated
  BY <1>1 DEF ListFirst
<1>4. page.next = <<>> \/ page.next \in (1..now) \X Ids
  <2>1. SUFFICES ASSUME page.next # <<>>  PROVE page.next \in (1..now) \X Ids
    OBVIOUS
  <2>2. PICK s \in Matching(filter, <<>>) : page.next = Cursor(s)
    BY <1>2, <2>1 DEF PageIsRight
  <2>3. s \in Ids /\ updated[s] \in 1..now
    BY DEF Matching, ServerInv, ServerTypeOK
  <2> HIDE DEF page
  <2> QED BY <2>2, <2>3, CursorInTime
<1> HIDE DEF page
<1>5. listing' \in [filter : SUBSET Workspaces, got : Seq(Ids),
                    next : {<<>>} \cup (1..now) \X Ids, began : [Ids -> 0..now]]
  <2>1. filter \in SUBSET Workspaces
    OBVIOUS
  <2>2. page.sessions \in Seq(Ids)
    BY <1>2 DEF PageIsRight
  <2>3. updated \in [Ids -> 0..now]
    BY DEF ServerInv, ServerTypeOK
  <2> QED BY <1>0, <1>4, <2>1, <2>2, <2>3
<1>6. SinceBegun'
  BY <1>3 DEF SinceBegun, ServerInv, ServerTypeOK
<1>7. CursorIsLast'
  BY <1>2, <1>3 DEF CursorIsLast, PageIsRight, ComesAfter
<1>8. PagesMakeAList'
  <2>1. IsInjective(page.sessions)
    BY <1>2 DEF PageIsRight
  <2>2. ASSUME NEW s \in Ids, updated[s] # 0, WorkspaceOf[s] \in filter
        PROVE  \/ s \in Range(page.sessions)
               \/ page.next # <<>> /\ ComesAfter(s, page.next)
    BY <1>2, <2>2 DEF PageIsRight, Matching
  <2> QED BY <1>3, <2>1, <2>2 DEF PagesMakeAList, ComesAfter
<1> QED BY <1>5, <1>6, <1>7, <1>8 DEF ListInv

\* Sequences that share no member make one without a member twice.
LEMMA ConcatInjective ==
    ASSUME NEW S, NEW a \in Seq(S), NEW b \in Seq(S),
           IsInjective(a), IsInjective(b), \A s \in Range(a) : s \notin Range(b)
    PROVE  IsInjective(a \o b)
<1>1. /\ DOMAIN a = 1..Len(a) /\ DOMAIN b = 1..Len(b)
      /\ Len(a) \in Nat /\ Len(b) \in Nat
      /\ DOMAIN (a \o b) = 1..(Len(a) + Len(b))
      /\ \A i \in 1..(Len(a) + Len(b)) :
            (a \o b)[i] = IF i <= Len(a) THEN a[i] ELSE b[i - Len(a)]
  OBVIOUS
<1>2. \A i \in 1..Len(a), j \in 1..Len(b) : a[i] # b[j]
  BY <1>1 DEF Range
<1>3. ASSUME NEW i \in 1..(Len(a) + Len(b)), NEW j \in 1..(Len(a) + Len(b)),
             (a \o b)[i] = (a \o b)[j]
      PROVE  i = j
  <2>1. CASE i <= Len(a) /\ j <= Len(a)
    BY <1>1, <1>3, <2>1 DEF IsInjective
  <2>2. CASE i > Len(a) /\ j > Len(a)
    <3>1. i - Len(a) \in DOMAIN b /\ j - Len(a) \in DOMAIN b
      BY <1>1, <2>2
    <3>2. b[i - Len(a)] = b[j - Len(a)]
      BY <1>1, <1>3, <2>2
    <3>3. i - Len(a) = j - Len(a)
      BY <3>1, <3>2 DEF IsInjective
    <3> QED BY <3>3, <1>1
  <2>3. CASE i <= Len(a) /\ j > Len(a)
    <3>1. i \in 1..Len(a) /\ j - Len(a) \in 1..Len(b) BY <1>1, <2>3
    <3> QED BY <3>1, <1>1, <1>2, <1>3, <2>3
  <2>4. CASE i > Len(a) /\ j <= Len(a)
    <3>1. j \in 1..Len(a) /\ i - Len(a) \in 1..Len(b) BY <1>1, <2>4
    <3> QED BY <3>1, <1>1, <1>2, <1>3, <2>4
  <2> QED BY <1>1, <2>1, <2>2, <2>3, <2>4
<1> QED BY <1>1, <1>3 DEF IsInjective

\* What comes after a session that comes after a cursor comes after it too.
LEMMA ComesAfterBoth ==
    ASSUME Times, NEW r \in Ids, NEW s \in Ids, NEW c \in Cursors,
           ComesAfter(r, c), ComesAfter(s, Cursor(r))
    PROVE  ComesAfter(s, c)
<1>1. Precedes(r, s)
  BY CursorOfSession
<1>2. /\ c[1] \in Nat /\ c[2] \in Nat /\ r \in Nat /\ s \in Nat
      /\ updated[r] \in Nat /\ updated[s] \in Nat
  BY DEF Times, Cursors
<1> QED BY <1>1, <1>2 DEF Precedes, ComesAfter

\* A later page holds what comes after the cursor, and so nothing the list
\* has already; its cursor is further on.
LEMMA NextPage ==
    ASSUME ServerInv, ListNext
    PROVE  listing' \in [filter : SUBSET Workspaces, got : Seq(Ids),
                         next : {<<>>} \cup (1..now) \X Ids,
                         began : [Ids -> 0..now]]
           /\ ListInv'
<1> DEFINE page == ListSessionsPage(listing.filter, listing.next, PageSize)
           got == listing.got
           cursor == listing.next
           M == Matching(listing.filter, cursor)
<1>1. PageIsRight(page, listing.filter, cursor)
  BY Pages, TimesAreNumbers DEF ServerInv, Counted
<1>2. listing' = [filter |-> listing.filter, got |-> got \o page.sessions,
                  next |-> page.next, began |-> listing.began]
  <2>1. listing \in [filter : SUBSET Workspaces, got : Seq(Ids),
                     next : {<<>>} \cup (1..now) \X Ids, began : [Ids -> 0..now]]
    BY DEF ServerInv, ServerTypeOK
  <2>2. listing' = [listing EXCEPT !.got = @ \o page.sessions, !.next = page.next]
    BY DEF ListNext
  <2> HIDE DEF page
  <2> QED BY <2>1, <2>2
<1>3. /\ cursor # <<>> /\ cursor \in Cursors /\ Times
      /\ UNCHANGED <<updated, now>>
  BY TimesAreNumbers DEF ListNext, ServerInv
<1> HIDE DEF page
<1>4. /\ listing'.filter = listing.filter /\ listing'.next = page.next
      /\ listing'.got = got \o page.sessions /\ listing'.began = listing.began
  BY <1>2
<1>5. /\ got \in Seq(Ids) /\ page.sessions \in Seq(Ids)
      /\ IsInjective(got) /\ IsInjective(page.sessions)
      /\ Range(page.sessions) \subseteq M /\ M \subseteq Ids
  BY <1>1 DEF PageIsRight, ServerInv, ServerTypeOK, PagesMakeAList, Matching
<1>6. \A s \in M : ComesAfter(s, cursor)
  BY <1>3 DEF Matching
<1>7. \A s \in Range(got) : s \in Ids /\ ~ComesAfter(s, cursor)
  BY <1>3, <1>5 DEF CursorIsLast, ServerInv, Range
<1>8. Range(got \o page.sessions) = Range(got) \cup Range(page.sessions)
  BY <1>5, RangeConcatenation
<1>9. page.next # <<>> =>
        \E r \in M : page.next = Cursor(r) /\ ComesAfter(r, cursor)
  BY <1>1, <1>5, <1>6 DEF PageIsRight
<1>10. listing' \in [filter : SUBSET Workspaces, got : Seq(Ids),
                     next : {<<>>} \cup (1..now) \X Ids, began : [Ids -> 0..now]]
  <2>1. got \o page.sessions \in Seq(Ids)
    BY <1>5, ConcatProperties
  <2>2. page.next = <<>> \/ page.next \in (1..now) \X Ids
    <3>1. \A r \in M : r \in Ids /\ updated[r] \in 1..now
      BY DEF Matching, ServerInv, ServerTypeOK
    <3> QED BY <1>9, <3>1, CursorInTime
  <2>3. listing.filter \in SUBSET Workspaces /\ listing.began \in [Ids -> 0..now]
    BY DEF ServerInv, ServerTypeOK
  <2> QED BY <1>2, <2>1, <2>2, <2>3
<1>11. SinceBegun'
  BY <1>3, <1>4 DEF SinceBegun, ServerInv
<1>12. CursorIsLast'
  <2> SUFFICES ASSUME page.next # <<>>,
                      NEW s \in Range(got) \cup Range(page.sessions)
               PROVE  ~ComesAfter(s, page.next)
    BY <1>3, <1>4, <1>8 DEF CursorIsLast, ComesAfter
  <2>1. CASE s \in Range(page.sessions)
    BY <1>1, <2>1 DEF PageIsRight
  <2>2. CASE s \in Range(got)
    <3>1. PICK r \in M : page.next = Cursor(r) /\ ComesAfter(r, cursor)
      BY <1>9
    <3>2. r \in Ids /\ s \in Ids /\ ~ComesAfter(s, cursor)
      BY <1>5, <1>7, <2>2
    <3>3. ComesAfter(s, Cursor(r)) => ComesAfter(s, cursor)
      BY <3>1, <3>2, <1>3, ComesAfterBoth
    <3> QED BY <3>1, <3>2, <3>3
  <2> QED BY <2>1, <2>2
<1>13. PagesMakeAList'
  <2>1. IsInjective(got \o page.sessions)
    <3>1. \A s \in Range(got) : s \notin Range(page.sessions)
      BY <1>5, <1>6, <1>7
    <3> HIDE DEF got
    <3> DEFINE a == got
               b == page.sessions
    <3>2. /\ a \in Seq(Ids) /\ b \in Seq(Ids)
          /\ IsInjective(a) /\ IsInjective(b)
          /\ \A s \in Range(a) : s \notin Range(b)
      BY <1>5, <3>1
    <3> HIDE DEF a, b
    <3>3. IsInjective(a \o b)
      BY <3>2, ConcatInjective
    <3> QED BY <3>3 DEF a, b
  <2>2. ASSUME NEW s \in Ids, listing.began[s] # 0, listing.began[s] = updated[s],
               WorkspaceOf[s] \in listing.filter
        PROVE  \/ s \in Range(got \o page.sessions)
               \/ page.next # <<>> /\ ComesAfter(s, page.next)
    <3>1. s \in Range(got) \/ ComesAfter(s, cursor)
      BY <2>2 DEF PagesMakeAList, ServerInv
    <3>2. ComesAfter(s, cursor) => s \in M
      BY <2>2 DEF Matching
    <3>3. s \in M => \/ s \in Range(page.sessions)
                     \/ page.next # <<>> /\ ComesAfter(s, page.next)
      BY <1>1 DEF PageIsRight
    <3> QED BY <3>1, <3>2, <3>3, <1>8
  <2> QED BY <1>3, <1>4, <2>1, <2>2 DEF PagesMakeAList, ComesAfter
<1> QED BY <1>10, <1>11, <1>12, <1>13 DEF ListInv

-----------------------------------------------------------------------------
(***************************************************************************)
(* The registry.                                                           *)
(***************************************************************************)
\* A session that becomes active had room.
LEMMA RoomIsEnough ==
    ASSUME ServerTypeOK, Counted, GivenSessionsAreActive, NEW s \in Ids, HasRoom(s)
    PROVE  Cardinality(actives \cup {s}) <= ActiveLimit
<1>1. IsFiniteSet(actives) /\ Cardinality(actives) \in Nat
  BY ActivesAreCounted
<1>2. Cardinality(actives \cup {s})
         = IF s \in actives THEN Cardinality(actives) ELSE Cardinality(actives) + 1
  BY <1>1, FS_AddElement
<1> QED BY <1>1, <1>2 DEF HasRoom, GivenSessionsAreActive

\* At most one of them, counted.
LEMMA OneIsCounted ==
    ASSUME NEW W, \A r, s \in W : r = s
    PROVE  Cardinality(W) <= 1
<1>1. CASE W = {}
  BY <1>1, FS_EmptySet
<1>2. CASE W # {}
  <2>1. PICK s \in W : W = {s}
    BY <1>2
  <2> QED BY <2>1, FS_Singleton
<1> QED BY <1>1, <1>2

LEMMA InitEstablishesInvariant == ServerInit => ServerInv
<1> SUFFICES ASSUME ServerInit PROVE ServerInv
  OBVIOUS
<1>1. /\ initialized = FALSE /\ now = 1 /\ updated = [s \in Ids |-> 0]
      /\ actives = {} /\ working = {} /\ held = {}
      /\ listing = [filter |-> {}, got |-> <<>>, next |-> <<>>,
                    began |-> [s \in Ids |-> 0]]
  BY DEF ServerInit, NoListing
<1>2. Cardinality({}) = 0 /\ IsFiniteSet({})
  BY FS_EmptySet
<1>3. ServerTypeOK
  <2>1. listing \in [filter : SUBSET Workspaces, got : Seq(Ids),
                     next : {<<>>} \cup (1..now) \X Ids, began : [Ids -> 0..now]]
    BY <1>1
  <2>2. initialized \in BOOLEAN BY <1>1
  <2> QED BY <1>1, <1>2, <2>1, <2>2 DEF ServerTypeOK
<1>4. Counted
  <2>1. Used = {} BY <1>1 DEF Used
  <2> QED BY <2>1, <1>2 DEF Counted
<1>5. OneWorks /\ GivenSessionsAreActive
  BY <1>1, <1>2 DEF OneWorks, GivenSessionsAreActive
<1>6. SinceBegun /\ CursorIsLast
  BY <1>1 DEF SinceBegun, CursorIsLast
<1>7. PagesMakeAList
  BY <1>1 DEF PagesMakeAList, IsInjective
<1> QED BY <1>3, <1>4, <1>5, <1>6, <1>7 DEF ServerInv

\* A step that leaves the rows and the list alone leaves what is said of them.
LEMMA RowsAlone ==
    ASSUME ServerInv, UNCHANGED <<updated, listing>>
    PROVE  Counted' /\ ListInv'
BY DEF ServerInv, Counted, Used, ListInv, SinceBegun, CursorIsLast, PagesMakeAList,
       ComesAfter

\* A step that sets the time of one session.
LEMMA OneRow ==
    ASSUME ServerInv, NEW s \in Ids, Stamp(s), UNCHANGED <<now, listing>>
    PROVE  /\ updated' \in [Ids -> 0..now'] /\ updated'[s] # 0
           /\ \A q \in Ids : updated[q] # 0 => updated'[q] # 0
           /\ Counted' /\ ListInv'
BY StampKeepsTypes, StampKeepsList DEF ServerInv, ListInv

LEMMA StepKeepsInvariant ==
    ASSUME ServerInv, [ServerNext]_serverVars
    PROVE  ServerInv'
<1> USE DEF ListInv
<1>t. /\ initialized \in BOOLEAN /\ now \in 1..MaxTime /\ updated \in [Ids -> 0..now]
      /\ actives \subseteq Ids /\ working \subseteq Ids /\ held \subseteq Ids
      /\ Cardinality(working) <= 1
      /\ listing \in [filter : SUBSET Workspaces, got : Seq(Ids),
                      next : {<<>>} \cup (1..now) \X Ids, began : [Ids -> 0..now]]
  BY DEF ServerInv, ServerTypeOK
<1>g. /\ held \subseteq actives /\ working \subseteq actives
      /\ \A s \in actives : updated[s] # 0
      /\ Cardinality(actives) <= ActiveLimit
  BY DEF ServerInv, GivenSessionsAreActive
<1>w. \A r, s \in working : r = s
  BY DEF ServerInv, OneWorks
<1>1. CASE Initialize
  <2>1. UNCHANGED <<now, updated, actives, working, held, listing>> /\ initialized' = TRUE
    BY <1>1 DEF Initialize
  <2>2. Counted' /\ ListInv'
    BY <2>1, RowsAlone
  <2>3. ServerTypeOK'
    <3>1. initialized' \in BOOLEAN BY <2>1
    <3> QED BY <1>t, <2>1, <3>1 DEF ServerTypeOK
  <2>4. OneWorks' /\ GivenSessionsAreActive'
    BY <1>g, <1>w, <2>1 DEF OneWorks, GivenSessionsAreActive
  <2> QED BY <2>2, <2>3, <2>4 DEF ServerInv
<1>2. CASE ListFirst \/ ListNext
  <2>1. UNCHANGED <<initialized, now, updated, actives, working, held>>
    BY <1>2 DEF ListFirst, ListNext
  <2>2. /\ listing' \in [filter : SUBSET Workspaces, got : Seq(Ids),
                         next : {<<>>} \cup (1..now) \X Ids, began : [Ids -> 0..now]]
        /\ ListInv'
    BY <1>2, FirstPage, NextPage
  <2>3. ServerTypeOK'
    BY <1>t, <2>1, <2>2 DEF ServerTypeOK
  <2>4. Counted'
    BY <2>1 DEF ServerInv, Counted, Used
  <2>5. OneWorks' /\ GivenSessionsAreActive'
    BY <1>g, <1>w, <2>1 DEF OneWorks, GivenSessionsAreActive
  <2> QED BY <2>2, <2>3, <2>4, <2>5 DEF ServerInv
<1>3. CASE PromptEnds
  <2>1. /\ working' = {}
        /\ UNCHANGED <<initialized, now, updated, actives, held, listing>>
    BY <1>3 DEF PromptEnds
  <2>2. Counted' /\ ListInv'
    BY <2>1, RowsAlone
  <2>3. ServerTypeOK'
    BY <1>t, <2>1, FS_EmptySet DEF ServerTypeOK
  <2>4. OneWorks' /\ GivenSessionsAreActive'
    BY <1>g, <2>1 DEF OneWorks, GivenSessionsAreActive
  <2> QED BY <2>2, <2>3, <2>4 DEF ServerInv
<1>4. CASE ClockTicks
  <2>1. /\ now' = now + 1 /\ now < MaxTime
        /\ UNCHANGED <<initialized, updated, actives, working, held, listing>>
    BY <1>4 DEF ClockTicks
  <2>2. Counted' /\ ListInv'
    BY <2>1, RowsAlone
  <2>3. ServerTypeOK'
    <3>1. now' \in 1..MaxTime /\ 0..now \subseteq 0..now' /\ 1..now \subseteq 1..now'
      BY <1>t, <2>1
    <3>2. updated \in [Ids -> 0..now'] /\ listing.began \in [Ids -> 0..now']
      BY <1>t, <3>1
    <3>3. (1..now) \X Ids \subseteq (1..now') \X Ids
      BY <3>1
    <3>4. listing \in [filter : SUBSET Workspaces, got : Seq(Ids),
                       next : {<<>>} \cup (1..now') \X Ids, began : [Ids -> 0..now']]
      BY <1>t, <3>2, <3>3
    <3> QED BY <1>t, <2>1, <3>1, <3>2, <3>4 DEF ServerTypeOK
  <2>4. OneWorks' /\ GivenSessionsAreActive'
    BY <1>g, <1>w, <2>1 DEF OneWorks, GivenSessionsAreActive
  <2> QED BY <2>2, <2>3, <2>4 DEF ServerInv
<1>5. ASSUME NEW s \in Ids, NewSession(s)  PROVE ServerInv'
  <2>1. /\ Stamp(s) /\ HasRoom(s)
        /\ actives' = actives \cup {s} /\ held' = held \cup {s}
        /\ UNCHANGED <<initialized, now, working, listing>>
    BY <1>5 DEF NewSession
  <2>2. /\ updated' \in [Ids -> 0..now'] /\ updated'[s] # 0
        /\ \A q \in Ids : updated[q] # 0 => updated'[q] # 0
        /\ Counted' /\ ListInv'
    BY <2>1, OneRow
  <2>3. ServerTypeOK'
    BY <1>t, <2>1, <2>2 DEF ServerTypeOK
  <2>4. Cardinality(actives') <= ActiveLimit
    BY <2>1, RoomIsEnough DEF ServerInv
  <2>5. OneWorks' /\ GivenSessionsAreActive'
    BY <1>t, <1>g, <1>w, <2>1, <2>2, <2>4 DEF OneWorks, GivenSessionsAreActive
  <2> QED BY <2>2, <2>3, <2>5 DEF ServerInv
<1>6. ASSUME NEW s \in Ids, RestoreSession(s)  PROVE ServerInv'
  <2>1. /\ Stamp(s) /\ HasRoom(s)
        /\ UNCHANGED <<initialized, now, working, listing>>
    BY <1>6 DEF RestoreSession
  <2>2. /\ updated' \in [Ids -> 0..now'] /\ updated'[s] # 0
        /\ \A q \in Ids : updated[q] # 0 => updated'[q] # 0
        /\ Counted' /\ ListInv'
    BY <2>1, OneRow
  <2>3. Cardinality(actives \cup {s}) <= ActiveLimit
    BY <2>1, RoomIsEnough DEF ServerInv
  <2>4. /\ actives' = actives \cup {s} \/ actives' = actives
        /\ held' \subseteq actives'
    BY <1>6, <1>g DEF RestoreSession
  <2>5. ServerTypeOK'
    BY <1>t, <2>1, <2>2, <2>4 DEF ServerTypeOK
  <2>6. OneWorks' /\ GivenSessionsAreActive'
    BY <1>t, <1>g, <1>w, <2>1, <2>2, <2>3, <2>4 DEF OneWorks, GivenSessionsAreActive
  <2> QED BY <2>2, <2>5, <2>6 DEF ServerInv
<1>7. ASSUME NEW s \in Ids, CloseActive(s)  PROVE ServerInv'
  <2>1. /\ working' = working \ {s} /\ actives' = actives \ {s} /\ held' = held \ {s}
        /\ UNCHANGED <<initialized, now, updated, listing>>
    BY <1>7 DEF CloseActive
  <2>2. Counted' /\ ListInv'
    BY <2>1, RowsAlone
  <2>3. OneWorks' /\ Cardinality(working') <= 1
    <3>1. \A q, r \in working' : q = r
      BY <1>w, <2>1
    <3> QED BY <3>1, OneIsCounted DEF OneWorks
  <2>4. ServerTypeOK'
    BY <1>t, <2>1, <2>3 DEF ServerTypeOK
  <2>5. Cardinality(actives') <= ActiveLimit
    <3>1. IsFiniteSet(actives) /\ Cardinality(actives) \in Nat
      BY ActivesAreCounted DEF ServerInv
    <3>2. Cardinality(actives') \in Nat /\ Cardinality(actives') <= Cardinality(actives)
      BY <2>1, <3>1, FS_Subset, FS_CardinalityType
    <3> QED BY <1>g, <3>1, <3>2
  <2>6. GivenSessionsAreActive'
    BY <1>g, <2>1, <2>5 DEF GivenSessionsAreActive
  <2> QED BY <2>2, <2>3, <2>4, <2>6 DEF ServerInv
<1>8. ASSUME NEW s \in Ids, PromptSession(s)  PROVE ServerInv'
  <2>1. /\ working' = {s} /\ s \in actives
        /\ UNCHANGED <<initialized, now, updated, actives, held, listing>>
    BY <1>8 DEF PromptSession
  <2>2. Counted' /\ ListInv'
    BY <2>1, RowsAlone
  <2>3. ServerTypeOK'
    <3>1. Cardinality(working') <= 1
      BY <2>1, OneIsCounted
    <3> QED BY <1>t, <1>g, <2>1, <3>1 DEF ServerTypeOK
  <2>4. OneWorks' /\ GivenSessionsAreActive'
    BY <1>g, <2>1 DEF OneWorks, GivenSessionsAreActive
  <2> QED BY <2>2, <2>3, <2>4 DEF ServerInv
<1>9. ASSUME NEW s \in Ids, PromptAppends(s) \/ OthersUse(s)  PROVE ServerInv'
  <2>1. /\ Stamp(s)
        /\ UNCHANGED <<initialized, now, actives, working, held, listing>>
    BY <1>9 DEF PromptAppends, OthersUse
  <2>2. /\ updated' \in [Ids -> 0..now'] /\ updated'[s] # 0
        /\ \A q \in Ids : updated[q] # 0 => updated'[q] # 0
        /\ Counted' /\ ListInv'
    BY <2>1, OneRow
  <2>3. ServerTypeOK'
    BY <1>t, <2>1, <2>2 DEF ServerTypeOK
  <2>4. OneWorks' /\ GivenSessionsAreActive'
    BY <1>t, <1>g, <1>w, <2>1, <2>2 DEF OneWorks, GivenSessionsAreActive
  <2> QED BY <2>2, <2>3, <2>4 DEF ServerInv
<1>10. CASE UNCHANGED serverVars
  <2>1. UNCHANGED <<initialized, now, updated, actives, working, held, listing>>
    BY <1>10 DEF serverVars
  <2>2. Counted' /\ ListInv'
    BY <2>1, RowsAlone
  <2>3. ServerTypeOK'
    BY <1>t, <2>1 DEF ServerTypeOK
  <2>4. OneWorks' /\ GivenSessionsAreActive'
    BY <1>g, <1>w, <2>1 DEF OneWorks, GivenSessionsAreActive
  <2> QED BY <2>2, <2>3, <2>4 DEF ServerInv
<1> QED
  BY <1>1, <1>2, <1>3, <1>4, <1>5, <1>6, <1>7, <1>8, <1>9, <1>10 DEF ServerNext

THEOREM ServerInvariant == ServerSpec => []ServerInv
<1>1. ServerInv /\ [ServerNext]_serverVars => ServerInv'
  BY StepKeepsInvariant
<1> QED BY InitEstablishesInvariant, <1>1, PTL DEF ServerSpec

-----------------------------------------------------------------------------
(***************************************************************************)
(* The theorems.                                                           *)
(***************************************************************************)
\* The variables keep their types: the listing is a sequence of sessions, its
\* cursor a time that was and a session, and one prompt runs at a time
\* (AcpServer and AcpSessionRegistry, list_sessions_page).
THEOREM ServerTypeCorrect == ServerSpec => []ServerTypeOK
<1>1. ServerInv => ServerTypeOK
  BY DEF ServerInv
<1> QED BY ServerInvariant, <1>1, PTL

\* A session the client may prompt is active, has a row, and is not lost by a
\* request that fails half way; active sessions are never more than the limit
\* (AcpSessionRegistry, session/new, load, resume and close), for every limit
\* and every number of sessions.
THEOREM GivenStayActive == ServerSpec => []GivenSessionsAreActive
<1>1. ServerInv => GivenSessionsAreActive
  BY DEF ServerInv
<1> QED BY ServerInvariant, <1>1, PTL

\* The pages of session/list make a list without repetition or gap, for pages
\* of every size, though sessions are used, made and closed between two pages
\* (list_sessions_page and its cursor).
THEOREM PagesMakeOneList == ServerSpec => []PagesMakeAList
<1>1. ServerInv => PagesMakeAList
  BY DEF ServerInv
<1> QED BY ServerInvariant, <1>1, PTL

-----------------------------------------------------------------------------
(***************************************************************************)
(* The prompts and the sessions together: a step is one part's, and the    *)
(* other rests.                                                            *)
(***************************************************************************)
LEMMA StepsAreOfParts ==
    [MCNext]_<<part, vars, serverVars>> => [Next]_vars /\ [ServerNext]_serverVars
<1> SUFFICES ASSUME [MCNext]_<<part, vars, serverVars>>
             PROVE  /\ Next \/ UNCHANGED vars
                    /\ ServerNext \/ UNCHANGED serverVars
  BY Zenon
<1>1. CASE UNCHANGED <<part, vars, serverVars>>
  BY <1>1, Zenon
<1>2. CASE MCNext
  BY <1>2, Zenon DEF MCNext
<1> QED BY <1>1, <1>2

\* Whatever the instance does, each part does what its own specification allows.
THEOREM PartsAreThemselves == MCSpec => FairSpec /\ ServerSpec
<1>1. MCInit => Init /\ ServerInit
  BY DEF MCInit
<1> QED
  BY <1>1, StepsAreOfParts, PTL DEF MCSpec, FairSpec, Spec, ServerSpec

\* The types of both parts, at all times.
THEOREM MCTypeCorrect == MCSpec => []MCTypeOK
BY PartsAreThemselves, TypeCorrect, ServerTypeCorrect, PTL DEF MCTypeOK, FairSpec

=============================================================================
