---------------------------- MODULE LogPane_proofs ----------------------------
(***************************************************************************)
(* Theorems about LogViewport, for windows of any height and scrolls of    *)
(* any size, and about LogPane, for logs of any length, however they come  *)
(* and whatever is folded, resized or scrolled in between. They need no    *)
(* fairness.                                                               *)
(***************************************************************************)
EXTENDS LogPane, FiniteSetTheorems, SequenceTheorems, TLAPS

-----------------------------------------------------------------------------
(***************************************************************************)
(* Induction on the numbers up to n, for a set of them.                    *)
(***************************************************************************)
LEMMA LeastMember ==
    ASSUME NEW S \in SUBSET Int, IsFiniteSet(S), S # {}
    PROVE  \E x \in S : \A y \in S : x <= y
<1> DEFINE Below(x) == {y \in S : y <= x}
           T == {Below(x) : x \in S}
           F == FiniteSubsetsOf(S)
           R == StrictSubsetOrdering(S)
<1>1. IsWellFoundedOn(R, F)
  BY FS_StrictSubsetOrderingWellFounded
<1>2. T \subseteq F /\ T # {}
  <2>1. \A x \in S : Below(x) \in SUBSET S
    OBVIOUS
  <2>2. \A x \in S : IsFiniteSet(Below(x))
    <3> HIDE DEF Below
    <3> QED BY <2>1, FS_Subset
  <2> HIDE DEF Below
  <2> QED BY <2>1, <2>2 DEF FiniteSubsetsOf
<1>3. \E X \in T : \A Y \in T : ~(<<Y, X>> \in R)
  <2> HIDE DEF T, F, R
  <2> QED BY <1>1, <1>2, WFMin
<1>4. PICK x \in S : \A y \in S : ~(<<Below(y), Below(x)>> \in R)
  <2> HIDE DEF R, Below
  <2> QED BY <1>3
<1>5. ASSUME NEW y \in S, y < x  PROVE FALSE
  <2>0. x \in Int /\ y \in Int /\ \A z \in S : z \in Int
    OBVIOUS
  <2>1. Below(y) \subseteq Below(x) /\ x \in Below(x) /\ x \notin Below(y)
    <3>1. \A z \in S : z <= y => z <= x
      BY <2>0, <1>5
    <3>2. x <= x /\ ~(x <= y)
      BY <2>0, <1>5
    <3> QED BY <3>1, <3>2, Zenon
  <2>2. Below(y) \in SUBSET S /\ Below(x) \in SUBSET S
    OBVIOUS
  <2> HIDE DEF Below
  <2> QED BY <2>1, <2>2, <1>4 DEF StrictSubsetOrdering
<1> QED BY <1>5

LEMMA UpTo ==
    ASSUME NEW n \in Nat, NEW P \in SUBSET (0..n), 0 \in P,
           \A i \in 1..n : i - 1 \in P => i \in P
    PROVE  \A i \in 0..n : i \in P
<1> DEFINE S == (0..n) \ P
<1> SUFFICES ASSUME S # {} PROVE FALSE
  OBVIOUS
<1>1. S \in SUBSET Int /\ IsFiniteSet(S)
  <2>1. IsFiniteSet(0..n)
    BY FS_Interval
  <2> QED BY <2>1, FS_Subset
<1>2. PICK x \in S : \A y \in S : x <= y
  <2> HIDE DEF S
  <2> QED BY <1>1, LeastMember
<1>3. x \in 1..n /\ x - 1 \in 0..n
  OBVIOUS
<1>4. x - 1 \in P
  BY <1>2, <1>3
<1> QED BY <1>3, <1>4

-----------------------------------------------------------------------------
(***************************************************************************)
(* What the two loops over entries and blocks compute: their functions     *)
(* exist.                                                                  *)
(***************************************************************************)
Appends(p, bs, o, es) ==
    /\ AppendEntries(bs, o, es) = p[Len(es)]
    /\ p[0] = [blocks |-> bs, open |-> o, first |-> Len(bs) + 1]
    /\ \A n \in 1..Len(es) : p[n] = AppendEntry(p[n - 1], es[n])

LEMMA AppendingIs ==
    ASSUME NEW bs, NEW o, NEW es, Len(es) \in Nat
    PROVE  \E p : Appends(p, bs, o, es)
<1> DEFINE b == [blocks |-> bs, open |-> o, first |-> Len(bs) + 1]
           Is(g, m) == g = [n \in 0..m |-> IF n = 0 THEN b
                                           ELSE AppendEntry(g[n - 1], es[n])]
           P == {m \in 0..Len(es) : \E g : Is(g, m)}
           p == CHOOSE g : Is(g, Len(es))
<1> HIDE DEF b
<1>1. 0 \in P
  <2> DEFINE h == [n \in 0..0 |-> b]
  <2>1. Is(h, 0)
    OBVIOUS
  <2> HIDE DEF Is, h
  <2> QED BY <2>1
<1>2. ASSUME NEW m \in 1..Len(es), m - 1 \in P  PROVE m \in P
  <2>1. PICK g : Is(g, m - 1)
    BY <1>2
  <2> DEFINE h == [n \in 0..m |-> IF n = m THEN AppendEntry(g[m - 1], es[m]) ELSE g[n]]
  <2>2. ASSUME NEW n \in 0..m
        PROVE  h[n] = IF n = 0 THEN b ELSE AppendEntry(h[n - 1], es[n])
    <3>1. \A k \in 0..m-1 : h[k] = g[k]
      OBVIOUS
    <3>2. CASE n = m
      BY <3>1, <3>2
    <3>3. CASE n # m
      <4>1. n \in 0..m-1
        BY <3>3
      <4>2. g[n] = IF n = 0 THEN b ELSE AppendEntry(g[n - 1], es[n])
        BY <2>1, <4>1
      <4>3. n # 0 => n - 1 \in 0..m-1
        BY <4>1
      <4> HIDE DEF h
      <4> QED BY <3>1, <4>1, <4>2, <4>3
    <3> QED BY <3>2, <3>3
  <2>3. Is(h, m)
    <3>1. h = [n \in 0..m |-> h[n]]
      OBVIOUS
    <3> HIDE DEF h
    <3> QED BY <2>2, <3>1
  <2> HIDE DEF Is, h
  <2> QED BY <2>3
<1>3. Len(es) \in P
  <2> HIDE DEF P
  <2>1. P \in SUBSET (0..Len(es))
    BY DEF P
  <2>2. Len(es) \in 0..Len(es)
    OBVIOUS
  <2> QED BY <1>1, <1>2, <2>1, <2>2, UpTo
<1>4. Is(p, Len(es))
  <2>1. \E g : Is(g, Len(es))
    BY <1>3
  <2> HIDE DEF Is
  <2> QED BY <2>1
<1>5. AppendEntries(bs, o, es) = p[Len(es)]
  BY DEF AppendEntries, b
<1> HIDE DEF p
<1>6. /\ p[0] = b
      /\ \A n \in 1..Len(es) : p[n] = AppendEntry(p[n - 1], es[n])
  BY <1>4
<1>7. Appends(p, bs, o, es)
  BY <1>5, <1>6, Zenon DEF b, Appends
<1> QED BY <1>7

Renders(r, bs, first, w) ==
    /\ Render(bs, first, w) = r[Len(bs) - first + 1]
    /\ r[0] = [lines |-> <<>>, starts |-> <<>>]
    /\ \A n \in 1..(Len(bs) - first + 1) :
          r[n] = AddBlock(r[n - 1], BlockLines(first + n - 1, bs[first + n - 1], w))

LEMMA RenderingIs ==
    ASSUME NEW bs, NEW first, NEW w, Len(bs) - first + 1 \in Nat
    PROVE  \E r : Renders(r, bs, first, w)
<1> DEFINE size == Len(bs) - first + 1
           own(n) == BlockLines(first + n - 1, bs[first + n - 1], w)
           b == [lines |-> <<>>, starts |-> <<>>]
           Is(g, m) == g = [n \in 0..m |-> IF n = 0 THEN b
                                           ELSE AddBlock(g[n - 1], own(n))]
           P == {m \in 0..size : \E g : Is(g, m)}
           r == CHOOSE g : Is(g, size)
<1>5. Render(bs, first, w) = r[size]
  BY DEF Render
<1>s. size \in Nat
  OBVIOUS
<1> HIDE DEF b, own, size
<1>1. 0 \in P
  <2> DEFINE h == [n \in 0..0 |-> b]
  <2>1. Is(h, 0)
    OBVIOUS
  <2> HIDE DEF Is, h
  <2> QED BY <2>1, <1>s
<1>2. ASSUME NEW m \in 1..size, m - 1 \in P  PROVE m \in P
  <2>1. PICK g : Is(g, m - 1)
    BY <1>2
  <2> DEFINE h == [n \in 0..m |-> IF n = m THEN AddBlock(g[m - 1], own(m)) ELSE g[n]]
  <2>2. ASSUME NEW n \in 0..m
        PROVE  h[n] = IF n = 0 THEN b ELSE AddBlock(h[n - 1], own(n))
    <3>1. \A k \in 0..m-1 : h[k] = g[k]
      BY <1>s
    <3>2. CASE n = m
      BY <3>1, <3>2, <1>s
    <3>3. CASE n # m
      <4>1. n \in 0..m-1
        BY <3>3, <1>s
      <4>2. g[n] = IF n = 0 THEN b ELSE AddBlock(g[n - 1], own(n))
        BY <2>1, <4>1
      <4>3. n # 0 => n - 1 \in 0..m-1
        BY <4>1, <1>s
      <4> HIDE DEF h
      <4> QED BY <3>1, <4>1, <4>2, <4>3
    <3> QED BY <3>2, <3>3
  <2>3. Is(h, m)
    <3>1. h = [n \in 0..m |-> h[n]]
      OBVIOUS
    <3> HIDE DEF h
    <3> QED BY <2>2, <3>1
  <2> HIDE DEF Is, h
  <2> QED BY <2>3, <1>s
<1>3. size \in P
  <2> HIDE DEF P
  <2>1. P \in SUBSET (0..size)
    BY DEF P
  <2>2. size \in 0..size
    BY <1>s
  <2> QED BY <1>1, <1>2, <1>s, <2>1, <2>2, UpTo
<1>4. Is(r, size)
  <2>1. \E g : Is(g, size)
    BY <1>3
  <2> HIDE DEF Is
  <2> QED BY <2>1
<1> HIDE DEF r
<1>6. /\ r[0] = b
      /\ \A n \in 1..size : r[n] = AddBlock(r[n - 1], own(n))
  BY <1>4, <1>s
<1>7. Renders(r, bs, first, w)
  BY <1>5, <1>6, Zenon DEF b, own, size, Renders
<1> QED BY <1>7

-----------------------------------------------------------------------------
(***************************************************************************)
(* The log: what one more entry changes about the commands before it.      *)
(***************************************************************************)
LEMMA OneMoreEntry ==
    ASSUME NEW n \in Nat, NEW i \in 1..n
    PROVE  /\ ObservationOf(i, n + 1) =
                ObservationOf(i, n) \cup
                (IF StillRuns(i, n) /\ logs[n + 1] = "Observation" THEN {n + 1} ELSE {})
           /\ StillRuns(i, n + 1) <=>
                StillRuns(i, n) /\ logs[n + 1] \notin Closers \cup {"Observation"}
<1> DEFINE Ends == Closers \cup {"Observation"}
<1> HIDE DEF Ends
<1>1. i+1..n+1 = (i+1..n) \cup {n + 1} /\ (n+1)-1 = n
  OBVIOUS
<1>2. ObservationOf(i, n) = {j \in i+1..n :
        /\ logs[i] = "Command" /\ logs[j] = "Observation"
        /\ \A k \in i+1..j-1 : logs[k] \notin Ends}
  BY Zenon DEF ObservationOf, Ends
<1>3. ObservationOf(i, n + 1) = {j \in i+1..n+1 :
        /\ logs[i] = "Command" /\ logs[j] = "Observation"
        /\ \A k \in i+1..j-1 : logs[k] \notin Ends}
  BY Zenon DEF ObservationOf, Ends
<1>4. StillRuns(i, n) <=> /\ logs[i] = "Command"
                          /\ \A k \in i+1..n : logs[k] \notin Ends
  BY Zenon DEF StillRuns, Ends
<1>5. StillRuns(i, n + 1) <=> /\ logs[i] = "Command"
                              /\ \A k \in i+1..n+1 : logs[k] \notin Ends
  BY Zenon DEF StillRuns, Ends
<1>6. ObservationOf(i, n + 1) = ObservationOf(i, n) \cup
          (IF StillRuns(i, n) /\ logs[n + 1] = "Observation" THEN {n + 1} ELSE {})
  BY <1>1, <1>2, <1>3, <1>4
<1>7. StillRuns(i, n + 1) <=> StillRuns(i, n) /\ logs[n + 1] \notin Ends
  BY <1>1, <1>4, <1>5
<1> QED BY <1>6, <1>7, Zenon DEF Ends

\* The new entry itself.
LEMMA NewEntry ==
    ASSUME NEW n \in Nat
    PROVE  /\ ObservationOf(n + 1, n + 1) = {}
           /\ StillRuns(n + 1, n + 1) <=> logs[n + 1] = "Command"
<1>1. (n+1)+1..n+1 = {}
  OBVIOUS
<1> QED BY <1>1 DEF ObservationOf, StillRuns

\* A command that still runs has no observation; an observation is none of the
\* commands, and comes from the log.
LEMMA ObservationKind ==
    ASSUME NEW n \in Nat, NEW i \in 1..n
    PROVE  /\ StillRuns(i, n) => ObservationOf(i, n) = {} /\ logs[i] = "Command"
           /\ ObservationOf(i, n) \in SUBSET (1..n)
           /\ \A j \in ObservationOf(i, n) : logs[j] = "Observation"
<1>1. i+1..n \subseteq 1..n
  OBVIOUS
<1>2. StillRuns(i, n) => \A k \in i+1..n : logs[k] # "Observation"
  BY DEF StillRuns
<1> QED BY <1>1, <1>2 DEF ObservationOf, StillRuns

LEMMA MoreObservations ==
    ASSUME NEW n \in Nat
    PROVE  /\ Observations(n) \in SUBSET (1..n)
           /\ \A i \in 1..n : StillRuns(i, n) => i \notin Observations(n)
           /\ Observations(n + 1) = Observations(n) \cup
                (IF /\ logs[n + 1] = "Observation"
                    /\ \E i \in 1..n : StillRuns(i, n)
                 THEN {n + 1} ELSE {})
<1>1. \A i \in 1..n : /\ ObservationOf(i, n) \in SUBSET (1..n)
                      /\ \A j \in ObservationOf(i, n) : logs[j] = "Observation"
                      /\ StillRuns(i, n) => logs[i] = "Command"
  BY ObservationKind
<1>2. 1..n+1 = (1..n) \cup {n + 1}
  OBVIOUS
<1>3. Observations(n + 1) = UNION {ObservationOf(i, n + 1) : i \in 1..n}
  BY <1>2, NewEntry DEF Observations
<1>4. \A i \in 1..n : ObservationOf(i, n + 1) = ObservationOf(i, n) \cup
          (IF StillRuns(i, n) /\ logs[n + 1] = "Observation" THEN {n + 1} ELSE {})
  BY OneMoreEntry
<1>5. Observations(n) = UNION {ObservationOf(i, n) : i \in 1..n}
  BY DEF Observations
<1>6. \A i \in 1..n : StillRuns(i, n) => i \notin Observations(n)
  BY <1>1, <1>5
<1>7. Observations(n + 1) = Observations(n) \cup
        (IF /\ logs[n + 1] = "Observation"
            /\ \E i \in 1..n : StillRuns(i, n)
         THEN {n + 1} ELSE {})
  BY <1>3, <1>4, <1>5
<1> QED BY <1>1, <1>5, <1>6, <1>7

-----------------------------------------------------------------------------
(***************************************************************************)
(* The blocks. Merged says what the blocks are after n entries of the log: *)
(* those of the log, of which the one the code remembers runs and no       *)
(* other.                                                                  *)
(***************************************************************************)
Entries == [session : Nat, place : Nat, kind : Kinds \cup {"none"}]

Blocks == [entry : Entries, observed : Entries, expanded : BOOLEAN, running : BOOLEAN]

OneRuns(bs, o) ==
    /\ bs \in Seq(Blocks) /\ o \in 0..Len(bs)
    /\ \A j \in DOMAIN bs : bs[j].running <=> j = o

Merged(bs, o, n) == OneRuns(bs, o) /\ ShowsLog(bs, n)

LEMMA Lengths ==
    ASSUME NEW S, NEW s \in Seq(S)
    PROVE  Len(s) \in Nat /\ DOMAIN s = 1..Len(s) /\ \A i \in 1..Len(s) : s[i] \in S
BY LenProperties, ElementOfSeq

LEMMA FunctionIsSeq ==
    ASSUME NEW S, NEW n \in Nat, NEW f \in [1..n -> S]
    PROVE  f \in Seq(S) /\ Len(f) = n
<1>1. f \in Seq(S)
  BY SeqDef
<1>2. DOMAIN f = 1..n /\ DOMAIN f = 1..Len(f) /\ Len(f) \in Nat
  BY <1>1, Lengths
<1> QED BY <1>1, <1>2

\* Block b is that of entry i after n entries.
Shows(b, i, n) ==
    /\ b.entry = Entry(i) /\ b.entry.place = i
    /\ b.running <=> StillRuns(i, n)
    /\ IF ObservationOf(i, n) = {}
       THEN b.observed = NoEntry
       ELSE \E o \in ObservationOf(i, n) : b.observed = Entry(o)

\* ShowsLog, for each block and each entry.
LEMMA ShowsLogIs ==
    ASSUME NEW bs, NEW n \in Nat
    PROVE  ShowsLog(bs, n) <=>
             /\ \A j, k \in DOMAIN bs : j < k => bs[j].entry.place < bs[k].entry.place
             /\ \A i \in 1..n \ Observations(n) : \E j \in DOMAIN bs : bs[j].entry = Entry(i)
             /\ \A j \in DOMAIN bs : \E i \in 1..n \ Observations(n) : Shows(bs[j], i, n)
<1> DEFINE Own(j, i) == /\ bs[j].running <=> StillRuns(i, n)
                        /\ IF ObservationOf(i, n) = {}
                           THEN bs[j].observed = NoEntry
                           ELSE \E o \in ObservationOf(i, n) : bs[j].observed = Entry(o)
           Order == \A j, k \in DOMAIN bs : j < k => bs[j].entry.place < bs[k].entry.place
<1>1. ShowsLog(bs, n) <=>
        /\ Order
        /\ {bs[j].entry : j \in DOMAIN bs} = {Entry(i) : i \in 1..n \ Observations(n)}
        /\ \A j \in DOMAIN bs : Own(j, bs[j].entry.place)
  BY Zenon DEF ShowsLog
<1>2. \A j, i : Shows(bs[j], i, n) <=>
                bs[j].entry = Entry(i) /\ bs[j].entry.place = i /\ Own(j, i)
  BY Zenon DEF Shows
<1>3. \A i : Entry(i).place = i
  BY DEF Entry
<1> HIDE DEF Own, Order
<1>4. ASSUME {bs[j].entry : j \in DOMAIN bs} = {Entry(i) : i \in 1..n \ Observations(n)}
      PROVE  /\ \A i \in 1..n \ Observations(n) : \E j \in DOMAIN bs : bs[j].entry = Entry(i)
             /\ \A j \in DOMAIN bs : \E i \in 1..n \ Observations(n) :
                   bs[j].entry = Entry(i) /\ bs[j].entry.place = i
  <2>1. \A i \in 1..n \ Observations(n) : \E j \in DOMAIN bs : bs[j].entry = Entry(i)
    BY <1>4, Zenon
  <2>2. \A j \in DOMAIN bs : \E i \in 1..n \ Observations(n) : bs[j].entry = Entry(i)
    BY <1>4, Zenon
  <2> QED BY <1>3, <2>1, <2>2, Zenon
<1>5. ASSUME \A i \in 1..n \ Observations(n) : \E j \in DOMAIN bs : bs[j].entry = Entry(i),
             \A j \in DOMAIN bs : \E i \in 1..n \ Observations(n) : bs[j].entry = Entry(i)
      PROVE  {bs[j].entry : j \in DOMAIN bs} = {Entry(i) : i \in 1..n \ Observations(n)}
  BY <1>5, Zenon
<1>6. ASSUME ShowsLog(bs, n)
      PROVE  /\ Order
             /\ \A i \in 1..n \ Observations(n) : \E j \in DOMAIN bs : bs[j].entry = Entry(i)
             /\ \A j \in DOMAIN bs : \E i \in 1..n \ Observations(n) : Shows(bs[j], i, n)
  <2>1. \A j \in DOMAIN bs : \E i \in 1..n \ Observations(n) :
             bs[j].entry = Entry(i) /\ bs[j].entry.place = i /\ Own(j, i)
    BY <1>1, <1>4, <1>6, Zenon
  <2> QED BY <1>1, <1>2, <1>4, <1>6, <2>1, Zenon
<1>7. ASSUME Order,
             \A i \in 1..n \ Observations(n) : \E j \in DOMAIN bs : bs[j].entry = Entry(i),
             \A j \in DOMAIN bs : \E i \in 1..n \ Observations(n) : Shows(bs[j], i, n)
      PROVE  ShowsLog(bs, n)
  <2>1. \A j \in DOMAIN bs : \E i \in 1..n \ Observations(n) :
             bs[j].entry = Entry(i) /\ bs[j].entry.place = i /\ Own(j, i)
    BY <1>2, <1>7, Zenon
  <2>2. \A j \in DOMAIN bs : Own(j, bs[j].entry.place)
    BY <2>1, Zenon
  <2> QED BY <1>1, <1>5, <1>7, <2>1, <2>2, Zenon
<1> QED BY <1>6, <1>7, Zenon DEF Order

LEMMA BlockFields ==
    ASSUME NEW b \in Blocks, NEW e \in Entries
    PROVE  /\ Finish(b) \in Blocks /\ [Finish(b) EXCEPT !.observed = e] \in Blocks
           /\ Finish(b).entry = b.entry /\ Finish(b).observed = b.observed
           /\ ~Finish(b).running /\ ~Finish(b).expanded
           /\ [Finish(b) EXCEPT !.observed = e].entry = b.entry
           /\ [Finish(b) EXCEPT !.observed = e].observed = e
           /\ ~[Finish(b) EXCEPT !.observed = e].running
           /\ ~[Finish(b) EXCEPT !.observed = e].expanded
           /\ NewBlock(e) \in Blocks
           /\ NewBlock(e).entry = e /\ NewBlock(e).observed = NoEntry
           /\ NewBlock(e).running <=> e.kind = "Command"
           /\ NewBlock(e).expanded
<1>1. NoEntry \in Entries
  BY DEF NoEntry, Entries
<1> HIDE DEF Entries, NoEntry
<1> QED BY <1>1 DEF Blocks, Finish, NewBlock

\* Another block in one place of the list.
LEMMA OtherBlock ==
    ASSUME NEW bs \in Seq(Blocks), NEW o \in 1..Len(bs), NEW b \in Blocks
    PROVE  /\ [bs EXCEPT ![o] = b] \in Seq(Blocks)
           /\ Len([bs EXCEPT ![o] = b]) = Len(bs)
           /\ \A j \in 1..Len(bs) : [bs EXCEPT ![o] = b][j] = IF j = o THEN b ELSE bs[j]
<1> HIDE DEF Blocks
<1>1. Len(bs) \in Nat /\ DOMAIN bs = 1..Len(bs)
  BY Lengths
<1> QED BY <1>1, ExceptSeq, Lengths

\* One block more at the end of the list.
LEMMA MoreBlocks ==
    ASSUME NEW bs \in Seq(Blocks), NEW b \in Blocks
    PROVE  /\ Append(bs, b) \in Seq(Blocks) /\ Len(Append(bs, b)) = Len(bs) + 1
           /\ \A j \in 1..Len(bs) : Append(bs, b)[j] = bs[j]
           /\ Append(bs, b)[Len(bs) + 1] = b
<1> HIDE DEF Blocks
<1> QED BY AppendProperties

LEMMA AppendEntryIs ==
    ASSUME NEW p, p.blocks \in Seq(Blocks), p.open \in 0..Len(p.blocks), NEW e \in Entries
    PROVE  LET q == AppendEntry(p, e)
               o == p.open
               n == Len(p.blocks)
               merged == o # 0 /\ e.kind = "Observation"
               closed == o # 0 /\ e.kind \in Closers
           IN  /\ q.blocks \in Seq(Blocks)
               /\ \A j \in 1..n : j # o => q.blocks[j] = p.blocks[j]
               /\ merged \/ closed =>
                     q.blocks[o].entry = p.blocks[o].entry
                     /\ ~q.blocks[o].running /\ ~q.blocks[o].expanded
               /\ merged =>
                     /\ Len(q.blocks) = n /\ q.open = 0
                     /\ q.first = Smaller(p.first, o)
                     /\ q.blocks[o].observed = e
               /\ ~merged =>
                     /\ Len(q.blocks) = n + 1 /\ q.blocks[n + 1] = NewBlock(e)
                     /\ closed => q.blocks[o].observed = p.blocks[o].observed
                     /\ ~closed /\ o # 0 => q.blocks[o] = p.blocks[o]
                     /\ q.open = IF e.kind = "Command" THEN n + 1
                                 ELSE IF closed THEN 0 ELSE o
                     /\ q.first = Smaller(p.first, IF closed THEN o ELSE n + 1)
<1> DEFINE q == AppendEntry(p, e)
           bs == p.blocks
           o == p.open
           n == Len(bs)
           merged == o # 0 /\ e.kind = "Observation"
           closed == o # 0 /\ e.kind \in Closers
           done == [bs EXCEPT ![o] = Finish(@)]
           finished == IF merged \/ closed THEN done ELSE bs
           joined == [finished EXCEPT ![o].observed = e]
<1>0. n \in Nat /\ bs \in Seq(Blocks) /\ o \in 0..n
  BY Lengths
<1>k. e.kind = "Observation" => e.kind \notin Closers
  BY DEF Closers
<1>1. q = IF merged
          THEN [blocks |-> joined, open |-> 0, first |-> Smaller(p.first, o)]
          ELSE [blocks |-> Append(finished, NewBlock(e)),
                open   |-> IF e.kind = "Command" THEN n + 1
                           ELSE IF closed THEN 0 ELSE o,
                first  |-> Smaller(p.first, IF closed THEN o ELSE n + 1)]
  BY Zenon DEF AppendEntry
<1>2. ASSUME o # 0
      PROVE  /\ o \in 1..n /\ bs[o] \in Blocks
             /\ done = [bs EXCEPT ![o] = Finish(bs[o])]
             /\ Finish(bs[o]) \in Blocks
  <2>1. o \in 1..n
    BY <1>0, <1>2
  <2>2. bs[o] \in Blocks
    BY <1>0, <2>1, Lengths
  <2> QED BY <2>1, <2>2, BlockFields
<1>3. ASSUME o # 0
      PROVE  /\ done \in Seq(Blocks) /\ Len(done) = n
             /\ \A j \in 1..n : done[j] = IF j = o THEN Finish(bs[o]) ELSE bs[j]
  <2> HIDE DEF done, bs, o, n
  <2> QED BY <1>0, <1>2, <1>3, OtherBlock DEF n
<1> HIDE DEF q, bs, done
<1>4. CASE merged
  <2>1. finished = done
    BY <1>4
  <2>2. joined = [done EXCEPT ![o] = [done[o] EXCEPT !.observed = e]]
    BY <2>1
  <2>3. done[o] = Finish(bs[o])
    BY <1>2, <1>3, <1>4
  <2> DEFINE b == [Finish(bs[o]) EXCEPT !.observed = e]
  <2>4. joined = [done EXCEPT ![o] = b]
    BY <2>2, <2>3
  <2>5. /\ b \in Blocks /\ b.entry = bs[o].entry /\ b.observed = e
        /\ ~b.running /\ ~b.expanded
    BY <1>2, <1>4, BlockFields
  <2> HIDE DEF b, finished, joined
  <2>6. /\ joined \in Seq(Blocks) /\ Len(joined) = n
        /\ \A j \in 1..n : joined[j] = IF j = o THEN b ELSE done[j]
    BY <1>2, <1>3, <1>4, <2>4, <2>5, OtherBlock
  <2>7. q.blocks = joined /\ q.open = 0 /\ q.first = Smaller(p.first, o)
    BY <1>1, <1>4
  <2>8. /\ \A j \in 1..n : j # o => joined[j] = bs[j]
        /\ joined[o] = b
    BY <1>2, <1>3, <1>4, <2>6
  <2> QED BY <1>4, <2>5, <2>6, <2>7, <2>8 DEF q, bs
<1>5. CASE ~merged
  <2> DEFINE new == NewBlock(e)
  <2>1. new \in Blocks
    <3>1. NoEntry \in Entries
      BY DEF NoEntry, Entries
    <3> HIDE DEF Entries, NoEntry
    <3> QED BY <3>1 DEF NewBlock, Blocks
  <2>2. /\ finished \in Seq(Blocks) /\ Len(finished) = n
        /\ \A j \in 1..n : j # o => finished[j] = bs[j]
        /\ closed => finished[o] = Finish(bs[o])
        /\ ~closed => finished = bs
    BY <1>0, <1>2, <1>3, <1>5 DEF bs
  <2> HIDE DEF new, finished, joined
  <2> DEFINE more == Append(finished, new)
  <2>3. /\ more \in Seq(Blocks) /\ Len(more) = n + 1 /\ more[n + 1] = new
        /\ \A j \in 1..n : more[j] = finished[j]
    BY <2>1, <2>2, MoreBlocks
  <2> HIDE DEF more
  <2>4. /\ q.blocks = more
        /\ q.open = IF e.kind = "Command" THEN n + 1 ELSE IF closed THEN 0 ELSE o
        /\ q.first = Smaller(p.first, IF closed THEN o ELSE n + 1)
    BY <1>1, <1>5 DEF more, new
  <2>5. o # 0 => o \in 1..n /\ more[o] = finished[o]
    BY <1>2, <2>3
  <2>6. closed => /\ more[o].entry = bs[o].entry /\ more[o].observed = bs[o].observed
                  /\ ~more[o].running /\ ~more[o].expanded
    <3>1. closed => bs[o] \in Blocks /\ more[o] = Finish(bs[o])
      BY <1>2, <2>2, <2>5
    <3>2. bs[o] \in Blocks =>
             /\ Finish(bs[o]).entry = bs[o].entry
             /\ Finish(bs[o]).observed = bs[o].observed
             /\ ~Finish(bs[o]).running /\ ~Finish(bs[o]).expanded
      BY BlockFields, Zenon
    <3> QED BY <3>1, <3>2, Zenon
  <2>7. ~closed /\ o # 0 => more[o] = bs[o]
    BY <2>2, <2>5
  <2>8. \A j \in 1..n : j # o => more[j] = bs[j]
    BY <2>2, <2>3
  <2> QED BY <1>5, <2>3, <2>4, <2>6, <2>7, <2>8 DEF q, bs, new
<1> QED BY <1>4, <1>5

\* A block through one more entry: it is left as it is, its command is ended,
\* or it is given its observation.
LEMMA ShowsOneMore ==
    ASSUME NEW n \in Nat, NEW i \in 1..n, NEW b, NEW c, Shows(b, i, n), c.entry = b.entry,
           \/ /\ c = b
              /\ ~b.running \/ logs[n + 1] \notin Closers \cup {"Observation"}
           \/ /\ c.observed = b.observed /\ ~c.running
              /\ logs[n + 1] \in Closers
           \/ /\ c.observed = Entry(n + 1) /\ ~c.running /\ b.running
              /\ logs[n + 1] = "Observation"
    PROVE  Shows(c, i, n + 1)
<1>1. "Observation" \notin Closers
  BY DEF Closers
<1>2. /\ b.entry = Entry(i) /\ b.entry.place = i /\ (b.running <=> StillRuns(i, n))
      /\ ObservationOf(i, n) = {} => b.observed = NoEntry
      /\ ObservationOf(i, n) # {} => \E o \in ObservationOf(i, n) : b.observed = Entry(o)
  BY DEF Shows
<1>3. /\ ObservationOf(i, n + 1) =
             ObservationOf(i, n) \cup
             (IF StillRuns(i, n) /\ logs[n + 1] = "Observation" THEN {n + 1} ELSE {})
      /\ StillRuns(i, n + 1) <=>
             StillRuns(i, n) /\ logs[n + 1] \notin Closers \cup {"Observation"}
  BY OneMoreEntry
<1>4. c.entry = Entry(i) /\ c.entry.place = i
  BY <1>2
<1> HIDE DEF Closers, NoEntry, Entry
<1>5. CASE c = b /\ (~b.running \/ logs[n + 1] \notin Closers \cup {"Observation"})
  <2>1. ObservationOf(i, n + 1) = ObservationOf(i, n)
    BY <1>2, <1>3, <1>5
  <2>2. c.running <=> StillRuns(i, n + 1)
    BY <1>2, <1>3, <1>5, Zenon
  <2> QED BY <1>2, <1>4, <1>5, <2>1, <2>2, Zenon DEF Shows
<1>6. CASE c.observed = b.observed /\ ~c.running /\ logs[n + 1] \in Closers
  <2>1. ObservationOf(i, n + 1) = ObservationOf(i, n)
    BY <1>1, <1>3, <1>6
  <2>2. ~StillRuns(i, n + 1)
    BY <1>3, <1>6
  <2> QED BY <1>2, <1>4, <1>6, <2>1, <2>2, Zenon DEF Shows
<1>7. CASE /\ c.observed = Entry(n + 1) /\ ~c.running /\ b.running
           /\ logs[n + 1] = "Observation"
  <2>1. n + 1 \in ObservationOf(i, n + 1)
    BY <1>2, <1>3, <1>7
  <2>2. ~StillRuns(i, n + 1)
    BY <1>3, <1>7
  <2> QED BY <1>4, <1>7, <2>1, <2>2, Zenon DEF Shows
<1> QED BY <1>5, <1>6, <1>7

\* The command that runs is that of the one block that does.
LEMMA OneCommandRuns ==
    ASSUME NEW n \in Nat, NEW bs, NEW o, Merged(bs, o, n)
    PROVE  o # 0 <=> \E i \in 1..n : StillRuns(i, n)
<1>1. /\ \A i \in 1..n \ Observations(n) : \E j \in DOMAIN bs : bs[j].entry = Entry(i)
      /\ \A j \in DOMAIN bs : \E i \in 1..n \ Observations(n) : Shows(bs[j], i, n)
  BY ShowsLogIs, Zenon DEF Merged
<1>2. /\ bs \in Seq(Blocks) /\ o \in 0..Len(bs)
      /\ \A j \in DOMAIN bs : bs[j].running <=> j = o
  BY DEF Merged, OneRuns
<1>3. Len(bs) \in Nat /\ DOMAIN bs = 1..Len(bs)
  BY <1>2, Lengths
<1>4. ASSUME o # 0  PROVE \E i \in 1..n : StillRuns(i, n)
  <2>1. o \in DOMAIN bs
    BY <1>2, <1>3, <1>4
  <2>2. PICK i \in 1..n \ Observations(n) : Shows(bs[o], i, n)
    BY <1>1, <2>1
  <2>3. StillRuns(i, n)
    BY <1>2, <2>1, <2>2, Zenon DEF Shows
  <2> QED BY <2>3
<1>5. ASSUME NEW i \in 1..n, StillRuns(i, n)  PROVE o # 0
  <2>1. i \in 1..n \ Observations(n)
    BY <1>5, MoreObservations
  <2>2. PICK j \in DOMAIN bs : bs[j].entry = Entry(i)
    BY <1>1, <2>1
  <2>3. PICK k \in 1..n \ Observations(n) : Shows(bs[j], k, n)
    BY <1>1
  <2>4. k = i
    BY <2>2, <2>3 DEF Shows, Entry
  <2>5. j = o
    BY <1>2, <1>5, <2>3, <2>4, Zenon DEF Shows
  <2> QED BY <1>3, <2>5
<1> QED BY <1>4, <1>5

\* append_entry (log_block.cpp:61-96) keeps the blocks those of the log.
LEMMA EntryIsMerged ==
    ASSUME gen \in Nat, logs \in Seq(Kinds), NEW n \in Nat, n + 1 <= Len(logs),
           NEW p, Merged(p.blocks, p.open, n)
    PROVE  LET q == AppendEntry(p, Entry(n + 1)) IN Merged(q.blocks, q.open, n + 1)
<1> DEFINE e == Entry(n + 1)
           q == AppendEntry(p, e)
           bs == p.blocks
           qs == q.blocks
           o == p.open
           merged == o # 0 /\ e.kind = "Observation"
           closed == o # 0 /\ e.kind \in Closers
<1>1. e \in Entries /\ e.kind = logs[n + 1] /\ e.place = n + 1
  <2>1. logs[n + 1] \in Kinds
    BY Lengths
  <2> QED BY <2>1 DEF Entry, Entries
<1>2. /\ bs \in Seq(Blocks) /\ o \in 0..Len(bs) /\ Len(bs) \in Nat
      /\ DOMAIN bs = 1..Len(bs)
      /\ \A j \in DOMAIN bs : bs[j].running <=> j = o
  <2>1. bs \in Seq(Blocks) /\ o \in 0..Len(bs)
        /\ \A j \in DOMAIN bs : bs[j].running <=> j = o
    BY DEF Merged, OneRuns
  <2> QED BY <2>1, Lengths
<1>3. /\ \A j, k \in DOMAIN bs : j < k => bs[j].entry.place < bs[k].entry.place
      /\ \A i \in 1..n \ Observations(n) : \E j \in DOMAIN bs : bs[j].entry = Entry(i)
      /\ \A j \in DOMAIN bs : \E i \in 1..n \ Observations(n) : Shows(bs[j], i, n)
  BY ShowsLogIs, Zenon DEF Merged
<1>4. o # 0 <=> \E i \in 1..n : StillRuns(i, n)
  BY OneCommandRuns
<1>5. /\ qs \in Seq(Blocks)
      /\ \A j \in 1..Len(bs) : j # o => qs[j] = bs[j]
      /\ merged \/ closed =>
            qs[o].entry = bs[o].entry /\ ~qs[o].running /\ ~qs[o].expanded
      /\ merged => /\ Len(qs) = Len(bs) /\ q.open = 0
                   /\ qs[o].observed = e
      /\ ~merged => /\ Len(qs) = Len(bs) + 1 /\ qs[Len(bs) + 1] = NewBlock(e)
                    /\ closed => qs[o].observed = bs[o].observed
                    /\ ~closed /\ o # 0 => qs[o] = bs[o]
                    /\ q.open = IF e.kind = "Command" THEN Len(bs) + 1
                                ELSE IF closed THEN 0 ELSE o
  <2> HIDE DEF e
  <2> QED BY <1>1, <1>2, AppendEntryIs
<1>6. DOMAIN qs = 1..Len(qs)
  BY <1>5, Lengths
<1>7. /\ Observations(n) \in SUBSET (1..n)
      /\ Observations(n + 1) = Observations(n) \cup (IF merged THEN {n + 1} ELSE {})
  <2> HIDE DEF e
  <2> QED BY <1>1, <1>4, MoreObservations
<1>8. "Observation" \notin Closers /\ "Command" \in Closers
  BY DEF Closers
<1>9. ASSUME NEW j \in DOMAIN bs  PROVE qs[j].entry = bs[j].entry
  <2> HIDE DEF e, q
  <2>1. CASE j = o
    <3>1. o # 0
      BY <1>2, <2>1
    <3> QED BY <1>5, <2>1, <3>1
  <2>2. CASE j # o
    BY <1>2, <1>5, <2>2
  <2> QED BY <2>1, <2>2
<1>10. ASSUME NEW j \in DOMAIN bs, NEW i \in 1..n, Shows(bs[j], i, n)
       PROVE  Shows(qs[j], i, n + 1)
  <2> DEFINE b == bs[j]
             c == qs[j]
  <2>1. \/ /\ c = b
           /\ ~b.running \/ e.kind \notin Closers \cup {"Observation"}
        \/ /\ c.observed = b.observed /\ ~c.running
           /\ e.kind \in Closers
        \/ /\ c.observed = e /\ ~c.running /\ b.running
           /\ e.kind = "Observation"
    <3> HIDE DEF e, q
    <3>1. CASE j # o
      BY <1>2, <1>5, <3>1
    <3>2. CASE j = o
      <4>1. o # 0 /\ b.running
        BY <1>2, <3>2
      <4> QED BY <1>5, <3>2, <4>1
    <3> QED BY <3>1, <3>2
  <2>2. c.entry = b.entry
    BY <1>9
  <2>3. \/ /\ c = b
           /\ ~b.running \/ logs[n + 1] \notin Closers \cup {"Observation"}
        \/ /\ c.observed = b.observed /\ ~c.running
           /\ logs[n + 1] \in Closers
        \/ /\ c.observed = Entry(n + 1) /\ ~c.running /\ b.running
           /\ logs[n + 1] = "Observation"
    <3> HIDE DEF q
    <3>1. e = Entry(n + 1)
      OBVIOUS
    <3> HIDE DEF e
    <3> QED BY <1>1, <2>1, <3>1, Zenon
  <2> HIDE DEF b, c
  <2>4. Shows(b, i, n)
    BY <1>10 DEF b
  <2>5. Shows(c, i, n + 1)
    BY <2>2, <2>3, <2>4, ShowsOneMore
  <2> QED BY <2>5 DEF c
<1>11. \A j \in DOMAIN bs : bs[j].entry.place \in 1..n
  BY <1>3 DEF Shows
<1>12. CASE merged
  <2>1. DOMAIN qs = DOMAIN bs /\ 1..n+1 \ Observations(n + 1) = 1..n \ Observations(n)
    <3>1. Len(qs) = Len(bs)
      BY <1>5, <1>12
    <3>2. Observations(n + 1) = Observations(n) \cup {n + 1} /\ n + 1 \notin 1..n
      BY <1>7, <1>12
    <3>3. 1..n+1 = (1..n) \cup {n + 1}
      OBVIOUS
    <3> QED BY <1>2, <1>6, <3>1, <3>2, <3>3
  <2>2. OneRuns(qs, q.open)
    <3>1. \A j \in DOMAIN qs : ~qs[j].running
      BY <1>2, <1>5, <1>12, <2>1
    <3>2. q.open = 0
      BY <1>5, <1>12
    <3>3. 0 \notin DOMAIN qs /\ Len(qs) \in Nat
      BY <1>5, <1>6, Lengths
    <3> HIDE DEF q
    <3> QED BY <1>5, <3>1, <3>2, <3>3 DEF OneRuns
  <2>3. ShowsLog(qs, n + 1)
    <3>1. \A j, k \in DOMAIN qs : j < k => qs[j].entry.place < qs[k].entry.place
      BY <1>3, <1>9, <2>1
    <3>2. \A i \in 1..n+1 \ Observations(n + 1) : \E j \in DOMAIN qs : qs[j].entry = Entry(i)
      BY <1>3, <1>9, <2>1
    <3>3. \A j \in DOMAIN qs : \E i \in 1..n+1 \ Observations(n + 1) : Shows(qs[j], i, n + 1)
      <4> HIDE DEF q
      <4> QED BY <1>3, <1>10, <2>1
    <3> HIDE DEF q
    <3> QED BY <3>1, <3>2, <3>3, ShowsLogIs
  <2> QED BY <2>2, <2>3, Zenon DEF Merged
<1>13. CASE ~merged
  <2> DEFINE m == Len(bs) + 1
  <2>1. /\ DOMAIN qs = (DOMAIN bs) \cup {m} /\ m \notin DOMAIN bs /\ m \in Nat
        /\ \A j \in DOMAIN bs : j < m
        /\ 1..n+1 \ Observations(n + 1) = (1..n \ Observations(n)) \cup {n + 1}
        /\ n + 1 \notin Observations(n)
    <3>1. Len(qs) = m
      BY <1>5, <1>13
    <3>2. Observations(n + 1) = Observations(n) /\ n + 1 \notin 1..n
      BY <1>7, <1>13
    <3>3. 1..n+1 = (1..n) \cup {n + 1}
      OBVIOUS
    <3>4. 1..m = (1..Len(bs)) \cup {m} /\ m \notin 1..Len(bs) /\ m \in Nat
      BY <1>2
    <3>5. \A j \in 1..Len(bs) : j < m
      BY <1>2
    <3> HIDE DEF q
    <3> QED BY <1>2, <1>6, <1>7, <3>1, <3>2, <3>3, <3>4, <3>5
  <2>2. /\ qs[m] = NewBlock(e) /\ qs[m].entry = e /\ qs[m].observed = NoEntry
        /\ qs[m].running <=> e.kind = "Command"
    <3>1. qs[m] = NewBlock(e)
      BY <1>5, <1>13
    <3>2. /\ NewBlock(e).entry = e /\ NewBlock(e).observed = NoEntry
          /\ NewBlock(e).running <=> e.kind = "Command"
      <4> HIDE DEF e
      <4>1. PICK b \in Blocks : TRUE
        <5>1. NoEntry \in Entries
          BY DEF NoEntry, Entries
        <5>2. [entry |-> NoEntry, observed |-> NoEntry, expanded |-> TRUE,
               running |-> TRUE] \in Blocks
          BY <5>1 DEF Blocks
        <5> QED BY <5>2
      <4> QED BY <1>1, <4>1, BlockFields
    <3> HIDE DEF q, e, m
    <3> QED BY <3>1, <3>2
  <2>3. \A j \in DOMAIN bs : qs[j].running <=> (j = o /\ e.kind \notin Closers)
    <3> HIDE DEF q, e
    <3> QED BY <1>2, <1>5, <1>13
  <2>4. q.open = IF e.kind = "Command" THEN m
                 ELSE IF closed THEN 0 ELSE o
    BY <1>5, <1>13
  <2>5. OneRuns(qs, q.open)
    <3>1. Len(qs) = m
      BY <1>5, <1>13
    <3>2. q.open \in 0..m
      <4> HIDE DEF q, e
      <4> QED BY <1>2, <2>4
    <3>3. \A j \in DOMAIN bs : qs[j].running <=> j = q.open
      <4> HIDE DEF q, e
      <4> QED BY <1>2, <1>8, <2>1, <2>3, <2>4
    <3>4. qs[m].running <=> m = q.open
      <4> HIDE DEF q, e
      <4> QED BY <1>2, <1>8, <2>1, <2>2, <2>4
    <3>5. \A j \in DOMAIN qs : qs[j].running <=> j = q.open
      <4> HIDE DEF q, e, m
      <4> QED BY <2>1, <3>3, <3>4
    <3> HIDE DEF q, e, m
    <3> QED BY <1>5, <3>1, <3>2, <3>5 DEF OneRuns
  <2>6. ShowsLog(qs, n + 1)
    <3> HIDE DEF m
    <3>1. \A j, k \in DOMAIN qs : j < k => qs[j].entry.place < qs[k].entry.place
      <4>1. \A j \in DOMAIN bs : qs[j].entry.place \in 1..n /\ qs[m].entry.place = n + 1
        <5> HIDE DEF q, e
        <5> QED BY <1>1, <1>9, <1>11, <2>2
      <4>2. \A j, k \in DOMAIN bs : j < k => qs[j].entry.place < qs[k].entry.place
        BY <1>3, <1>9
      <4>3. \A j \in DOMAIN bs : ~(m < j) /\ ~(m < m)
        BY <1>2, <2>1
      <4>4. \A x \in 1..n : x < n + 1
        OBVIOUS
      <4> HIDE DEF q, bs
      <4> QED BY <2>1, <4>1, <4>2, <4>3, <4>4
    <3>2. \A i \in 1..n+1 \ Observations(n + 1) : \E j \in DOMAIN qs : qs[j].entry = Entry(i)
      <4>1. \A i \in 1..n \ Observations(n) : \E j \in DOMAIN qs : qs[j].entry = Entry(i)
        BY <1>3, <1>9, <2>1
      <4>2. qs[m].entry = Entry(n + 1) /\ m \in DOMAIN qs
        BY <2>1, <2>2
      <4> HIDE DEF q
      <4> QED BY <2>1, <4>1, <4>2
    <3>3. Shows(qs[m], n + 1, n + 1)
      <4>1. qs[m].running <=> StillRuns(n + 1, n + 1)
        BY <1>1, <2>2, NewEntry
      <4>2. ObservationOf(n + 1, n + 1) = {}
        BY NewEntry
      <4>3. qs[m].entry = Entry(n + 1) /\ qs[m].entry.place = n + 1
        BY <1>1, <2>2
      <4> HIDE DEF q, e
      <4> QED BY <2>2, <4>1, <4>2, <4>3 DEF Shows
    <3>4. \A j \in DOMAIN qs : \E i \in 1..n+1 \ Observations(n + 1) : Shows(qs[j], i, n + 1)
      <4> HIDE DEF q
      <4>1. ASSUME NEW j \in DOMAIN bs
            PROVE  \E i \in 1..n+1 \ Observations(n + 1) : Shows(qs[j], i, n + 1)
        <5>1. PICK i \in 1..n \ Observations(n) : Shows(bs[j], i, n)
          BY <1>3
        <5>2. Shows(qs[j], i, n + 1)
          BY <1>10, <5>1
        <5> QED BY <2>1, <5>1, <5>2
      <4>2. n + 1 \in 1..n+1 \ Observations(n + 1)
        BY <2>1
      <4> QED BY <2>1, <3>3, <4>1, <4>2
    <3> HIDE DEF q
    <3> QED BY <3>1, <3>2, <3>4, ShowsLogIs
  <2> QED BY <2>5, <2>6, Zenon DEF Merged
<1> QED BY <1>12, <1>13

\* What an append changed of the blocks bs: from its first change on, and only
\* a command that ran, which is folded.
ChangedFrom(bs, p) ==
    /\ Len(bs) <= Len(p.blocks) /\ p.first \in 1..Len(bs)+1
    /\ \A j \in 1..Len(bs) :
          /\ p.blocks[j].entry = bs[j].entry
          /\ j < p.first => p.blocks[j] = bs[j]
          /\ \/ p.blocks[j] = bs[j]
             \/ bs[j].running /\ ~p.blocks[j].running /\ ~p.blocks[j].expanded

LEMMA EntryChanges ==
    ASSUME NEW bs \in Seq(Blocks), NEW p, NEW e \in Entries,
           OneRuns(p.blocks, p.open), ChangedFrom(bs, p)
    PROVE  LET q == AppendEntry(p, e)
           IN  ChangedFrom(bs, q) /\ q.first <= Len(q.blocks)
<1> DEFINE q == AppendEntry(p, e)
           ps == p.blocks
           qs == q.blocks
           o == p.open
           merged == o # 0 /\ e.kind = "Observation"
           closed == o # 0 /\ e.kind \in Closers
<1>1. /\ ps \in Seq(Blocks) /\ o \in 0..Len(ps) /\ Len(ps) \in Nat /\ Len(bs) \in Nat
      /\ \A j \in 1..Len(ps) : ps[j].running <=> j = o
  <2>1. ps \in Seq(Blocks) /\ o \in 0..Len(ps)
        /\ \A j \in DOMAIN ps : ps[j].running <=> j = o
    BY DEF OneRuns
  <2>2. DOMAIN ps = 1..Len(ps) /\ Len(ps) \in Nat /\ Len(bs) \in Nat
    BY <2>1, Lengths
  <2> QED BY <2>1, <2>2
<1>2. /\ \A j \in 1..Len(ps) : j # o => qs[j] = ps[j]
      /\ merged \/ closed =>
            qs[o].entry = ps[o].entry /\ ~qs[o].running /\ ~qs[o].expanded
      /\ merged => Len(qs) = Len(ps) /\ q.first = Smaller(p.first, o)
      /\ ~merged => /\ Len(qs) = Len(ps) + 1
                    /\ ~closed /\ o # 0 => qs[o] = ps[o]
                    /\ q.first = Smaller(p.first, IF closed THEN o ELSE Len(ps) + 1)
  BY <1>1, AppendEntryIs
<1>3. /\ Len(bs) <= Len(ps) /\ p.first \in 1..Len(bs)+1
      /\ \A j \in 1..Len(bs) :
            /\ ps[j].entry = bs[j].entry
            /\ j < p.first => ps[j] = bs[j]
            /\ ps[j] = bs[j] \/ (bs[j].running /\ ~ps[j].running /\ ~ps[j].expanded)
  BY DEF ChangedFrom
<1> HIDE DEF q, ps
<1>4. /\ Len(bs) <= Len(qs) /\ q.first \in 1..Len(bs)+1 /\ q.first <= Len(qs)
      /\ q.first <= p.first /\ (merged \/ closed => q.first <= o)
  BY <1>1, <1>2, <1>3 DEF Smaller
<1>5. ASSUME NEW j \in 1..Len(bs)
      PROVE  /\ qs[j].entry = bs[j].entry
             /\ j < q.first => qs[j] = bs[j]
             /\ qs[j] = bs[j] \/ (bs[j].running /\ ~qs[j].running /\ ~qs[j].expanded)
  <2>1. j \in 1..Len(ps)
    BY <1>1, <1>3
  <2>2. CASE qs[j] = ps[j]
    <3>1. j < q.first => j < p.first
      BY <1>1, <1>3, <1>4
    <3> QED BY <1>3, <2>2, <3>1
  <2>3. CASE qs[j] # ps[j]
    <3>1. j = o /\ (merged \/ closed)
      <4>1. j = o
        BY <1>2, <2>1, <2>3
      <4>2. o # 0
        BY <4>1
      <4> QED BY <1>2, <2>3, <4>1, <4>2, Zenon
    <3>2. qs[j].entry = ps[j].entry /\ ~qs[j].running /\ ~qs[j].expanded
      BY <1>2, <3>1, Zenon
    <3>3. ~(j < q.first)
      BY <1>3, <1>4, <3>1
    <3>4. ps[j].running
      BY <1>1, <2>1, <3>1
    <3> QED BY <1>3, <3>2, <3>3, <3>4, Zenon
  <2> QED BY <2>2, <2>3
<1>6. ChangedFrom(bs, q) /\ q.first <= Len(q.blocks)
  BY <1>4, <1>5, Zenon DEF ChangedFrom
<1> QED BY <1>6 DEF q

\* append (log_block.cpp:29-39), on what the log has beyond the first k
\* entries.
LEMMA NewsAre ==
    ASSUME gen \in Nat, logs \in Seq(Kinds), NEW k \in 0..Len(logs)
    PROVE  LET es == [i \in 1..(Len(logs) - k) |-> Entry(i + k)]
           IN  /\ Len(es) = Len(logs) - k
               /\ \A i \in 1..(Len(logs) - k) : es[i] = Entry(i + k)
<1> DEFINE m == Len(logs) - k
           es == [i \in 1..m |-> Entry(i + k)]
<1>1. Len(logs) \in Nat /\ m \in Nat
  BY Lengths
<1>2. ASSUME NEW i \in 1..m  PROVE Entry(i + k) \in Entries
  <2>1. logs[i + k] \in Kinds /\ i + k \in Nat
    BY <1>1, Lengths
  <2> QED BY <2>1 DEF Entry, Entries
<1>3. es \in [1..m -> Entries]
  <2> HIDE DEF Entries, Entry, m
  <2> QED BY <1>2
<1>4. Len(es) = m
  <2> HIDE DEF es, m
  <2> QED BY <1>1, <1>3, FunctionIsSeq
<1> QED BY <1>4

LEMMA EntriesAreMerged ==
    ASSUME gen \in Nat, logs \in Seq(Kinds), NEW k \in 0..Len(logs),
           NEW bs, NEW o, Merged(bs, o, k), NEW es, Len(es) = Len(logs) - k,
           \A i \in 1..(Len(logs) - k) : es[i] = Entry(i + k)
    PROVE  LET p == AppendEntries(bs, o, es)
           IN  /\ Merged(p.blocks, p.open, Len(logs))
               /\ ChangedFrom(bs, p)
               /\ k < Len(logs) => p.first <= Len(p.blocks)
               /\ k = Len(logs) => p.blocks = bs /\ p.open = o
<1> DEFINE m == Len(logs) - k
<1>1. Len(logs) \in Nat /\ m \in Nat /\ k + m = Len(logs)
  BY Lengths
<1>2. bs \in Seq(Blocks) /\ Len(bs) \in Nat
  <2>1. bs \in Seq(Blocks)
    BY DEF Merged, OneRuns
  <2> QED BY <2>1, Lengths
<1>3. \A i \in 1..m : Entry(k + i) \in Entries /\ es[i] = Entry(k + i)
  <2>1. ASSUME NEW i \in 1..m  PROVE Entry(k + i) \in Entries
    <3>1. logs[k + i] \in Kinds /\ k + i \in Nat
      BY <1>1, Lengths
    <3> QED BY <3>1 DEF Entry, Entries
  <2>2. \A i \in 1..m : k + i = i + k
    OBVIOUS
  <2> HIDE DEF Entries, Entry
  <2> QED BY <2>1, <2>2
<1>4. Len(es) = m
  OBVIOUS
<1>5. PICK p : /\ AppendEntries(bs, o, es) = p[m]
               /\ p[0] = [blocks |-> bs, open |-> o, first |-> Len(bs) + 1]
               /\ \A i \in 1..m : p[i] = AppendEntry(p[i - 1], es[i])
  <2> HIDE DEF m
  <2>1. Len(es) \in Nat
    BY <1>1, <1>4
  <2>2. PICK p : Appends(p, bs, o, es)
    BY <2>1, AppendingIs
  <2> QED BY <1>4, <2>2, Zenon DEF Appends
<1> DEFINE Good(i) == /\ Merged(p[i].blocks, p[i].open, k + i)
                      /\ ChangedFrom(bs, p[i])
                      /\ i # 0 => p[i].first <= Len(p[i].blocks)
           P == {i \in 0..m : Good(i)}
<1>6. Good(0)
  <2>1. p[0].blocks = bs /\ p[0].open = o /\ p[0].first = Len(bs) + 1 /\ k + 0 = k
    BY <1>5
  <2>2. ChangedFrom(bs, p[0])
    BY <1>2, <2>1 DEF ChangedFrom
  <2> QED BY <2>1, <2>2
<1>7. ASSUME NEW i \in 1..m, Good(i - 1)  PROVE Good(i)
  <2>1. p[i] = AppendEntry(p[i - 1], Entry(k + i))
    BY <1>3, <1>5
  <2>2. PICK j \in Nat : j = k + i - 1 /\ j + 1 = k + i /\ j = k + (i - 1) /\ j + 1 <= Len(logs)
    BY <1>1
  <2>3. Merged(p[i].blocks, p[i].open, k + i)
    <3>1. Merged(p[i - 1].blocks, p[i - 1].open, j)
      BY <1>7, <2>2
    <3> HIDE DEF Good
    <3> QED BY <2>1, <2>2, <3>1, EntryIsMerged
  <2>4. ChangedFrom(bs, p[i]) /\ p[i].first <= Len(p[i].blocks)
    <3>1. OneRuns(p[i - 1].blocks, p[i - 1].open) /\ ChangedFrom(bs, p[i - 1])
      BY <1>7 DEF Merged
    <3> HIDE DEF Good
    <3> QED BY <1>2, <1>3, <2>1, <3>1, EntryChanges
  <2> QED BY <2>3, <2>4
<1>8. m \in P
  <2> HIDE DEF Good, m
  <2>1. 0 \in P
    BY <1>1, <1>6
  <2>2. \A i \in 1..m : i - 1 \in P => i \in P
    BY <1>1, <1>7
  <2>3. P \in SUBSET (0..m) /\ m \in 0..m
    BY <1>1
  <2> HIDE DEF P
  <2> QED BY <1>1, <2>1, <2>2, <2>3, UpTo
<1>9. Good(m)
  BY <1>8
<1>10. k = Len(logs) => p[m].blocks = bs /\ p[m].open = o
  <2>1. k = Len(logs) => m = 0
    OBVIOUS
  <2> HIDE DEF m
  <2> QED BY <1>5, <2>1
<1>11. k < Len(logs) => m # 0
  <2> HIDE DEF m
  <2> QED BY <1>1
<1> QED
  <2> HIDE DEF m
  <2> QED BY <1>1, <1>5, <1>9, <1>10, <1>11

-----------------------------------------------------------------------------
(***************************************************************************)
(* The lines. LaidOut says that ls are the lines of the first m blocks,    *)
(* O[j] those of block j, one after the other, and that block j starts at  *)
(* sts[j]. Every line belongs to a block.                                  *)
(***************************************************************************)
DisplayLines ==
    {<<i, "Heading", e, expanded, running>> :
        i \in Nat, e \in Entries, expanded \in BOOLEAN, running \in BOOLEAN}
    \cup {<<i, "Content", e, row>> : i \in Nat, e \in Entries, row \in Nat}

Parts(O, m) == \A j \in 1..m : O[j] \in Seq(DisplayLines) /\ Len(O[j]) > 0

Sizes(O, m) == [j \in 1..m |-> Len(O[j])]

\* Intervals of these sizes, from sts[j] on, are the numbers below x.
Tiles(sts, size, m, x) ==
    /\ m = 0 => x = 0
    /\ m # 0 => sts[1] = 0
    /\ \A j \in 1..m : /\ sts[j] + size[j] = IF j = m THEN x ELSE sts[j + 1]
                       /\ sts[j] + size[j] <= x
    /\ \A j, k \in 1..m : j < k => sts[j] + size[j] <= sts[k]
    /\ \A i \in 1..x : \E j \in 1..m : sts[j] < i /\ i <= sts[j] + size[j]

LaidOut(ls, sts, O, m) ==
    /\ ls \in Seq(DisplayLines) /\ sts \in Seq(Nat) /\ Len(sts) = m
    /\ Tiles(sts, Sizes(O, m), m, Len(ls))
    /\ \A j \in 1..m : \A k \in 1..Len(O[j]) : ls[sts[j] + k] = O[j][k]

LEMMA ShiftedSum ==
    ASSUME NEW x \in Nat, NEW p \in Nat, NEW q \in Nat
    PROVE  (x + p) + q = x + (p + q)
OBVIOUS

LEMMA Shifted ==
    ASSUME NEW x \in Nat, NEW p \in Nat, NEW q \in Nat, NEW r \in Nat
    PROVE  /\ p + q = r => (x + p) + q = x + r
           /\ p + q <= r => (x + p) + q <= x + r
           /\ p <= x => p <= x + r
           /\ \A i \in Int : p < i - x => x + p < i
           /\ \A i \in Int : i - x <= p + q => i <= (x + p) + q
OBVIOUS

TilesJoin(s, z, sa, za, a, sb, zb, b, x) ==
    /\ \A j \in 1..a : s[j] = sa[j] /\ z[j] = za[j]
    /\ \A j \in 1..b : s[a + j] = x + sb[j] /\ z[a + j] = zb[j]

\* The numbers below x and then the next y.
LEMMA TilesJoined ==
    ASSUME NEW a \in Nat, NEW b \in Nat, NEW x \in Nat, NEW y \in Nat,
           NEW sa \in [1..a -> Nat], NEW za \in [1..a -> Nat], Tiles(sa, za, a, x),
           NEW sb \in [1..b -> Nat], NEW zb \in [1..b -> Nat], Tiles(sb, zb, b, y),
           NEW n \in Nat, n = a + b,
           NEW s \in [1..n -> Nat], NEW z \in [1..n -> Nat],
           TilesJoin(s, z, sa, za, a, sb, zb, b, x)
    PROVE  Tiles(s, z, n, x + y)
<1>0. /\ \A j \in 1..a : s[j] = sa[j] /\ z[j] = za[j]
      /\ \A j \in 1..b : s[a + j] = x + sb[j] /\ z[a + j] = zb[j]
  BY DEF TilesJoin
<1> USE <1>0
<1>1. /\ a = 0 => x = 0
      /\ a # 0 => sa[1] = 0
      /\ \A j \in 1..a : /\ sa[j] + za[j] = IF j = a THEN x ELSE sa[j + 1]
                         /\ sa[j] + za[j] <= x
      /\ \A j, k \in 1..a : j < k => sa[j] + za[j] <= sa[k]
      /\ \A i \in 1..x : \E j \in 1..a : sa[j] < i /\ i <= sa[j] + za[j]
  BY DEF Tiles
<1>2. /\ b = 0 => y = 0
      /\ b # 0 => sb[1] = 0
      /\ \A j \in 1..b : /\ sb[j] + zb[j] = IF j = b THEN y ELSE sb[j + 1]
                         /\ sb[j] + zb[j] <= y
      /\ \A j, k \in 1..b : j < k => sb[j] + zb[j] <= sb[k]
      /\ \A i \in 1..y : \E j \in 1..b : sb[j] < i /\ i <= sb[j] + zb[j]
  BY DEF Tiles
<1>3. \A j \in 1..n : j \in 1..a \/ (j - a \in 1..b /\ j = a + (j - a))
  OBVIOUS
<1>4. ASSUME NEW j \in 1..n
      PROVE  /\ s[j] + z[j] = IF j = n THEN x + y ELSE s[j + 1]
             /\ s[j] + z[j] <= x + y
  <2>1. CASE j \in 1..a
    <3>1. s[j] + z[j] = (IF j = a THEN x ELSE sa[j + 1]) /\ s[j] + z[j] <= x
      BY <1>1, <2>1
    <3>2. CASE j # a
      <4>1. j + 1 \in 1..a
        BY <2>1, <3>2
      <4> QED BY <2>1, <3>1, <3>2, <4>1
    <3>3. CASE j = a /\ b = 0
      BY <1>1, <1>2, <3>1, <3>3
    <3>4. CASE j = a /\ b # 0
      <4>1. s[a + 1] = x + sb[1] /\ sb[1] = 0
        BY <1>2, <3>4
      <4> QED BY <3>1, <3>4, <4>1
    <3> QED BY <3>2, <3>3, <3>4
  <2>2. ASSUME NEW i \in 1..b, j = a + i
        PROVE  /\ s[j] + z[j] = IF j = n THEN x + y ELSE s[j + 1]
               /\ s[j] + z[j] <= x + y
    <3>1. s[j] = x + sb[i] /\ z[j] = zb[i]
      BY <2>2
    <3>2. sb[i] + zb[i] = (IF i = b THEN y ELSE sb[i + 1]) /\ sb[i] + zb[i] <= y
      BY <1>2
    <3>t. sb[i] \in Nat /\ zb[i] \in Nat
      OBVIOUS
    <3>l. s[j] + z[j] <= x + y
      BY <3>1, <3>2, <3>t, Shifted
    <3>3. CASE i = b
      <4>0. sb[i] + zb[i] = y
        BY <3>2, <3>3, Zenon
      <4>1. s[j] + z[j] = x + y
        <5>2. (x + sb[i]) + zb[i] = x + y
          <6>1. (x + sb[i]) + zb[i] = x + (sb[i] + zb[i])
            BY <3>t, ShiftedSum, Zenon
          <6> QED BY <4>0, <6>1, Zenon
        <5> QED BY <3>1, <5>2, Zenon
      <4>2. j = n
        BY <2>2, <3>3
      <4> QED BY <3>l, <4>1, <4>2
    <3>4. CASE i # b
      <4>1. i + 1 \in 1..b /\ j + 1 = a + (i + 1)
        BY <2>2, <3>4
      <4>2. s[j + 1] = x + sb[i + 1]
        BY <4>1
      <4>3. sb[i + 1] \in Nat /\ sb[i] + zb[i] = sb[i + 1]
        BY <3>2, <3>4, <4>1
      <4>4. s[j] + z[j] = s[j + 1]
        BY <3>1, <3>t, <4>2, <4>3, Shifted
      <4>5. j # n
        BY <2>2, <3>4
      <4> QED BY <3>l, <4>4, <4>5
    <3> QED BY <3>3, <3>4
  <2> QED BY <1>3, <2>1, <2>2
<1>5. ASSUME NEW j \in 1..n, NEW k \in 1..n, j < k
      PROVE  s[j] + z[j] <= s[k]
  <2>1. CASE k \in 1..a
    <3>1. j \in 1..a
      BY <1>5, <2>1
    <3> QED BY <1>1, <1>5, <2>1, <3>1
  <2>2. CASE k \notin 1..a
    <3>1. k - a \in 1..b /\ k = a + (k - a)
      BY <1>3, <2>2
    <3>2. s[k] = x + sb[k - a]
      BY <3>1
    <3>3. CASE j \in 1..a
      <4>1. s[j] + z[j] <= x
        BY <1>1, <3>3
      <4>2. sb[k - a] \in Nat /\ s[j] + z[j] \in Nat
        BY <3>1
      <4>3. s[j] + z[j] <= x + sb[k - a]
        <5>1. ASSUME NEW p \in Nat, NEW r \in Nat, p <= x  PROVE p <= x + r
          BY <5>1, Shifted, Zenon
        <5> QED BY <4>1, <4>2, <5>1, Zenon
      <4> QED BY <3>2, <4>3, Zenon
    <3>4. CASE j \notin 1..a
      <4>1. j - a \in 1..b /\ j = a + (j - a) /\ j - a < k - a
        BY <1>3, <1>5, <3>4
      <4>2. s[j] = x + sb[j - a] /\ z[j] = zb[j - a]
        BY <4>1
      <4>3. sb[j - a] + zb[j - a] <= sb[k - a]
        BY <1>2, <3>1, <4>1
      <4>4. sb[j - a] \in Nat /\ zb[j - a] \in Nat /\ sb[k - a] \in Nat
        BY <3>1, <4>1
      <4>5. (x + sb[j - a]) + zb[j - a] <= x + sb[k - a]
        BY <4>3, <4>4, Shifted
      <4> QED BY <3>2, <4>2, <4>5, Zenon
    <3> QED BY <3>3, <3>4
  <2> QED BY <2>1, <2>2
<1>6. ASSUME NEW i \in 1..x+y
      PROVE  \E j \in 1..n : s[j] < i /\ i <= s[j] + z[j]
  <2>1. CASE i <= x
    <3>0. i \in 1..x
      BY <2>1
    <3>1. PICK j \in 1..a : sa[j] < i /\ i <= sa[j] + za[j]
      BY <1>1, <3>0
    <3>2. j \in 1..n /\ s[j] = sa[j] /\ z[j] = za[j]
      OBVIOUS
    <3> QED BY <3>1, <3>2
  <2>2. CASE ~(i <= x)
    <3>1. i - x \in 1..y
      BY <2>2
    <3>2. PICK j \in 1..b : sb[j] < i - x /\ i - x <= sb[j] + zb[j]
      BY <1>2, <3>1
    <3>3. a + j \in 1..n /\ s[a + j] = x + sb[j] /\ z[a + j] = zb[j]
      OBVIOUS
    <3>4. s[a + j] < i /\ i <= s[a + j] + z[a + j]
      BY <3>2, <3>3
    <3> QED BY <3>3, <3>4
  <2> QED BY <2>1, <2>2
<1>7. n = 0 => x + y = 0
  BY <1>1, <1>2
<1>8. n # 0 => s[1] = 0
  <2>1. CASE a # 0
    BY <1>1, <2>1
  <2>2. CASE a = 0 /\ b # 0
    <3>1. s[a + 1] = x + sb[1] /\ a + 1 = 1
      BY <2>2
    <3> QED BY <1>1, <1>2, <2>2, <3>1
  <2> QED BY <2>1, <2>2
<1> QED BY <1>4, <1>5, <1>6, <1>7, <1>8, Zenon DEF Tiles

LEMMA LaidNumbers ==
    ASSUME NEW m \in Nat, NEW O, Parts(O, m), NEW ls, NEW sts, LaidOut(ls, sts, O, m)
    PROVE  /\ ls \in Seq(DisplayLines) /\ sts \in Seq(Nat) /\ Len(sts) = m
           /\ Len(ls) \in Nat
           /\ sts \in [1..m -> Nat] /\ Sizes(O, m) \in [1..m -> Nat]
           /\ \A j \in 1..m : /\ sts[j] \in Nat
                              /\ Len(O[j]) \in Nat /\ Len(O[j]) > 0
                              /\ Sizes(O, m)[j] = Len(O[j])
                              /\ sts[j] + Len(O[j]) <= Len(ls)
<1>1. ls \in Seq(DisplayLines) /\ sts \in Seq(Nat) /\ Len(sts) = m
  BY DEF LaidOut
<1>2. Len(ls) \in Nat /\ sts \in [1..m -> Nat]
  BY <1>1, LenProperties
<1>3. \A j \in 1..m : O[j] \in Seq(DisplayLines) /\ Len(O[j]) > 0
  BY DEF Parts
<1>4. \A j \in 1..m : Len(O[j]) \in Nat
  BY <1>3, Lengths
<1>5. Sizes(O, m) \in [1..m -> Nat] /\ \A j \in 1..m : Sizes(O, m)[j] = Len(O[j])
  BY <1>4 DEF Sizes
<1>6. \A j \in 1..m : sts[j] + Sizes(O, m)[j] <= Len(ls)
  BY Zenon DEF LaidOut, Tiles
<1> QED BY <1>1, <1>2, <1>3, <1>4, <1>5, <1>6

\* Q is O from a + 1 on; sc are the numbers of sa and then those of sb, x later.
Continues(Q, O, a, b) == \A j \in 1..b : Q[j] = O[a + j]

StartsJoin(sc, sa, a, sb, b, x) ==
    /\ sc \in Seq(Nat) /\ Len(sc) = a + b
    /\ \A j \in 1..a : sc[j] = sa[j]
    /\ \A j \in 1..b : sc[a + j] = x + sb[j]

\* Lines that are A and then B, with B's blocks after A's.
LEMMA LaidJoined ==
    ASSUME NEW a \in Nat, NEW b \in Nat, NEW O, Parts(O, a + b),
           NEW A, NEW sa, LaidOut(A, sa, O, a),
           NEW Q, Continues(Q, O, a, b),
           NEW B, NEW sb, LaidOut(B, sb, Q, b),
           NEW sc, StartsJoin(sc, sa, a, sb, b, Len(A))
    PROVE  LaidOut(A \o B, sc, O, a + b)
<1>1. Parts(O, a) /\ Parts(Q, b)
  <2>1. \A j \in 1..b : a + j \in 1..a+b
    OBVIOUS
  <2>2. \A j \in 1..a : j \in 1..a+b
    OBVIOUS
  <2> QED BY <2>1, <2>2 DEF Parts, Continues
<1> DEFINE C == A \o B
           n == a + b
           x == Len(A)
           y == Len(B)
<1>2. /\ A \in Seq(DisplayLines) /\ x \in Nat
      /\ sa \in [1..a -> Nat] /\ Sizes(O, a) \in [1..a -> Nat]
      /\ \A j \in 1..a : /\ sa[j] \in Nat /\ Len(O[j]) \in Nat
                         /\ Sizes(O, a)[j] = Len(O[j])
                         /\ sa[j] + Len(O[j]) <= x
  BY <1>1, LaidNumbers
<1>3. /\ B \in Seq(DisplayLines) /\ y \in Nat
      /\ sb \in [1..b -> Nat] /\ Sizes(Q, b) \in [1..b -> Nat]
      /\ \A j \in 1..b : /\ sb[j] \in Nat /\ Len(Q[j]) \in Nat
                         /\ Sizes(Q, b)[j] = Len(Q[j])
                         /\ sb[j] + Len(Q[j]) <= y
  BY <1>1, LaidNumbers
<1>4. /\ C \in Seq(DisplayLines) /\ Len(C) = x + y
      /\ \A i \in 1..x : C[i] = A[i]
      /\ \A i \in 1..y : C[x + i] = B[i]
  <2>1. /\ C \in Seq(DisplayLines) /\ Len(C) = x + y
        /\ \A i \in 1..x+y : C[i] = IF i <= x THEN A[i] ELSE B[i - x]
    BY <1>2, <1>3, ConcatProperties
  <2> HIDE DEF x, y, C
  <2>2. \A i \in 1..x : i \in 1..x+y /\ i <= x
    BY <1>2, <1>3
  <2>3. \A i \in 1..y : x + i \in 1..x+y /\ ~(x + i <= x) /\ (x + i) - x = i
    BY <1>2, <1>3
  <2> QED BY <2>1, <2>2, <2>3
<1>5. /\ n \in Nat /\ sc \in [1..n -> Nat] /\ Sizes(O, n) \in [1..n -> Nat]
      /\ \A j \in 1..n : Sizes(O, n)[j] = Len(O[j])
  <2>1. sc \in [1..n -> Nat]
    <3>1. sc \in Seq(Nat) /\ Len(sc) = n
      BY DEF StartsJoin
    <3> HIDE DEF n
    <3> QED BY <3>1, LenProperties
  <2>2. \A j \in 1..n : Len(O[j]) \in Nat
    BY Lengths DEF Parts
  <2> QED BY <2>1, <2>2 DEF Sizes
<1>6. Tiles(sa, Sizes(O, a), a, x) /\ Tiles(sb, Sizes(Q, b), b, y)
  BY DEF LaidOut
<1>0. \A j \in 1..a : j \in 1..n
  OBVIOUS
<1>7. \A j \in 1..a : sc[j] = sa[j] /\ Sizes(O, n)[j] = Sizes(O, a)[j]
  <2> HIDE DEF n
  <2> QED BY <1>0, <1>2, <1>5 DEF StartsJoin
<1>8. \A j \in 1..b : /\ a + j \in 1..n /\ sc[a + j] = x + sb[j]
                      /\ Sizes(O, n)[a + j] = Sizes(Q, b)[j]
  <2>1. ASSUME NEW j \in 1..b
        PROVE  a + j \in 1..n /\ sc[a + j] = x + sb[j] /\ Q[j] = O[a + j]
    BY DEF StartsJoin, Continues
  <2>2. ASSUME NEW j \in 1..b  PROVE Sizes(O, n)[a + j] = Sizes(Q, b)[j]
    <3> HIDE DEF n
    <3> QED BY <1>3, <1>5, <2>1
  <2> QED BY <2>1, <2>2
<1> HIDE DEF C
<1>9. Tiles(sc, Sizes(O, n), n, x + y)
  <2>1. n = a + b
    OBVIOUS
  <2>2. \A j \in 1..b : sc[a + j] = x + sb[j] /\ Sizes(O, n)[a + j] = Sizes(Q, b)[j]
    BY <1>8
  <2> DEFINE za == Sizes(O, a)
             zb == Sizes(Q, b)
             z == Sizes(O, n)
  <2>3. /\ za \in [1..a -> Nat] /\ zb \in [1..b -> Nat] /\ z \in [1..n -> Nat]
        /\ Tiles(sa, za, a, x) /\ Tiles(sb, zb, b, y)
        /\ TilesJoin(sc, z, sa, za, a, sb, zb, b, x)
    BY <1>2, <1>3, <1>5, <1>6, <1>7, <2>2, Zenon DEF TilesJoin
  <2> HIDE DEF n, x, y, z, za, zb
  <2>4. Tiles(sc, z, n, x + y)
    BY <1>2, <1>3, <1>5, <2>1, <2>3, TilesJoined
  <2> QED BY <2>4 DEF z
<1>10. ASSUME NEW j \in 1..a, NEW k \in 1..Len(O[j])  PROVE C[sc[j] + k] = O[j][k]
  <2>1. A[sa[j] + k] = O[j][k]
    BY DEF LaidOut
  <2>2. sa[j] + k \in 1..x
    <3> HIDE DEF x
    <3> QED BY <1>2
  <2>3. sc[j] = sa[j]
    BY <1>7
  <2> QED BY <1>4, <2>1, <2>2, <2>3
<1>11. ASSUME NEW j \in 1..b, NEW k \in 1..Len(O[a + j])
       PROVE  C[sc[a + j] + k] = O[a + j][k]
  <2>1. Q[j] = O[a + j]
    BY DEF Continues
  <2>2. B[sb[j] + k] = Q[j][k]
    BY <2>1 DEF LaidOut
  <2>3. sb[j] + k \in 1..y
    <3>1. sb[j] \in Nat /\ Len(Q[j]) \in Nat /\ sb[j] + Len(Q[j]) <= y /\ k \in 1..Len(Q[j])
      BY <1>3, <2>1
    <3>2. \A p \in Nat, z \in Nat : p + z <= y => \A i \in 1..z : p + i \in 1..y
      <4> HIDE DEF y
      <4> QED BY <1>3
    <3> HIDE DEF y
    <3> QED BY <3>1, <3>2, Zenon
  <2>4. sc[a + j] + k = x + (sb[j] + k)
    <3>1. (x + sb[j]) + k = x + (sb[j] + k)
      <4>1. sb[j] \in Nat /\ k \in Nat
        BY <1>3, <2>1
      <4> HIDE DEF x
      <4> QED BY <1>2, <4>1
    <3> HIDE DEF x
    <3> QED BY <1>8, <3>1
  <2> QED BY <1>4, <2>1, <2>2, <2>3, <2>4
<1>12. ASSUME NEW j \in 1..n, NEW k \in 1..Len(O[j])  PROVE C[sc[j] + k] = O[j][k]
  <2>1. CASE j \in 1..a
    BY <1>10, <2>1
  <2>2. CASE j \notin 1..a
    <3>1. j - a \in 1..b /\ a + (j - a) = j
      BY <2>2
    <3>2. PICK i \in 1..b : a + i = j
      BY <3>1
    <3> QED BY <1>11, <3>2
  <2> QED BY <2>1, <2>2
<1> QED
  <2>1. sc \in Seq(Nat) /\ Len(sc) = n
    BY DEF StartsJoin
  <2> HIDE DEF n, x, y, C
  <2>2. LaidOut(C, sc, O, n)
    BY <1>4, <1>9, <1>12, <2>1, Zenon DEF LaidOut
  <2> QED BY <2>2 DEF n, C

LEMMA LaidNone ==
    ASSUME NEW O  PROVE LaidOut(<<>>, <<>>, O, 0)
<1>1. <<>> \in Seq(DisplayLines) /\ <<>> \in Seq(Nat) /\ Len(<<>>) = 0 /\ 1..0 = {}
  OBVIOUS
<1> HIDE DEF DisplayLines
<1> QED BY <1>1 DEF LaidOut, Tiles

LEMMA LaidOne ==
    ASSUME NEW own \in Seq(DisplayLines), Len(own) > 0, NEW Q, Q[1] = own
    PROVE  LaidOut(own, <<0>>, Q, 1)
<1> DEFINE sts == <<0>>
<1>1. sts \in Seq(Nat) /\ Len(sts) = 1 /\ sts[1] = 0 /\ 1..1 = {1} /\ Len(own) \in Nat
  BY Lengths
<1>2. Sizes(Q, 1)[1] = Len(own)
  BY <1>1 DEF Sizes
<1> HIDE DEF sts
<1>3. Tiles(sts, Sizes(Q, 1), 1, Len(own))
  BY <1>1, <1>2 DEF Tiles
<1>4. \A j \in 1..1 : \A k \in 1..Len(Q[j]) : own[sts[j] + k] = Q[j][k]
  <2>1. \A k \in 1..Len(own) : 0 + k = k
    BY <1>1
  <2> QED BY <1>1, <2>1
<1>5. LaidOut(own, sts, Q, 1)
  BY <1>1, <1>3, <1>4, Zenon DEF LaidOut
<1> QED BY <1>5 DEF sts

\* One block more.
LEMMA LaidMore ==
    ASSUME NEW m \in Nat, NEW O, Parts(O, m + 1), NEW ls, NEW sts, LaidOut(ls, sts, O, m)
    PROVE  LaidOut(ls \o O[m + 1], Append(sts, Len(ls)), O, m + 1)
<1> DEFINE Q == [j \in 1..1 |-> O[m + j]]
           sc == Append(sts, Len(ls))
<1>0. /\ m + 1 \in 1..m+1 /\ \A j \in 1..m : j \in 1..m+1
      /\ 1..1 = {1} /\ Q[1] = O[m + 1]
  OBVIOUS
<1>1. O[m + 1] \in Seq(DisplayLines) /\ Len(O[m + 1]) > 0 /\ Parts(O, m)
  BY <1>0 DEF Parts
<1>2. sts \in Seq(Nat) /\ Len(sts) = m /\ Len(ls) \in Nat
  BY <1>1, LaidNumbers
<1>3. Continues(Q, O, m, 1)
  BY DEF Continues
<1> HIDE DEF Q
<1>4. LaidOut(O[m + 1], <<0>>, Q, 1)
  BY <1>0, <1>1, LaidOne
<1>5. /\ sc \in Seq(Nat) /\ Len(sc) = m + 1 /\ sc[m + 1] = Len(ls)
      /\ \A j \in 1..m : sc[j] = sts[j]
  BY <1>2, AppendProperties
<1>6. StartsJoin(sc, sts, m, <<0>>, 1, Len(ls))
  <2>1. \A j \in 1..1 : sc[m + j] = Len(ls) + <<0>>[j]
    <3>1. <<0>>[1] = 0 /\ Len(ls) + 0 = Len(ls)
      BY <1>2
    <3> HIDE DEF sc
    <3> QED BY <1>0, <1>5, <3>1
  <2> HIDE DEF sc
  <2> QED BY <1>5, <2>1 DEF StartsJoin
<1> HIDE DEF sc
<1>7. LaidOut(ls \o O[m + 1], sc, O, m + 1)
  BY <1>3, <1>4, <1>6, LaidJoined
<1> QED BY <1>7 DEF sc

TilesStart(t, y, s, z, n) == \A j \in 1..n : t[j] = s[j] /\ y[j] = z[j]

\* The blocks before block f.
LEMMA TilesBefore ==
    ASSUME NEW m \in Nat, NEW x \in Nat, NEW s \in [1..m -> Nat], NEW z \in [1..m -> Nat],
           Tiles(s, z, m, x), NEW f \in 1..m,
           NEW t \in [1..f-1 -> Nat], NEW y \in [1..f-1 -> Nat],
           TilesStart(t, y, s, z, f - 1)
    PROVE  Tiles(t, y, f - 1, s[f])
<1>0. \A j \in 1..f-1 : t[j] = s[j] /\ y[j] = z[j]
  BY DEF TilesStart
<1> USE <1>0
<1>1. /\ s[1] = 0
      /\ \A j \in 1..m : /\ s[j] + z[j] = IF j = m THEN x ELSE s[j + 1]
                         /\ s[j] + z[j] <= x
      /\ \A j, k \in 1..m : j < k => s[j] + z[j] <= s[k]
      /\ \A i \in 1..x : \E j \in 1..m : s[j] < i /\ i <= s[j] + z[j]
  BY DEF Tiles
<1>2. \A j \in 1..f-1 : j \in 1..m /\ j < f /\ j # m
  OBVIOUS
<1>3. f - 1 = 0 => s[f] = 0
  BY <1>1
<1>4. f - 1 # 0 => t[1] = 0
  BY <1>1
<1>5. ASSUME NEW j \in 1..f-1
      PROVE  /\ t[j] + y[j] = IF j = f - 1 THEN s[f] ELSE t[j + 1]
             /\ t[j] + y[j] <= s[f]
  <2>1. t[j] + y[j] = s[j + 1] /\ t[j] + y[j] <= s[f]
    BY <1>1, <1>2
  <2>2. CASE j = f - 1
    BY <2>1, <2>2
  <2>3. CASE j # f - 1
    <3>1. j + 1 \in 1..f-1
      BY <2>3
    <3> QED BY <2>1, <2>3, <3>1
  <2> QED BY <2>2, <2>3
<1>6. ASSUME NEW j \in 1..f-1, NEW k \in 1..f-1, j < k  PROVE t[j] + y[j] <= t[k]
  BY <1>1, <1>2, <1>6
<1>7. ASSUME NEW i \in 1..s[f]  PROVE \E j \in 1..f-1 : t[j] < i /\ i <= t[j] + y[j]
  <2>1. i \in 1..x
    <3>1. s[f] + z[f] <= x /\ s[f] \in Nat /\ z[f] \in Nat
      BY <1>1
    <3> QED BY <3>1
  <2>2. PICK j \in 1..m : s[j] < i /\ i <= s[j] + z[j]
    BY <1>1, <2>1
  <2>3. j < f
    <3>1. ASSUME ~(j < f)  PROVE FALSE
      <4>1. s[f] <= s[j]
        <5>1. CASE j = f
          BY <5>1
        <5>2. CASE f < j
          <6>1. s[f] + z[f] <= s[j] /\ s[f] \in Nat /\ z[f] \in Nat /\ s[j] \in Nat
            BY <1>1, <5>2
          <6> QED BY <6>1
        <5> QED BY <3>1, <5>1, <5>2
      <4>2. s[j] \in Nat /\ s[f] \in Nat
        OBVIOUS
      <4> QED BY <2>2, <4>1, <4>2
    <3> QED BY <3>1
  <2>4. j \in 1..f-1 /\ t[j] = s[j] /\ y[j] = z[j]
    BY <2>3
  <2> QED BY <2>2, <2>4
<1> QED BY <1>3, <1>4, <1>5, <1>6, <1>7, Zenon DEF Tiles

LEMMA LaidBefore ==
    ASSUME NEW m \in Nat, NEW O, Parts(O, m), NEW ls, NEW sts, LaidOut(ls, sts, O, m),
           NEW f \in 1..m
    PROVE  LaidOut(SubSeq(ls, 1, sts[f]), SubSeq(sts, 1, f - 1), O, f - 1)
<1> DEFINE A == SubSeq(ls, 1, sts[f])
           sa == SubSeq(sts, 1, f - 1)
           n == f - 1
<1>1. /\ ls \in Seq(DisplayLines) /\ sts \in Seq(Nat) /\ Len(sts) = m
      /\ Len(ls) \in Nat
      /\ sts \in [1..m -> Nat] /\ Sizes(O, m) \in [1..m -> Nat]
      /\ \A j \in 1..m : /\ sts[j] \in Nat
                         /\ Len(O[j]) \in Nat /\ Len(O[j]) > 0
                         /\ Sizes(O, m)[j] = Len(O[j])
                         /\ sts[j] + Len(O[j]) <= Len(ls)
  BY LaidNumbers
<1>2. sts[f] \in Nat /\ sts[f] <= Len(ls)
  <2>1. sts[f] \in Nat /\ Len(O[f]) \in Nat /\ sts[f] + Len(O[f]) <= Len(ls)
    BY <1>1
  <2> QED BY <1>1, <2>1
<1>3. /\ A \in Seq(DisplayLines) /\ Len(A) = sts[f]
      /\ \A i \in 1..sts[f] : A[i] = ls[i]
  <2>1. \A x \in Nat : x <= Len(ls) =>
          /\ SubSeq(ls, 1, x) \in Seq(DisplayLines) /\ Len(SubSeq(ls, 1, x)) = x
          /\ \A i \in 1..x : SubSeq(ls, 1, x)[i] = ls[i]
    <3>1. ASSUME NEW x \in Nat, x <= Len(ls)
          PROVE  /\ SubSeq(ls, 1, x) \in Seq(DisplayLines) /\ Len(SubSeq(ls, 1, x)) = x
                 /\ \A i \in 1..x : SubSeq(ls, 1, x)[i] = ls[i]
      <4>1. \A i \in 1..x : i \in 1..Len(ls)
        BY <1>1, <3>1
      <4>2. \A i \in 1..x : ls[i] \in DisplayLines
        BY <1>1, <4>1, Lengths
      <4>3. /\ SubSeq(ls, 1, x) \in Seq(DisplayLines)
            /\ Len(SubSeq(ls, 1, x)) = IF 1 <= x THEN x-1+1 ELSE 0
            /\ \A i \in 1..x-1+1 : SubSeq(ls, 1, x)[i] = ls[1+i-1]
        BY <4>2, SubSeqProperties
      <4>4. x-1+1 = x /\ \A i \in 1..x : 1+i-1 = i
        OBVIOUS
      <4> QED BY <4>3, <4>4
    <3> QED BY <3>1
  <2> QED BY <1>2, <2>1, Zenon
<1>4. /\ sa \in Seq(Nat) /\ Len(sa) = n /\ n \in Nat
      /\ \A j \in 1..n : sa[j] = sts[j] /\ j \in 1..m
  <2>0. \A j \in 1..n : j \in 1..m
    OBVIOUS
  <2>1. \A j \in 1..n : sts[j] \in Nat
    BY <1>1, <2>0
  <2>2. n \in Nat
    OBVIOUS
  <2> HIDE DEF n
  <2>3. LET sb == SubSeq(sts, 1, n)
        IN  /\ sb \in Seq(Nat) /\ Len(sb) = IF 1 <= n THEN n-1+1 ELSE 0
            /\ \A j \in 1..n-1+1 : sb[j] = sts[1+j-1]
    BY <2>1, <2>2, SubSeqProperties
  <2>4. n-1+1 = n /\ \A j \in 1..n : 1+j-1 = j
    BY <2>2
  <2>5. sa = SubSeq(sts, 1, n)
    BY DEF n
  <2> HIDE DEF sa
  <2> QED BY <2>0, <2>2, <2>3, <2>4, <2>5
<1>5. Sizes(O, n) \in [1..n -> Nat] /\ \A j \in 1..n : Sizes(O, n)[j] = Sizes(O, m)[j]
  <2> HIDE DEF n
  <2> QED BY <1>1, <1>4 DEF Sizes
<1> HIDE DEF A, sa
<1>6. Tiles(sa, Sizes(O, n), n, sts[f])
  <2>1. Tiles(sts, Sizes(O, m), m, Len(ls))
    BY DEF LaidOut
  <2>2. sa \in [1..n -> Nat]
    BY <1>4, LenProperties
  <2>3. \A j \in 1..n : sa[j] = sts[j] /\ Sizes(O, n)[j] = Sizes(O, m)[j]
    BY <1>4, <1>5
  <2> DEFINE y == Sizes(O, n)
             z == Sizes(O, m)
  <2>4. y \in [1..f-1 -> Nat] /\ z \in [1..m -> Nat] /\ Tiles(sts, z, m, Len(ls))
        /\ sa \in [1..f-1 -> Nat]
        /\ TilesStart(sa, y, sts, z, f - 1)
    BY <1>1, <1>5, <2>1, <2>2, <2>3, Zenon DEF TilesStart
  <2> HIDE DEF y, z
  <2>5. Tiles(sa, y, f - 1, sts[f])
    BY <1>1, <2>4, TilesBefore
  <2> QED BY <2>5 DEF y
<1>7. ASSUME NEW j \in 1..n, NEW k \in 1..Len(O[j])  PROVE A[sa[j] + k] = O[j][k]
  <2>1. ls[sts[j] + k] = O[j][k] /\ sa[j] = sts[j]
    BY <1>4 DEF LaidOut
  <2>2. sts[j] + k \in 1..sts[f]
    <3>1. sts[j] + Sizes(O, m)[j] <= sts[f]
      <4>1. j \in 1..m /\ j < f
        BY <1>4
      <4> QED BY <4>1, Zenon DEF LaidOut, Tiles
    <3>2. sts[j] \in Nat /\ sts[f] \in Nat /\ Len(O[j]) \in Nat
          /\ sts[j] + Len(O[j]) <= sts[f]
      BY <1>1, <1>4, <3>1
    <3>3. \A p \in Nat, q \in Nat, r \in Nat : p + q <= r => \A i \in 1..q : p + i \in 1..r
      OBVIOUS
    <3> QED BY <3>2, <3>3, Zenon
  <2> QED BY <1>3, <2>1, <2>2
<1> HIDE DEF n
<1>8. LaidOut(A, sa, O, n)
  BY <1>3, <1>4, <1>6, <1>7, Zenon DEF LaidOut
<1> QED BY <1>8 DEF A, sa, n

\* The same with another O that has the same lines.
LEMMA LaidSame ==
    ASSUME NEW m \in Nat, NEW O, NEW Q, \A j \in 1..m : Q[j] = O[j],
           NEW ls, NEW sts, LaidOut(ls, sts, O, m)
    PROVE  LaidOut(ls, sts, Q, m)
<1>1. Sizes(Q, m) = Sizes(O, m)
  BY DEF Sizes
<1>2. \A j \in 1..m : \A k \in 1..Len(O[j]) : ls[sts[j] + k] = O[j][k]
  BY Zenon DEF LaidOut
<1>3. \A j \in 1..m : \A k \in 1..Len(Q[j]) : ls[sts[j] + k] = Q[j][k]
  BY <1>2
<1> QED BY <1>1, <1>3, Zenon DEF LaidOut

\* make_log_lines: the rows of a text, and whether those of an observation
\* are shown.
Rows(i, e, w) ==
    [r \in 1..(IF e.kind \in LongKinds /\ w = 1 THEN 2 ELSE 1) |-> <<i, "Content", e, r>>]

Detail(b) == b.observed # NoEntry /\ b.expanded

Heading(i, b) == <<i, "Heading", b.entry, b.expanded, b.running>>

LEMMA RowsAre ==
    ASSUME NEW i \in Nat, NEW e \in Entries, NEW w
    PROVE  Rows(i, e, w) \in Seq(DisplayLines)
<1> DEFINE n == IF e.kind \in LongKinds /\ w = 1 THEN 2 ELSE 1
<1>1. n \in Nat
  OBVIOUS
<1>2. \A r \in 1..n : <<i, "Content", e, r>> \in DisplayLines
  <2> HIDE DEF n
  <2>1. \A r \in 1..n : r \in Nat
    BY <1>1
  <2> QED BY <2>1 DEF DisplayLines
<1>3. Rows(i, e, w) \in [1..n -> DisplayLines]
  <2>1. Rows(i, e, w) = [r \in 1..n |-> <<i, "Content", e, r>>]
    BY DEF Rows
  <2> HIDE DEF n
  <2> QED BY <1>2, <2>1
<1> HIDE DEF n
<1> QED BY <1>1, <1>3, FunctionIsSeq

LEMMA BlockLinesAre ==
    ASSUME NEW i \in Nat, NEW b \in Blocks, NEW w
    PROVE  /\ BlockLines(i, b, w) \in Seq(DisplayLines)
           /\ Len(BlockLines(i, b, w)) > 0
           /\ ~Detail(b) => BlockLines(i, b, w) = <<Heading(i, b)>> \o Rows(i, b.entry, w)
<1> DEFINE head == <<Heading(i, b)>>
           text == Rows(i, b.entry, w)
           more == IF Detail(b) THEN Rows(i, b.observed, w) ELSE <<>>
<1>1. BlockLines(i, b, w) = (head \o text) \o more
  BY DEF BlockLines, Rows, Detail, Heading
<1>2. b.entry \in Entries /\ b.observed \in Entries
      /\ b.expanded \in BOOLEAN /\ b.running \in BOOLEAN
  BY DEF Blocks
<1>3. head \in Seq(DisplayLines) /\ Len(head) = 1
  <2>1. Heading(i, b) \in DisplayLines
    BY <1>2 DEF Heading, DisplayLines
  <2> QED BY <2>1
<1>4. text \in Seq(DisplayLines) /\ more \in Seq(DisplayLines)
  <2>1. text \in Seq(DisplayLines) /\ Rows(i, b.observed, w) \in Seq(DisplayLines)
    BY <1>2, RowsAre
  <2>2. <<>> \in Seq(DisplayLines)
    BY EmptySeq
  <2> QED BY <2>1, <2>2
<1>5. ~Detail(b) => more = <<>>
  OBVIOUS
<1> HIDE DEF head, text, more
<1>6. /\ head \o text \in Seq(DisplayLines) /\ Len(head \o text) = 1 + Len(text)
      /\ Len(text) \in Nat /\ Len(more) \in Nat
  BY <1>3, <1>4, ConcatProperties, LenProperties
<1>7. (head \o text) \o more \in Seq(DisplayLines)
      /\ Len((head \o text) \o more) = Len(head \o text) + Len(more)
  BY <1>4, <1>6, ConcatProperties
<1>8. ~Detail(b) => (head \o text) \o more = head \o text
  BY <1>5, <1>6, ConcatEmptySeq
<1>9. Len((head \o text) \o more) > 0
  BY <1>6, <1>7
<1>10. ~Detail(b) => BlockLines(i, b, w) = head \o text
  BY <1>1, <1>8
<1> QED BY <1>1, <1>7, <1>9, <1>10 DEF head, text

\* A command that ends without its detail keeps its lines, but for the look of
\* the heading.
LEMMA SameOutline ==
    ASSUME NEW i \in Nat, NEW b \in Blocks, NEW c \in Blocks, NEW w,
           c.entry = b.entry, ~Detail(b), ~Detail(c)
    PROVE  /\ Len(BlockLines(i, c, w)) = Len(BlockLines(i, b, w))
           /\ \A k \in 1..Len(BlockLines(i, b, w)) :
                 /\ BlockLines(i, c, w)[k][1] = BlockLines(i, b, w)[k][1]
                 /\ BlockLines(i, c, w)[k][2] = BlockLines(i, b, w)[k][2]
<1> DEFINE text == Rows(i, b.entry, w)
           hb == Heading(i, b)
           hc == Heading(i, c)
<1>1. BlockLines(i, b, w) = <<hb>> \o text /\ BlockLines(i, c, w) = <<hc>> \o text
  BY BlockLinesAre
<1>2. text \in Seq(DisplayLines) /\ Len(text) \in Nat
  <2>1. b.entry \in Entries
    BY DEF Blocks
  <2> QED BY <2>1, RowsAre, Lengths
<1>3. <<hb>> \in Seq(DisplayLines) /\ <<hc>> \in Seq(DisplayLines)
  <2>1. hb \in DisplayLines /\ hc \in DisplayLines
    <3>1. /\ b.entry \in Entries /\ b.expanded \in BOOLEAN /\ b.running \in BOOLEAN
          /\ c.entry \in Entries /\ c.expanded \in BOOLEAN /\ c.running \in BOOLEAN
      BY DEF Blocks
    <3> QED BY <3>1 DEF Heading, DisplayLines
  <2> HIDE DEF hb, hc
  <2> QED BY <2>1
<1>4. hb[1] = i /\ hc[1] = i /\ hb[2] = "Heading" /\ hc[2] = "Heading"
  BY DEF Heading
<1> HIDE DEF text, hb, hc
<1>5. Len(<<hb>>) = 1 /\ Len(<<hc>>) = 1 /\ <<hb>>[1] = hb /\ <<hc>>[1] = hc
  OBVIOUS
<1>6. /\ Len(<<hb>> \o text) = 1 + Len(text) /\ Len(<<hc>> \o text) = 1 + Len(text)
      /\ \A k \in 1..1+Len(text) :
            /\ (<<hb>> \o text)[k] = IF k <= 1 THEN <<hb>>[k] ELSE text[k - 1]
            /\ (<<hc>> \o text)[k] = IF k <= 1 THEN <<hc>>[k] ELSE text[k - 1]
  BY <1>2, <1>3, <1>5, ConcatProperties
<1>7. ASSUME NEW k \in 1..1+Len(text)
      PROVE  /\ (<<hc>> \o text)[k][1] = (<<hb>> \o text)[k][1]
             /\ (<<hc>> \o text)[k][2] = (<<hb>> \o text)[k][2]
  <2>1. CASE k = 1
    <3>1. (<<hb>> \o text)[k] = hb /\ (<<hc>> \o text)[k] = hc
      BY <1>5, <1>6, <2>1
    <3> QED BY <1>4, <3>1
  <2>2. CASE k # 1
    <3>1. (<<hb>> \o text)[k] = (<<hc>> \o text)[k]
      <4>1. ~(k <= 1)
        BY <1>2, <2>2
      <4> QED BY <1>6, <4>1
    <3> QED BY <3>1
  <2> QED BY <2>1, <2>2
<1> DEFINE lb == <<hb>> \o text
           lc == <<hc>> \o text
<1>8. /\ Len(lc) = Len(lb) /\ Len(lb) = 1 + Len(text)
      /\ \A k \in 1..1+Len(text) : lc[k][1] = lb[k][1] /\ lc[k][2] = lb[k][2]
  BY <1>6, <1>7
<1>9. BlockLines(i, b, w) = lb /\ BlockLines(i, c, w) = lc
  BY <1>1
<1> HIDE DEF lb, lc
<1> QED BY <1>8, <1>9

\* The lines of each block.
Owns(bs, w) == [j \in DOMAIN bs |-> BlockLines(j, bs[j], w)]

LEMMA OwnsAre ==
    ASSUME NEW bs \in Seq(Blocks), NEW w
    PROVE  /\ Parts(Owns(bs, w), Len(bs)) /\ Len(bs) \in Nat
           /\ \A j \in 1..Len(bs) : /\ bs[j] \in Blocks
                                    /\ Owns(bs, w)[j] = BlockLines(j, bs[j], w)
<1>1. /\ Len(bs) \in Nat /\ DOMAIN bs = 1..Len(bs)
      /\ \A j \in 1..Len(bs) : bs[j] \in Blocks /\ j \in Nat
  BY Lengths
<1>2. \A j \in 1..Len(bs) : Owns(bs, w)[j] = BlockLines(j, bs[j], w)
  BY <1>1 DEF Owns
<1>3. \A j \in 1..Len(bs) :
          BlockLines(j, bs[j], w) \in Seq(DisplayLines) /\ Len(BlockLines(j, bs[j], w)) > 0
  BY <1>1, BlockLinesAre
<1> QED BY <1>1, <1>2, <1>3 DEF Parts

\* The first loop of rebuild_log_lines_from, from block f on.
LEMMA RenderIsLaidOut ==
    ASSUME NEW bs \in Seq(Blocks), NEW f \in 1..Len(bs)+1, NEW w
    PROVE  \E Q : /\ Continues(Q, Owns(bs, w), f - 1, Len(bs) - f + 1)
                  /\ LaidOut(Render(bs, f, w).lines, Render(bs, f, w).starts,
                             Q, Len(bs) - f + 1)
<1> DEFINE n == Len(bs) - f + 1
           O == Owns(bs, w)
           Q == [j \in 1..n |-> O[(f - 1) + j]]
<1>1. /\ Parts(O, Len(bs)) /\ Len(bs) \in Nat
      /\ \A j \in 1..Len(bs) : O[j] = BlockLines(j, bs[j], w)
  BY OwnsAre
<1>2. /\ n \in Nat /\ f \in Nat
      /\ \A j \in 1..n : (f - 1) + j \in 1..Len(bs) /\ f + j - 1 = (f - 1) + j
  BY <1>1
<1> HIDE DEF O
<1>3. Parts(Q, n) /\ Continues(Q, O, f - 1, n)
  BY <1>1, <1>2 DEF Parts, Continues
<1>4. PICK r : Renders(r, bs, f, w)
  BY <1>2, RenderingIs
<1>5. /\ Render(bs, f, w) = r[n]
      /\ r[0] = [lines |-> <<>>, starts |-> <<>>]
      /\ \A j \in 1..n : r[j] = AddBlock(r[j - 1], Q[j])
  <2>1. /\ Render(bs, f, w) = r[n]
        /\ r[0] = [lines |-> <<>>, starts |-> <<>>]
        /\ \A j \in 1..n : r[j] = AddBlock(r[j - 1], BlockLines(f + j - 1, bs[f + j - 1], w))
    BY <1>4, Zenon DEF Renders
  <2>2. ASSUME NEW j \in 1..n  PROVE Q[j] = BlockLines(f + j - 1, bs[f + j - 1], w)
    <3>1. Q[j] = O[(f - 1) + j]
      OBVIOUS
    <3> HIDE DEF Q, n
    <3> QED BY <1>1, <1>2, <3>1
  <2> HIDE DEF Q, n
  <2> QED BY <2>1, <2>2
<1> HIDE DEF Q, n
<1> DEFINE P == {j \in 0..n : LaidOut(r[j].lines, r[j].starts, Q, j)}
<1>6. 0 \in P
  <2>1. r[0].lines = <<>> /\ r[0].starts = <<>>
    BY <1>5
  <2> QED BY <1>2, <2>1, LaidNone
<1>7. ASSUME NEW j \in 1..n, j - 1 \in P  PROVE j \in P
  <2>1. PICK k \in Nat : k = j - 1 /\ k + 1 = j
    BY <1>2
  <2>2. LaidOut(r[k].lines, r[k].starts, Q, k)
    BY <1>7, <2>1
  <2>3. Parts(Q, k + 1)
    BY <1>2, <1>3, <2>1 DEF Parts
  <2>4. LaidOut(r[k].lines \o Q[k + 1], Append(r[k].starts, Len(r[k].lines)), Q, k + 1)
    BY <2>2, <2>3, LaidMore
  <2>5. r[j] = AddBlock(r[k], Q[k + 1])
    BY <1>5, <2>1
  <2>6. /\ r[j].lines = r[k].lines \o Q[k + 1]
        /\ r[j].starts = Append(r[k].starts, Len(r[k].lines))
    <3>1. \A g, own : /\ AddBlock(g, own).lines = g.lines \o own
                      /\ AddBlock(g, own).starts = Append(g.starts, Len(g.lines))
      BY DEF AddBlock
    <3> QED BY <2>5, <3>1, Zenon
  <2>7. LaidOut(r[j].lines, r[j].starts, Q, j)
    BY <2>1, <2>4, <2>6
  <2> QED BY <2>7
<1>8. n \in P
  <2>1. P \in SUBSET (0..n) /\ n \in 0..n
    BY <1>2
  <2> HIDE DEF P
  <2> QED BY <1>2, <1>6, <1>7, <2>1, UpTo
<1>9. LaidOut(Render(bs, f, w).lines, Render(bs, f, w).starts, Q, n)
  BY <1>5, <1>8
<1> QED BY <1>3, <1>9 DEF O, n

Pieces(bs, o, ls, sts) == [blocks |-> bs, open |-> o, lines |-> ls, starts |-> sts]

SameBefore(O, N, f) == \A j \in 1..f-1 : O[j] = N[j]

\* rebuild_log_lines_from (tui.cpp:212-239): if the blocks before f are shown as
\* they are, all of them are afterwards.
LEMMA RebuildIsLaidOut ==
    ASSUME NEW bs \in Seq(Blocks), NEW o, NEW ls, NEW sts, NEW w,
           NEW m \in Nat, NEW O, Parts(O, m), LaidOut(ls, sts, O, m),
           NEW f \in 1..m+1, f <= Len(bs) + 1, SameBefore(O, Owns(bs, w), f)
    PROVE  LET d == Rebuild(Pieces(bs, o, ls, sts), f, w)
           IN  /\ LaidOut(d.lines, d.starts, Owns(bs, w), Len(bs))
               /\ d = Pieces(bs, o, d.lines, d.starts)
<1> DEFINE N == Owns(bs, w)
           x == IF f <= Len(sts) THEN sts[f] ELSE Len(ls)
           A == SubSeq(ls, 1, x)
           sa == SubSeq(sts, 1, f - 1)
           R == Render(bs, f, w)
           sb == [j \in DOMAIN R.starts |-> x + R.starts[j]]
           a == f - 1
           b == Len(bs) - f + 1
           d == Rebuild(Pieces(bs, o, ls, sts), f, w)
<1>1. /\ d.lines = A \o R.lines /\ d.starts = sa \o sb
      /\ d = Pieces(bs, o, d.lines, d.starts)
  <2> DEFINE c == Pieces(bs, o, ls, sts)
  <2>1. d = [c EXCEPT !.lines = A \o R.lines, !.starts = sa \o sb]
    BY DEF Rebuild, Pieces
  <2> HIDE DEF A, R, sa, sb, d
  <2> QED BY <2>1 DEF Pieces
<1>2. Parts(N, Len(bs)) /\ Len(bs) \in Nat
  BY OwnsAre
<1>3. /\ ls \in Seq(DisplayLines) /\ sts \in Seq(Nat) /\ Len(sts) = m
      /\ Len(ls) \in Nat /\ \A j \in 1..m : sts[j] \in Nat
  BY LaidNumbers
<1>4. a \in Nat /\ b \in Nat /\ a + b = Len(bs)
  BY <1>2
<1>5. LaidOut(A, sa, O, a)
  <2>1. CASE f \in 1..m
    <3>1. x = sts[f]
      BY <1>3, <2>1
    <3> HIDE DEF x
    <3> QED BY <2>1, <3>1, LaidBefore
  <2>2. CASE f = m + 1
    <3>1. x = Len(ls) /\ f - 1 = m /\ a = m
      BY <1>3, <2>2
    <3> HIDE DEF x, a
    <3>2. SubSeq(ls, 1, Len(ls)) = ls /\ SubSeq(sts, 1, Len(sts)) = sts
      BY <1>3, SubSeqFull
    <3> QED BY <1>3, <3>1, <3>2
  <2> QED BY <2>1, <2>2
<1>6. LaidOut(A, sa, N, a)
  <2>1. \A j \in 1..a : N[j] = O[j]
    BY Zenon DEF SameBefore
  <2> HIDE DEF A, sa, a, N
  <2> QED BY <1>4, <1>5, <2>1, LaidSame
<1>7. Parts(N, a + b) /\ Parts(N, a)
  <2>1. Parts(N, a + b)
    <3> HIDE DEF a, b, N
    <3> QED BY <1>2, <1>4
  <2>2. \A j \in 1..a : j \in 1..a+b
    <3> HIDE DEF a, b
    <3> QED BY <1>4
  <2> HIDE DEF a, b, N
  <2> QED BY <2>1, <2>2 DEF Parts
<1>8. PICK Q : Continues(Q, N, a, b) /\ LaidOut(R.lines, R.starts, Q, b)
  <2>1. f \in 1..Len(bs)+1
    BY <1>2
  <2> QED BY <2>1, RenderIsLaidOut
<1>9. Len(A) = x
  <2>1. x \in Nat /\ x <= Len(ls)
    <3>1. CASE f <= Len(sts)
      <4>1. f \in 1..m
        BY <1>3, <3>1
      <4>2. sts[f] \in Nat /\ Len(O[f]) \in Nat /\ sts[f] + Len(O[f]) <= Len(ls)
        BY <4>1, LaidNumbers
      <4>3. x = sts[f]
        BY <3>1
      <4> HIDE DEF x
      <4> QED BY <1>3, <4>2, <4>3
    <3>2. CASE ~(f <= Len(sts))
      <4>1. x = Len(ls)
        BY <3>2
      <4> HIDE DEF x
      <4> QED BY <1>3, <4>1
    <3> QED BY <3>1, <3>2
  <2> HIDE DEF x
  <2>2. \A i \in 1..x : ls[i] \in DisplayLines
    <3>1. \A i \in 1..x : i \in 1..Len(ls)
      BY <1>3, <2>1
    <3> QED BY <1>3, <3>1, Lengths
  <2>3. Len(A) = IF 1 <= x THEN x-1+1 ELSE 0
    BY <2>1, <2>2, SubSeqProperties
  <2> HIDE DEF A
  <2> QED BY <2>1, <2>3
<1>10. StartsJoin(sa \o sb, sa, a, R.starts, b, Len(A))
  <2>1. sa \in Seq(Nat) /\ Len(sa) = a /\ Len(A) \in Nat
    <3> HIDE DEF A, sa, a, N
    <3> QED BY <1>4, <1>6, <1>7, LaidNumbers
  <2>2. R.starts \in Seq(Nat) /\ Len(R.starts) = b
    <3> HIDE DEF R, b
    <3> QED BY <1>8, Zenon DEF LaidOut
  <2>3. DOMAIN R.starts = 1..b /\ \A j \in 1..b : R.starts[j] \in Nat
    <3> HIDE DEF R, b
    <3> QED BY <1>4, <2>2, Lengths
  <2>4. x \in Nat
    <3> HIDE DEF A, x
    <3> QED BY <1>9, <2>1
  <2>5. sb \in [1..b -> Nat] /\ \A j \in 1..b : sb[j] = x + R.starts[j]
    <3> HIDE DEF R, b, x
    <3> QED BY <2>3, <2>4
  <2> HIDE DEF R, b, x, sb, A, sa, a
  <2>6. sb \in Seq(Nat) /\ Len(sb) = b
    BY <1>4, <2>5, FunctionIsSeq
  <2>7. /\ sa \o sb \in Seq(Nat) /\ Len(sa \o sb) = a + b
        /\ \A j \in 1..a+b : (sa \o sb)[j] = IF j <= a THEN sa[j] ELSE sb[j - a]
    BY <2>1, <2>6, ConcatProperties
  <2>8. \A j \in 1..a : (sa \o sb)[j] = sa[j]
    <3>1. \A j \in 1..a : j \in 1..a+b /\ j <= a
      BY <1>4
    <3> QED BY <2>7, <3>1
  <2>9. \A j \in 1..b : (sa \o sb)[a + j] = Len(A) + R.starts[j]
    <3>1. \A j \in 1..b : a + j \in 1..a+b /\ ~(a + j <= a) /\ (a + j) - a = j
      BY <1>4
    <3> QED BY <1>9, <2>5, <2>7, <3>1
  <2> QED BY <2>7, <2>8, <2>9 DEF StartsJoin
<1>11. LaidOut(A \o R.lines, sa \o sb, N, a + b)
  <2> HIDE DEF R, b, x, sb, A, sa, a, N
  <2> QED BY <1>4, <1>6, <1>7, <1>8, <1>10, LaidJoined
<1>12. LaidOut(d.lines, d.starts, N, Len(bs))
  <2> HIDE DEF R, b, x, sb, A, sa, a, N, d
  <2> QED BY <1>1, <1>4, <1>11
<1> QED BY <1>1, <1>12, Zenon DEF d, N

\* Lines of blocks that keep their outline, and of others after them, are at
\* the same places.
SameOutlines(O, N, n) ==
    \A j \in 1..n :
        /\ Len(N[j]) = Len(O[j])
        /\ \A k \in 1..Len(O[j]) : N[j][k][1] = O[j][k][1] /\ N[j][k][2] = O[j][k][2]

LEMMA LinesStay ==
    ASSUME NEW n \in Nat, NEW O, Parts(O, n), NEW ls, NEW sts, LaidOut(ls, sts, O, n),
           NEW m \in Nat, n <= m, NEW N, Parts(N, m), NEW ms, NEW tts,
           LaidOut(ms, tts, N, m), SameOutlines(O, N, n)
    PROVE  /\ Len(ls) <= Len(ms)
           /\ \A i \in 1..Len(ls) : ms[i][1] = ls[i][1] /\ ms[i][2] = ls[i][2]
<1>1. /\ Len(ls) \in Nat /\ Len(ms) \in Nat
      /\ \A j \in 1..n : sts[j] \in Nat /\ Len(O[j]) \in Nat
                         /\ Sizes(O, n)[j] = Len(O[j])
  BY LaidNumbers
<1>2. \A j \in 1..m : /\ tts[j] \in Nat /\ Len(N[j]) \in Nat
                      /\ Sizes(N, m)[j] = Len(N[j])
                      /\ tts[j] + Len(N[j]) <= Len(ms)
  BY LaidNumbers
<1>3. /\ n = 0 => Len(ls) = 0
      /\ n # 0 => sts[1] = 0
      /\ \A j \in 1..n : sts[j] + Sizes(O, n)[j] = IF j = n THEN Len(ls) ELSE sts[j + 1]
      /\ \A i \in 1..Len(ls) : \E j \in 1..n : sts[j] < i /\ i <= sts[j] + Sizes(O, n)[j]
  BY Zenon DEF LaidOut, Tiles
<1>4. /\ m # 0 => tts[1] = 0
      /\ \A j \in 1..m : tts[j] + Sizes(N, m)[j] = IF j = m THEN Len(ms) ELSE tts[j + 1]
  BY Zenon DEF LaidOut, Tiles
<1>5. \A j \in 1..n : j \in 1..m /\ Len(N[j]) = Len(O[j])
  <2>1. \A j \in 1..n : j \in 1..m
    OBVIOUS
  <2> QED BY <2>1 DEF SameOutlines
<1> DEFINE P == {j \in 0..n : j = 0 \/ tts[j] = sts[j]}
<1>6. ASSUME NEW j \in 1..n, j - 1 \in P  PROVE j \in P
  <2>1. CASE j = 1
    BY <1>3, <1>4, <1>5, <2>1
  <2>2. CASE j # 1
    <3>1. PICK i \in 1..n : i = j - 1 /\ i + 1 = j /\ i # n /\ i # m
      BY <2>2
    <3>2. tts[i] = sts[i]
      BY <1>6, <3>1
    <3>3. sts[i] + Len(O[i]) = sts[j]
      BY <1>1, <1>3, <3>1
    <3>4. tts[i] + Len(N[i]) = tts[j]
      BY <1>2, <1>4, <1>5, <3>1
    <3>5. tts[j] = sts[j]
      BY <1>5, <3>2, <3>3, <3>4
    <3> QED BY <3>5
  <2> QED BY <2>1, <2>2
<1>7. ASSUME NEW j \in 1..n  PROVE tts[j] = sts[j]
  <2>1. P \in SUBSET (0..n) /\ 0 \in P
    OBVIOUS
  <2>2. j \in P
    <3> HIDE DEF P
    <3>1. \A i \in 0..n : i \in P
      BY <1>6, <2>1, UpTo
    <3>2. j \in 0..n
      OBVIOUS
    <3> QED BY <3>1, <3>2
  <2>3. j # 0
    OBVIOUS
  <2> QED BY <2>2, <2>3
<1>8. Len(ls) <= Len(ms)
  <2>1. CASE n = 0
    BY <1>1, <1>3, <2>1
  <2>2. CASE n # 0
    <3>1. n \in 1..n /\ n \in 1..m
      BY <2>2
    <3>2. sts[n] + Len(O[n]) = Len(ls)
      BY <1>1, <1>3, <3>1
    <3>3. tts[n] + Len(N[n]) <= Len(ms)
      BY <1>2, <3>1
    <3> QED BY <1>5, <1>7, <3>1, <3>2, <3>3
  <2> QED BY <2>1, <2>2
<1>9. ASSUME NEW i \in 1..Len(ls)  PROVE ms[i][1] = ls[i][1] /\ ms[i][2] = ls[i][2]
  <2>1. PICK j \in 1..n : sts[j] < i /\ i <= sts[j] + Len(O[j])
    BY <1>1, <1>3
  <2>2. PICK k \in 1..Len(O[j]) : i = sts[j] + k
    <3>1. i - sts[j] \in 1..Len(O[j]) /\ i = sts[j] + (i - sts[j])
      BY <1>1, <2>1
    <3> QED BY <3>1
  <2>3. ls[i] = O[j][k]
    BY <2>2, Zenon DEF LaidOut
  <2>4. ms[i] = N[j][k]
    <3>1. i = tts[j] + k /\ k \in 1..Len(N[j]) /\ j \in 1..m
      BY <1>5, <1>7, <2>2
    <3> QED BY <3>1, Zenon DEF LaidOut
  <2>5. N[j][k][1] = O[j][k][1] /\ N[j][k][2] = O[j][k][2]
    BY DEF SameOutlines
  <2> QED BY <2>3, <2>4, <2>5
<1> QED BY <1>8, <1>9

\* What an append changes of the blocks keeps their outline.
LEMMA OutlinesStay ==
    ASSUME NEW n \in Nat, NEW k, k \in 0..n, NEW bs, NEW o, Merged(bs, o, k),
           NEW p, p.blocks \in Seq(Blocks), ChangedFrom(bs, p), NEW w
    PROVE  SameOutlines(Owns(bs, w), Owns(p.blocks, w), Len(bs))
<1> DEFINE qs == p.blocks
<1>1. bs \in Seq(Blocks)
  BY DEF Merged, OneRuns
<1>2. /\ Len(bs) \in Nat
      /\ \A j \in 1..Len(bs) : bs[j] \in Blocks /\ Owns(bs, w)[j] = BlockLines(j, bs[j], w)
  BY <1>1, OwnsAre
<1>3. /\ Len(qs) \in Nat
      /\ \A j \in 1..Len(qs) : qs[j] \in Blocks /\ Owns(qs, w)[j] = BlockLines(j, qs[j], w)
  BY OwnsAre
<1>4. ASSUME NEW j \in 1..Len(bs)
      PROVE  /\ Len(Owns(qs, w)[j]) = Len(Owns(bs, w)[j])
             /\ \A i \in 1..Len(Owns(bs, w)[j]) :
                   /\ Owns(qs, w)[j][i][1] = Owns(bs, w)[j][i][1]
                   /\ Owns(qs, w)[j][i][2] = Owns(bs, w)[j][i][2]
  <2>1. j \in 1..Len(qs)
    BY <1>2, <1>3 DEF ChangedFrom
  <2>2. Owns(bs, w)[j] = BlockLines(j, bs[j], w) /\ Owns(qs, w)[j] = BlockLines(j, qs[j], w)
    BY <1>2, <1>3, <2>1
  <2>3. CASE qs[j] = bs[j]
    BY <2>2, <2>3
  <2>4. CASE qs[j] # bs[j]
    <3>1. bs[j].running /\ ~qs[j].expanded /\ qs[j].entry = bs[j].entry
      BY <2>4, Zenon DEF ChangedFrom
    <3>2. ~Detail(bs[j])
      <4>1. PICK i \in 1..k \ Observations(k) : Shows(bs[j], i, k)
        <5>1. j \in DOMAIN bs
          BY <1>1, Lengths
        <5> QED BY <5>1, ShowsLogIs DEF Merged
      <4>2. StillRuns(i, k)
        BY <3>1, <4>1, Zenon DEF Shows
      <4>3. ObservationOf(i, k) = {}
        BY <4>2, ObservationKind
      <4> QED BY <4>1, <4>3, Zenon DEF Shows, Detail
    <3>3. ~Detail(qs[j])
      BY <3>1 DEF Detail
    <3>4. j \in Nat /\ bs[j] \in Blocks /\ qs[j] \in Blocks
      BY <1>2, <1>3, <2>1
    <3> HIDE DEF qs
    <3> QED BY <2>2, <3>1, <3>2, <3>3, <3>4, SameOutline
  <2> QED BY <2>3, <2>4
<1> HIDE DEF qs
<1>5. SameOutlines(Owns(bs, w), Owns(qs, w), Len(bs))
  BY <1>4, Zenon DEF SameOutlines
<1> QED BY <1>5 DEF qs

-----------------------------------------------------------------------------
(***************************************************************************)
(* The viewport.                                                           *)
(***************************************************************************)
Viewports == [count : Nat, current : Nat, target : Nat, following : BOOLEAN]

-----------------------------------------------------------------------------
(***************************************************************************)
(* No operation leaves the log.                                            *)
(***************************************************************************)

LEMMA AtFields ==
    ASSUME NEW v \in Viewports, NEW line \in Nat
    PROVE  /\ At(v, line) \in Viewports
           /\ At(v, line).count = v.count
           /\ At(v, line).following = v.following
           /\ At(v, line).current = line /\ At(v, line).target = line
  BY DEF At, Viewports

LEMMA InLog ==
    ASSUME NEW w \in Viewports, w.current < w.count, w.target < w.count,
           w.following => w.current = w.count - 1 /\ w.target = w.current
    PROVE  ViewportOK(w)
  BY DEF ViewportOK, Viewports

\* An empty pane is a viewport that follows.
LEMMA NewOK == ViewportOK(NewViewport)
  BY DEF NewViewport, ViewportOK

\* Log entries come and go, and lines are wrapped anew (log_viewport.cpp:7-27).
LEMMA SyncOK ==
    ASSUME NEW v, ViewportOK(v), NEW n \in Nat
    PROVE  ViewportOK(Sync(v, n)) /\ Sync(v, n).count = n
<1> DEFINE w == [v EXCEPT !.count = n]
<1>1. /\ v \in Viewports /\ w \in Viewports
      /\ w.count = n /\ w.following = v.following
      /\ w.current = v.current /\ w.target = v.target
  BY DEF ViewportOK, Viewports
<1>2. CASE n = 0
  BY <1>2, NewOK DEF Sync, NewViewport
<1>3. CASE n > 0 /\ v.following
  <2>1. Sync(v, n) = At(w, n - 1) /\ n - 1 \in Nat
    BY <1>3 DEF Sync
  <2> HIDE DEF w
  <2>2. /\ Sync(v, n) \in Viewports /\ Sync(v, n).count = n
        /\ Sync(v, n).current = n - 1 /\ Sync(v, n).target = n - 1
    BY <1>1, <2>1, AtFields
  <2> QED
    BY <1>3, <2>2, InLog
<1>4. CASE n > 0 /\ ~v.following
  <2> DEFINE c == Smaller(v.current, n - 1)
             t == Smaller(v.target, n - 1)
  <2>1. c \in Nat /\ c < n /\ t \in Nat /\ t < n
    BY <1>1, <1>4 DEF Smaller, Viewports
  <2>2. Sync(v, n) = [w EXCEPT !.current = c, !.target = t]
    BY <1>4 DEF Sync
  <2> HIDE DEF w, c, t
  <2>3. /\ Sync(v, n) \in Viewports /\ Sync(v, n).count = n
        /\ Sync(v, n).following = FALSE
        /\ Sync(v, n).current = c /\ Sync(v, n).target = t
    BY <1>1, <1>4, <2>1, <2>2 DEF Viewports
  <2> QED
    BY <1>4, <2>1, <2>3 DEF ViewportOK, Viewports
<1> QED
  BY <1>1, <1>2, <1>3, <1>4 DEF Viewports

LEMMA FollowTailOK ==
    ASSUME NEW v, ViewportOK(v)
    PROVE  ViewportOK(FollowTail(v))
<1> DEFINE w == [v EXCEPT !.following = TRUE]
<1>1. /\ w \in Viewports /\ w.following = TRUE /\ w.count = v.count
      /\ w.current = v.current /\ w.target = v.target
  BY DEF ViewportOK, Viewports
<1>2. FollowTail(v) = IF v.count > 0 THEN At(w, v.count - 1) ELSE w
  BY DEF FollowTail
<1> HIDE DEF w
<1>3. CASE v.count > 0
  <2>1. PICK last \in Nat : last = v.count - 1
    BY <1>3 DEF ViewportOK
  <2>2. FollowTail(v) = At(w, last)
    BY <1>2, <1>3, <2>1
  <2>3. /\ FollowTail(v) \in Viewports /\ FollowTail(v).count = w.count
        /\ FollowTail(v).current = last /\ FollowTail(v).target = last
    BY <1>1, <2>2, AtFields
  <2> QED
    BY <1>1, <1>3, <2>1, <2>3, InLog DEF ViewportOK
<1>4. CASE v.count = 0
  BY <1>1, <1>2, <1>4 DEF ViewportOK, Viewports
<1> QED
  BY <1>3, <1>4 DEF ViewportOK

LEMMA ScrollUpOK ==
    ASSUME NEW v, ViewportOK(v), NEW n \in Nat
    PROVE  ViewportOK(ScrollUp(v, n))
<1>1. v \in Viewports
  BY DEF ViewportOK, Viewports
<1>2. CASE v.count = 0
  BY <1>2 DEF ScrollUp
<1>3. CASE v.count > 0
  <2> DEFINE t == IF v.target > n THEN v.target - n ELSE 0
  <2>1. t \in Nat /\ t < v.count /\ v.current < v.count
    BY <1>1, <1>3 DEF ViewportOK, Viewports
  <2>2. ScrollUp(v, n) = [v EXCEPT !.following = FALSE, !.target = t]
    BY <1>3 DEF ScrollUp
  <2> HIDE DEF t
  <2>3. /\ ScrollUp(v, n) \in Viewports /\ ScrollUp(v, n).following = FALSE
        /\ ScrollUp(v, n).count = v.count /\ ScrollUp(v, n).target = t
        /\ ScrollUp(v, n).current = v.current
    BY <1>1, <2>1, <2>2 DEF Viewports
  <2> QED
    BY <2>1, <2>3, InLog
<1> QED
  BY <1>1, <1>2, <1>3 DEF Viewports

LEMMA ScrollDownOK ==
    ASSUME NEW v, ViewportOK(v), NEW n \in Nat
    PROVE  ViewportOK(ScrollDown(v, n))
<1>1. v \in Viewports
  BY DEF ViewportOK, Viewports
<1>2. CASE v.count = 0
  BY <1>2 DEF ScrollDown
<1>3. CASE v.count > 0
  <2> DEFINE t == v.target + Smaller(n, v.count - 1 - v.target)
             f == (v.current = t /\ t = v.count - 1)
  <2>1. t \in Nat /\ t < v.count /\ v.current < v.count
    BY <1>1, <1>3 DEF Smaller, ViewportOK, Viewports
  <2>2. ScrollDown(v, n) = [v EXCEPT !.target = t, !.following = f]
    BY <1>3 DEF ScrollDown
  <2>3. f \in BOOLEAN /\ (f => v.current = t /\ t = v.count - 1)
    OBVIOUS
  <2> HIDE DEF t, f
  <2>4. /\ ScrollDown(v, n) \in Viewports /\ ScrollDown(v, n).following = f
        /\ ScrollDown(v, n).count = v.count /\ ScrollDown(v, n).target = t
        /\ ScrollDown(v, n).current = v.current
    BY <1>1, <2>1, <2>2, <2>3 DEF Viewports
  <2> QED
    BY <2>1, <2>3, <2>4, InLog
<1> QED
  BY <1>1, <1>2, <1>3 DEF Viewports

LEMMA HomeOK ==
    ASSUME NEW v, ViewportOK(v)
    PROVE  ViewportOK(Home(v))
<1>1. v \in Viewports
  BY DEF ViewportOK, Viewports
<1>2. /\ Home(v) \in Viewports /\ Home(v).following = FALSE
      /\ Home(v).count = v.count
      /\ Home(v).current = 0 /\ Home(v).target = 0
  BY <1>1 DEF Home, At, Viewports
<1> QED
  BY <1>1, <1>2 DEF ViewportOK, Viewports

LEMMA JumpToOK ==
    ASSUME NEW v, ViewportOK(v), NEW line \in Nat
    PROVE  ViewportOK(JumpTo(v, line))
<1>1. v \in Viewports
  BY DEF ViewportOK, Viewports
<1>2. CASE v.count = 0
  BY <1>2 DEF JumpTo
<1>3. CASE v.count > 0
  <2> DEFINE l == Smaller(line, v.count - 1)
  <2>1. l \in Nat /\ l < v.count
    BY <1>1, <1>3 DEF Smaller, Viewports
  <2>2. JumpTo(v, line) = [At(v, l) EXCEPT !.following = FALSE]
    BY <1>3 DEF JumpTo
  <2> HIDE DEF l
  <2>3. At(v, l) \in Viewports /\ At(v, l).count = v.count
        /\ At(v, l).current = l /\ At(v, l).target = l
    BY <1>1, <2>1, AtFields
  <2>4. /\ JumpTo(v, line) \in Viewports /\ JumpTo(v, line).following = FALSE
        /\ JumpTo(v, line).count = v.count
        /\ JumpTo(v, line).current = l /\ JumpTo(v, line).target = l
    BY <2>2, <2>3 DEF Viewports
  <2> QED
    BY <2>1, <2>4, InLog
<1> QED
  BY <1>1, <1>2, <1>3 DEF Viewports

\* A frame moves towards the target and never past it.
LEMMA StepBounds ==
    ASSUME NEW d \in Nat, d > 0
    PROVE  Step(d) \in Nat /\ 1 <= Step(d) /\ Step(d) <= d
  BY DEF Step, Clamp

\* The cursor after a frame lies between where it was and its target.
LEMMA TickFields ==
    ASSUME NEW v, ViewportOK(v)
    PROVE  /\ Tick(v) \in Viewports
           /\ Tick(v).count = v.count /\ Tick(v).target = v.target
           /\ \/ v.current = v.target /\ Tick(v).current = v.current
              \/ v.current < v.target /\ v.current < Tick(v).current
                                      /\ Tick(v).current <= v.target
              \/ v.current > v.target /\ v.current > Tick(v).current
                                      /\ Tick(v).current >= v.target
           /\ Tick(v).following =>
                 \/ v.following
                 \/ Tick(v).current = v.target /\ v.target = v.count - 1
<1> DEFINE c == IF v.current < v.target
                THEN v.current + Step(v.target - v.current)
                ELSE IF v.current > v.target
                THEN v.current - Step(v.current - v.target)
                ELSE v.current
           f == v.following \/ (c = v.target /\ c = v.count - 1)
<1>1. v \in Viewports
  BY DEF ViewportOK, Viewports
<1>2. /\ c \in Nat
      /\ \/ v.current = v.target /\ c = v.current
         \/ v.current < v.target /\ v.current < c /\ c <= v.target
         \/ v.current > v.target /\ v.current > c /\ c >= v.target
  <2>1. CASE v.current < v.target
    <3>1. v.target - v.current \in Nat /\ v.target - v.current > 0
      BY <1>1, <2>1 DEF Viewports
    <3> QED  BY <1>1, <2>1, <3>1, StepBounds DEF Viewports
  <2>2. CASE v.current > v.target
    <3>1. v.current - v.target \in Nat /\ v.current - v.target > 0
      BY <1>1, <2>2 DEF Viewports
    <3> QED  BY <1>1, <2>2, <3>1, StepBounds DEF Viewports
  <2>3. CASE v.current = v.target
    BY <1>1, <2>3 DEF Viewports
  <2> QED  BY <1>1, <2>1, <2>2, <2>3 DEF Viewports
<1>3. Tick(v) = [v EXCEPT !.current = c, !.following = f]
  BY DEF Tick
<1>4. /\ f \in BOOLEAN
      /\ f => v.following \/ (c = v.target /\ c = v.count - 1)
  BY <1>1 DEF Viewports
<1> HIDE DEF c, f
<1>5. /\ Tick(v) \in Viewports /\ Tick(v).following = f
      /\ Tick(v).count = v.count /\ Tick(v).current = c
      /\ Tick(v).target = v.target
  BY <1>1, <1>2, <1>3, <1>4 DEF Viewports
<1> QED
  BY <1>2, <1>4, <1>5

LEMMA TickOK ==
    ASSUME NEW v, ViewportOK(v)
    PROVE  ViewportOK(Tick(v))
  BY TickFields DEF ViewportOK, Viewports

\* Whatever the log pane does to its viewport, the cursor and its target stay
\* lines of the log and a viewport that follows stays at the last one: the
\* unsigned subtractions of scroll_down and tick (log_viewport.cpp:55, 68)
\* never wrap.
THEOREM ViewportStaysInLog ==
    ASSUME NEW v, ViewportOK(v), NEW n \in Nat
    PROVE  /\ ViewportOK(NewViewport)   /\ ViewportOK(Sync(v, n))
           /\ ViewportOK(FollowTail(v)) /\ ViewportOK(Home(v))
           /\ ViewportOK(ScrollUp(v, n)) /\ ViewportOK(ScrollDown(v, n))
           /\ ViewportOK(Tick(v))       /\ ViewportOK(JumpTo(v, n))
  BY NewOK, SyncOK, FollowTailOK, HomeOK, ScrollUpOK, ScrollDownOK, TickOK,
     JumpToOK

-----------------------------------------------------------------------------
(***************************************************************************)
(* What is drawn, and when the animation ends.                             *)
(***************************************************************************)

\* The window that render_window cuts out of the log shows the line the
\* cursor is on, lies within the log and is as high as it can be.
THEOREM CursorIsShown ==
    ASSUME NEW v, ViewportOK(v), v.count > 0, NEW max \in Nat, max > 0
    PROVE  LET w == RenderWindow(v, max)
           IN  /\ w.begin <= v.current /\ v.current < w.end
               /\ 0 <= w.begin /\ w.end <= v.count
               /\ w.end - w.begin = Smaller(v.count, max)
<1>1. CASE v.count <= max
  BY <1>1 DEF RenderWindow, Smaller, ViewportOK
<1>2. CASE v.count > max
  BY <1>2 DEF RenderWindow, Smaller, ViewportOK
<1> QED
  BY <1>1, <1>2 DEF ViewportOK

Distance(v) == IF v.current < v.target THEN v.target - v.current
                                       ELSE v.current - v.target

\* Every frame of a scroll animation brings the cursor nearer to its target,
\* so that the animator's wait for the end of the animation (tui.cpp:701-735)
\* is a wait for finitely many frames.
THEOREM AnimationAdvances ==
    ASSUME NEW v, ViewportOK(v), Pending(v)
    PROVE  /\ Distance(v) \in Nat /\ Distance(Tick(v)) \in Nat
           /\ Distance(Tick(v)) < Distance(v)
           /\ Tick(v).target = v.target
  BY TickFields DEF ViewportOK, Viewports, Distance, Pending

-----------------------------------------------------------------------------
(***************************************************************************)
(* The invariant. The blocks are always those of the first known entries,  *)
(* or of a log that is gone: the next frame then knows, since no log has   *)
(* the revision load_session leaves. The lines are always those of the     *)
(* blocks, at the width kept for them, and until the first frame there is  *)
(* neither block nor width.                                                *)
(***************************************************************************)
Displayed ==
    /\ blocks \in Seq(Blocks)
    /\ LaidOut(lines, starts, Owns(blocks, width), Len(blocks))

UpToKnown ==
    /\ known <= Len(logs) \/ known = Unknown
    /\ known <= Len(logs) => Merged(blocks, open, known)

BeforeFirstFrame ==
    blocks = <<>> => known \in {0, Unknown} /\ width = 0 /\ selected = 1

Fresh == known = Len(logs) => stale \/ drawn

PaneInv ==
    /\ PaneTypeOK /\ logs # <<>>
    /\ Displayed /\ UpToKnown /\ BeforeFirstFrame /\ Fresh

LEMMA PaneFacts ==
    /\ \A i \in DOMAIN MaxLogs : MaxLogs[i] \in Nat /\ MaxLogs[i] < Unknown
    /\ 1 \in DOMAIN MaxLogs /\ Len(MaxLogs) \in Nat /\ DOMAIN MaxLogs = 1..Len(MaxLogs)
    /\ Unknown \in Nat
    /\ \A r \in Restored : /\ r \in Seq(Kinds) /\ r # <<>> /\ Len(r) \in Nat
                           /\ \A i \in DOMAIN MaxLogs : Len(r) <= MaxLogs[i]
    /\ \A w \in Widths : w \in Nat /\ w # 0
    /\ \A l \in Limits : l \in Nat /\ l # 0
    /\ \A n \in PageSizes : n \in Nat
    /\ \A k \in TaskKinds : k \in Kinds
<1>1. MaxLogs \in Seq(Nat) /\ MaxLogs # <<>> /\ Restored \subseteq Seq(Kinds)
  BY PaneAssumption
<1>2. Len(MaxLogs) \in Nat /\ DOMAIN MaxLogs = 1..Len(MaxLogs)
      /\ \A i \in 1..Len(MaxLogs) : MaxLogs[i] \in Nat
  BY <1>1, Lengths
<1>3. 1 \in 1..Len(MaxLogs)
  BY <1>1, <1>2, EmptySeq
<1>4. \A r \in Restored : Len(r) \in Nat
  BY <1>1, Lengths
<1> QED BY <1>1, <1>2, <1>3, <1>4, PaneAssumption

LEMMA NotEmpty ==
    ASSUME NEW S, NEW s \in Seq(S)
    PROVE  s # <<>> <=> Len(s) > 0
BY EmptySeq, LenProperties

LEMMA NoneMerged == Merged(<<>>, 0, 0)
<1>1. /\ <<>> \in Seq(Blocks) /\ Len(<<>>) = 0 /\ DOMAIN <<>> = {} /\ 1..0 = {}
      /\ 0 \in 0..0
  BY EmptySeq
<1>2. OneRuns(<<>>, 0)
  BY <1>1 DEF OneRuns
<1>3. ShowsLog(<<>>, 0)
  BY <1>1, ShowsLogIs
<1> QED BY <1>2, <1>3 DEF Merged

\* The log only grows while its revision is known.
LEMMA MergedKept ==
    ASSUME NEW n \in Nat, known' = n, gen' = gen, \A i \in 1..n : logs'[i] = logs[i],
           Merged(blocks', open', n)
    PROVE  Merged(blocks, open, known)'
<1>1. \A i \in 1..n : Entry(i)' = Entry(i)
  BY DEF Entry
<1>2. \A i \in 1..n : \A j \in i+1..n : \A k \in i+1..j : j \in 1..n /\ k \in 1..n
  OBVIOUS
<1>3. \A i \in 1..n : ObservationOf(i, n)' = ObservationOf(i, n)
  BY <1>2 DEF ObservationOf
<1>4. \A i \in 1..n : StillRuns(i, n)' <=> StillRuns(i, n)
  BY <1>2 DEF StillRuns
<1>5. Observations(n)' = Observations(n)
  BY <1>3 DEF Observations
<1>6. OneRuns(blocks', open') /\ ShowsLog(blocks', n)
  BY DEF Merged
<1>7. OneRuns(blocks, open)'
  BY <1>6 DEF OneRuns
<1>8. ASSUME NEW bs, ShowsLog(bs, n)  PROVE ShowsLog(bs, n)'
  <2>1. \A j \in DOMAIN bs : bs[j].entry.place \in 1..n
    <3>1. \A j \in DOMAIN bs : \E i \in 1..n : Shows(bs[j], i, n)
      BY <1>8, ShowsLogIs
    <3> QED BY <3>1, Zenon DEF Shows
  <2>2. {Entry(i)' : i \in 1..n \ Observations(n)'} = {Entry(i) : i \in 1..n \ Observations(n)}
    BY <1>1, <1>5
  <2>3. ASSUME NEW j \in DOMAIN bs
        PROVE  LET i == bs[j].entry.place IN
               /\ bs[j].running <=> StillRuns(i, n)'
               /\ IF ObservationOf(i, n)' = {}
                  THEN bs[j].observed = NoEntry
                  ELSE \E o \in ObservationOf(i, n)' : bs[j].observed = Entry(o)'
    <3> DEFINE i == bs[j].entry.place
    <3>1. i \in 1..n
      BY <2>1
    <3>2. /\ bs[j].running <=> StillRuns(i, n)
          /\ IF ObservationOf(i, n) = {}
             THEN bs[j].observed = NoEntry
             ELSE \E o \in ObservationOf(i, n) : bs[j].observed = Entry(o)
      BY <1>8, Zenon DEF ShowsLog
    <3>3. ObservationOf(i, n) \subseteq 1..n
      BY <3>1 DEF ObservationOf
    <3> HIDE DEF i
    <3>4. /\ bs[j].running <=> StillRuns(i, n)'
          /\ IF ObservationOf(i, n)' = {}
             THEN bs[j].observed = NoEntry
             ELSE \E o \in ObservationOf(i, n)' : bs[j].observed = Entry(o)'
      BY <1>1, <1>3, <1>4, <3>1, <3>2, <3>3
    <3> QED BY <3>4 DEF i
  <2>4. \A j, k \in DOMAIN bs : j < k => bs[j].entry.place < bs[k].entry.place
    BY <1>8 DEF ShowsLog
  <2>5. {bs[j].entry : j \in DOMAIN bs} = {Entry(i) : i \in 1..n \ Observations(n)}
    BY <1>8 DEF ShowsLog
  <2> QED BY <2>2, <2>3, <2>4, <2>5, Zenon DEF ShowsLog
<1>9. ShowsLog(blocks, n)'
  BY <1>6, <1>8
<1>10. Merged(blocks, open, n)'
  BY <1>7, <1>9 DEF Merged
<1> QED BY <1>10

-----------------------------------------------------------------------------
(***************************************************************************)
(* The keys. They leave the log and its blocks alone, and a step that does *)
(* not ask for another panel changes nothing the panel shows.              *)
(***************************************************************************)
LEMMA PaneNumbers ==
    ASSUME PaneInv
    PROVE  /\ gen \in Nat /\ gen \in DOMAIN MaxLogs /\ MaxLogs[gen] \in Nat
           /\ MaxLogs[gen] < Unknown /\ Unknown \in Nat
           /\ logs \in Seq(Kinds) /\ Len(logs) \in Nat /\ Len(logs) > 0
           /\ Len(logs) <= MaxLogs[gen]
           /\ known \in Nat
           /\ blocks \in Seq(Blocks) /\ Len(blocks) \in Nat /\ DOMAIN blocks = 1..Len(blocks)
           /\ (blocks # <<>> <=> Len(blocks) > 0)
           /\ lines \in Seq(DisplayLines) /\ Len(lines) \in Nat
           /\ starts \in Seq(Nat) /\ Len(starts) = Len(blocks) /\ DOMAIN starts = 1..Len(blocks)
           /\ (starts # <<>> <=> Len(blocks) > 0)
<1>1. /\ gen \in DOMAIN MaxLogs /\ logs \in Seq(Kinds) /\ Len(logs) <= MaxLogs[gen]
      /\ known \in 0..Unknown /\ logs # <<>> /\ Displayed
  BY DEF PaneInv, PaneTypeOK
<1>2. gen \in Nat /\ MaxLogs[gen] \in Nat /\ MaxLogs[gen] < Unknown /\ Unknown \in Nat
  BY <1>1, PaneFacts
<1>3. blocks \in Seq(Blocks) /\ LaidOut(lines, starts, Owns(blocks, width), Len(blocks))
  BY <1>1 DEF Displayed
<1>4. Len(blocks) \in Nat /\ DOMAIN blocks = 1..Len(blocks) /\ (blocks # <<>> <=> Len(blocks) > 0)
  BY <1>3, Lengths, NotEmpty
<1>5. lines \in Seq(DisplayLines) /\ starts \in Seq(Nat) /\ Len(starts) = Len(blocks)
  BY <1>3, Zenon DEF LaidOut
<1>6. Len(lines) \in Nat /\ DOMAIN starts = 1..Len(blocks) /\ (starts # <<>> <=> Len(blocks) > 0)
  BY <1>4, <1>5, Lengths, NotEmpty
<1>7. Len(logs) \in Nat /\ Len(logs) > 0
  BY <1>1, Lengths, NotEmpty
<1>8. known \in Nat
  BY <1>1, <1>2
<1> QED BY <1>1, <1>2, <1>3, <1>4, <1>5, <1>6, <1>7, <1>8

LEMMA WindowKept ==
    ASSUME NEW u, NEW v, u.count = v.count, u.current = v.current, NEW m
    PROVE  RenderWindow(u, m) = RenderWindow(v, m)
BY DEF RenderWindow

LEMMA KeysKeep ==
    ASSUME PaneInv, UNCHANGED <<session, known, content, width, limit>>,
           NEW changed \in BOOLEAN, Keep(changed), changed \/ Panel' = Panel,
           ViewportOK(vp'), vp'.count = vp.count,
           blocks # <<>> => selected' \in DOMAIN blocks,
           blocks = <<>> => selected' = selected,
           pane' \in {"Prompt", "Scrollback"}, pane' = "Scrollback" => ~inTask
    PROVE  PaneInv'
<1>1. /\ gen' = gen /\ logs' = logs /\ inTask' = inTask /\ known' = known
      /\ blocks' = blocks /\ open' = open /\ lines' = lines /\ starts' = starts
      /\ width' = width /\ limit' = limit
  BY DEF session, content
<1>2. PaneTypeOK /\ logs # <<>> /\ Displayed /\ UpToKnown /\ BeforeFirstFrame /\ Fresh
  BY DEF PaneInv
<1>3. stale' \in BOOLEAN /\ drawn' \in BOOLEAN /\ (Fresh => Fresh')
  <2>1. stale \in BOOLEAN /\ drawn \in BOOLEAN
    BY <1>2, Zenon DEF PaneTypeOK
  <2>2. stale' = (stale \/ changed) /\ drawn' = (drawn /\ Panel' = Panel /\ ~stale')
    BY DEF Keep
  <2>3. stale' \in BOOLEAN /\ drawn' \in BOOLEAN
    BY <2>1, <2>2, Zenon
  <2>4. ASSUME known = Len(logs) => stale \/ drawn
        PROVE  known = Len(logs) => stale' \/ drawn'
    <3> HIDE DEF Panel
    <3> QED BY <2>1, <2>2, <2>4, Zenon
  <2> QED BY <1>1, <2>3, <2>4 DEF Fresh
<1>4. PaneTypeOK'
  <2>1. {inTask', stale', drawn'} \subseteq BOOLEAN
    <3>1. inTask \in BOOLEAN
      BY <1>2, Zenon DEF PaneTypeOK
    <3> QED BY <1>1, <1>3, <3>1, Zenon
  <2>2. /\ gen \in DOMAIN MaxLogs /\ logs \in Seq(Kinds) /\ Len(logs) <= MaxLogs[gen]
        /\ known \in 0..Unknown
        /\ open \in 0..Len(blocks) /\ Len(starts) = Len(blocks)
        /\ width \in Widths \cup {0} /\ limit \in Limits \cup {0}
        /\ vp.count = Len(lines)
    BY <1>2, Zenon DEF PaneTypeOK
  <2> QED BY <1>1, <2>1, <2>2, Zenon DEF PaneTypeOK
<1>5. Displayed'
  BY <1>1, <1>2 DEF Displayed
<1>6. UpToKnown'
  <2>1. known <= Len(logs) => Merged(blocks, open, known)'
    <3> SUFFICES ASSUME known <= Len(logs) PROVE Merged(blocks, open, known)'
      OBVIOUS
    <3>1. Merged(blocks', open', known)
      BY <1>1, <1>2 DEF UpToKnown
    <3> QED BY <1>1, <3>1, PaneNumbers, MergedKept
  <2> QED BY <1>1, <1>2, <2>1 DEF UpToKnown
<1>7. BeforeFirstFrame'
  BY <1>1, <1>2 DEF BeforeFirstFrame
<1> QED BY <1>1, <1>2, <1>3, <1>4, <1>5, <1>6, <1>7, Zenon DEF PaneInv

\* Each line belongs to a block, so that sync_selected_block_to_viewport
\* (tui.cpp:361-376) finds one.
LEMMA BlockAtLine ==
    ASSUME PaneInv, NEW line \in Nat, line < Len(lines)
    PROVE  BlockAt(line) \in 1..Len(blocks)
<1> DEFINE m == Len(blocks)
           O == Owns(blocks, width)
<1>1. Len(lines) \in Nat /\ m \in Nat /\ DOMAIN starts = 1..m /\ Len(starts) = m
  BY PaneNumbers
<1>2. Parts(O, m) /\ LaidOut(lines, starts, O, m)
  BY OwnsAre DEF PaneInv, Displayed
<1> HIDE DEF O, m
<1>3. \A j \in 1..m : starts[j] \in Nat /\ Sizes(O, m)[j] \in Nat
  BY <1>1, <1>2, LaidNumbers
<1>4. /\ \A j \in 1..m : starts[j] + Sizes(O, m)[j] = IF j = m THEN Len(lines) ELSE starts[j + 1]
      /\ \A i \in 1..Len(lines) : \E j \in 1..m : starts[j] < i /\ i <= starts[j] + Sizes(O, m)[j]
  BY <1>2, Zenon DEF LaidOut, Tiles
<1>5. PICK j \in 1..m : starts[j] < line + 1 /\ line + 1 <= starts[j] + Sizes(O, m)[j]
  <2>1. line + 1 \in 1..Len(lines)
    BY <1>1
  <2> QED BY <1>4, <2>1
<1>6. starts[j] <= line /\ (j = m \/ starts[j + 1] > line)
  <2>1. starts[j] <= line
    BY <1>3, <1>5
  <2>2. CASE j # m
    <3>1. starts[j] + Sizes(O, m)[j] = starts[j + 1]
      BY <1>4, <2>2
    <3> QED BY <1>3, <1>5, <2>1, <3>1
  <2> QED BY <2>1, <2>2
<1>7. \E i \in DOMAIN starts : /\ starts[i] <= line \/ i = 1
                               /\ i = Len(starts) \/ starts[i + 1] > line
  BY <1>1, <1>6
<1>8. BlockAt(line) \in DOMAIN starts
  BY <1>7, Zenon DEF BlockAt
<1> QED BY <1>1, <1>8 DEF m

LEMMA SyncedOK ==
    ASSUME PaneInv, NEW v, ViewportOK(v), v.count = Len(lines)
    PROVE  /\ blocks # <<>> => Synced(v) \in DOMAIN blocks
           /\ blocks = <<>> => Synced(v) = selected
<1>1. /\ Len(blocks) \in Nat /\ DOMAIN blocks = 1..Len(blocks)
      /\ (blocks # <<>> <=> Len(blocks) > 0) /\ (starts # <<>> <=> Len(blocks) > 0)
      /\ Len(lines) \in Nat
  BY PaneNumbers
<1>2. CASE blocks = <<>>
  BY <1>1, <1>2 DEF Synced
<1>3. CASE blocks # <<>>
  <2> DEFINE O == Owns(blocks, width)
  <2>1. Parts(O, Len(blocks)) /\ LaidOut(lines, starts, O, Len(blocks))
    BY OwnsAre DEF PaneInv, Displayed
  <2>2. 1 \in 1..Len(blocks)
    BY <1>1, <1>3
  <2>3. starts[1] \in Nat /\ Len(O[1]) \in Nat /\ Len(O[1]) > 0
        /\ starts[1] + Len(O[1]) <= Len(lines)
    <3> HIDE DEF O
    <3> QED BY <1>1, <2>1, <2>2, LaidNumbers
  <2>4. Len(lines) > 0
    <3> HIDE DEF O
    <3> QED BY <1>1, <2>3
  <2>5. v.current \in Nat /\ v.current < Len(lines)
    BY <1>1, <2>4 DEF ViewportOK
  <2>6. Synced(v) = BlockAt(v.current)
    BY <1>1, <1>3 DEF Synced
  <2> QED BY <1>1, <1>3, <2>5, <2>6, BlockAtLine
<1> QED BY <1>2, <1>3

LEMMA CountKept ==
    ASSUME NEW v, ViewportOK(v), NEW n \in Nat
    PROVE  /\ ScrollUp(v, n).count = v.count /\ ScrollDown(v, n).count = v.count
           /\ FollowTail(v).count = v.count /\ Home(v).count = v.count
           /\ Tick(v).count = v.count /\ JumpTo(v, n).count = v.count
<1>1. v \in Viewports
  BY DEF ViewportOK, Viewports
<1>2. ScrollUp(v, n).count = v.count /\ ScrollDown(v, n).count = v.count
  BY <1>1 DEF ScrollUp, ScrollDown, Viewports
<1>3. FollowTail(v).count = v.count /\ Home(v).count = v.count
  BY <1>1 DEF FollowTail, Home, At, Viewports
<1>4. JumpTo(v, n).count = v.count
  BY <1>1 DEF JumpTo, At, Viewports
<1> QED BY <1>2, <1>3, <1>4, TickFields

LEMMA MovedOK ==
    ASSUME PaneInv, NEW v, ViewportOK(v), v.count = vp.count, Moved(v)
    PROVE  PaneInv'
<1> DEFINE changed == v.current # vp.current
<1>1. /\ vp' = v
      /\ selected' = IF changed /\ pane = "Scrollback" THEN Synced(v) ELSE selected
      /\ UNCHANGED <<session, known, content, width, limit>> /\ pane' = pane
      /\ Keep(changed)
  BY Zenon DEF Moved
<1>2. /\ vp.count = Len(lines) /\ pane \in {"Prompt", "Scrollback"}
      /\ (pane = "Scrollback" => ~inTask) /\ (blocks # <<>> => selected \in DOMAIN blocks)
  BY DEF PaneInv, PaneTypeOK
<1>3. changed \/ Panel' = Panel
  <2> SUFFICES ASSUME ~changed PROVE Panel' = Panel
    OBVIOUS
  <2>1. v.current = vp.current
    OBVIOUS
  <2>2. RenderWindow(v, limit) = RenderWindow(vp, limit)
    BY <2>1, WindowKept
  <2>3. selected' = selected /\ lines' = lines /\ limit' = limit /\ width' = width
    BY <1>1 DEF content
  <2> QED BY <1>1, <2>2, <2>3, Zenon DEF Panel
<1>4. /\ blocks # <<>> => selected' \in DOMAIN blocks
      /\ blocks = <<>> => selected' = selected
  BY <1>1, <1>2, SyncedOK, Zenon
<1>5. changed \in BOOLEAN
  OBVIOUS
<1> HIDE DEF changed
<1>6. vp'.count = vp.count /\ ViewportOK(vp')
  BY <1>1, Zenon
<1> QED BY <1>1, <1>2, <1>3, <1>4, <1>5, <1>6, KeysKeep

LEMMA ViewportIsOK ==
    ASSUME PaneInv
    PROVE  ViewportOK(vp) /\ vp.count = Len(lines)
BY DEF PaneInv, PaneTypeOK

LEMMA ScrollOK ==
    ASSUME PaneInv, NEW n \in PageSizes, Scroll(n)
    PROVE  PaneInv'
<1>1. n \in Nat /\ ViewportOK(vp)
  BY PaneFacts, ViewportIsOK
<1>2. PICK v \in {Tick(ScrollUp(vp, n)), Tick(ScrollDown(vp, n))} : Moved(v)
  BY Zenon DEF Scroll
<1>3. /\ ViewportOK(ScrollUp(vp, n)) /\ ScrollUp(vp, n).count = vp.count
      /\ ViewportOK(ScrollDown(vp, n)) /\ ScrollDown(vp, n).count = vp.count
  BY <1>1, ScrollUpOK, ScrollDownOK, CountKept
<1>4. ViewportOK(v) /\ v.count = vp.count
  <2>1. CASE v = Tick(ScrollUp(vp, n))
    BY <1>3, <2>1, TickOK, TickFields
  <2>2. CASE v = Tick(ScrollDown(vp, n))
    BY <1>3, <2>2, TickOK, TickFields
  <2> QED BY <1>2, <2>1, <2>2
<1> QED BY <1>2, <1>4, MovedOK

LEMMA AnimationTickOK ==
    ASSUME PaneInv, AnimationTick
    PROVE  PaneInv'
<1>1. ViewportOK(Tick(vp)) /\ Tick(vp).count = vp.count
  BY ViewportIsOK, TickOK, TickFields
<1> QED BY <1>1, MovedOK DEF AnimationTick

LEMMA HomeOrEndOK ==
    ASSUME PaneInv, HomeOrEnd
    PROVE  PaneInv'
<1>1. PICK end \in BOOLEAN :
        LET v == IF end THEN FollowTail(vp) ELSE Home(vp)
            choose == pane = "Scrollback" /\ blocks # <<>>
        IN  /\ vp' = v
            /\ selected' = IF choose THEN (IF end THEN Len(blocks) ELSE 1)
                                     ELSE selected
            /\ UNCHANGED <<session, known, content, width, limit, pane>>
            /\ Keep(choose \/ v.current # vp.current)
  BY Zenon DEF HomeOrEnd
<1> DEFINE choose == pane = "Scrollback" /\ blocks # <<>>
           changed == choose \/ vp'.current # vp.current
<1>2. /\ vp' = IF end THEN FollowTail(vp) ELSE Home(vp)
      /\ selected' = IF choose THEN (IF end THEN Len(blocks) ELSE 1) ELSE selected
      /\ UNCHANGED <<session, known, content, width, limit>> /\ pane' = pane
      /\ Keep(changed)
  BY <1>1, Zenon
<1>3. /\ vp.count = Len(lines) /\ pane \in {"Prompt", "Scrollback"}
      /\ (pane = "Scrollback" => ~inTask) /\ (blocks # <<>> => selected \in DOMAIN blocks)
  BY DEF PaneInv, PaneTypeOK
<1>4. ViewportOK(vp') /\ vp'.count = vp.count
  <2>1. CASE end
    BY <1>2, <2>1, ViewportIsOK, FollowTailOK, CountKept
  <2>2. CASE ~end
    BY <1>2, <2>2, ViewportIsOK, HomeOK, CountKept
  <2> QED BY <2>1, <2>2
<1>5. /\ blocks # <<>> => selected' \in DOMAIN blocks
      /\ blocks = <<>> => selected' = selected
  BY <1>2, <1>3, PaneNumbers
<1>6. changed \/ Panel' = Panel
  <2> SUFFICES ASSUME ~changed PROVE Panel' = Panel
    OBVIOUS
  <2>1. vp'.current = vp.current /\ ~choose
    OBVIOUS
  <2>2. RenderWindow(vp', limit) = RenderWindow(vp, limit)
    BY <1>4, <2>1, WindowKept
  <2>3. selected' = selected /\ lines' = lines /\ limit' = limit /\ width' = width
    BY <1>2, <2>1 DEF content
  <2> QED BY <1>2, <2>2, <2>3, Zenon DEF Panel
<1>7. changed \in BOOLEAN
  OBVIOUS
<1> HIDE DEF changed
<1> QED BY <1>2, <1>3, <1>4, <1>5, <1>6, <1>7, KeysKeep

LEMMA TabOK ==
    ASSUME PaneInv, Tab
    PROVE  PaneInv'
<1>1. /\ ~inTask
      /\ pane' = IF pane = "Prompt" /\ blocks # <<>> THEN "Scrollback" ELSE "Prompt"
      /\ selected' = IF pane' = "Scrollback" THEN Synced(vp) ELSE selected
      /\ UNCHANGED <<session, known, content, width, limit>> /\ vp' = vp
      /\ Keep(TRUE)
  BY Zenon DEF Tab
<1>2. /\ blocks # <<>> => selected \in DOMAIN blocks
      /\ blocks # <<>> => Synced(vp) \in DOMAIN blocks
      /\ blocks = <<>> => Synced(vp) = selected
  BY ViewportIsOK, SyncedOK DEF PaneInv, PaneTypeOK
<1>3. ViewportOK(vp') /\ vp'.count = vp.count /\ pane' \in {"Prompt", "Scrollback"}
  BY <1>1, ViewportIsOK
<1> QED BY <1>1, <1>2, <1>3, KeysKeep

LEMMA EscapePaneOK ==
    ASSUME PaneInv, EscapePane
    PROVE  PaneInv'
<1>1. /\ ~inTask /\ pane' = "Prompt" /\ selected' = selected
      /\ UNCHANGED <<session, known, content, width, limit>> /\ vp' = vp
      /\ Keep(TRUE)
  BY Zenon DEF EscapePane
<1>2. blocks # <<>> => selected \in DOMAIN blocks
  BY DEF PaneInv, PaneTypeOK
<1>3. ViewportOK(vp') /\ vp'.count = vp.count
  BY <1>1, ViewportIsOK
<1> QED BY <1>1, <1>2, <1>3, KeysKeep

\* focus_selected_block.
LEMMA FocusOK ==
    ASSUME NEW v, ViewportOK(v), NEW sts \in Seq(Nat), NEW sel \in Nat, sel > 0
    PROVE  ViewportOK(Focus(v, sts, sel)) /\ Focus(v, sts, sel).count = v.count
<1>1. CASE sel <= Len(sts)
  <2>1. sts[sel] \in Nat
    BY <1>1, Lengths
  <2> QED BY <1>1, <2>1, JumpToOK, CountKept DEF Focus
<1>2. CASE ~(sel <= Len(sts))
  BY <1>2 DEF Focus
<1> QED BY <1>1, <1>2

LEMMA SelectBlockOK ==
    ASSUME PaneInv, NEW sel \in DOMAIN blocks, SelectBlock(sel)
    PROVE  PaneInv'
<1>1. /\ ~inTask /\ pane' = pane /\ selected' = sel /\ vp' = Focus(vp, starts, sel)
      /\ UNCHANGED <<session, known, content, width, limit>>
      /\ Keep(TRUE)
  BY Zenon DEF SelectBlock
<1>2. pane \in {"Prompt", "Scrollback"}
  BY DEF PaneInv, PaneTypeOK
<1>3. /\ sel \in Nat /\ sel > 0 /\ starts \in Seq(Nat)
      /\ blocks # <<>>
  BY PaneNumbers
<1>4. ViewportOK(vp') /\ vp'.count = vp.count
  BY <1>1, <1>3, ViewportIsOK, FocusOK
<1> QED BY <1>1, <1>2, <1>3, <1>4, KeysKeep

-----------------------------------------------------------------------------
(***************************************************************************)
(* The session. Its log grows, or is another one.                          *)
(***************************************************************************)
LogGrows ==
    /\ logs' \in Seq(Kinds) /\ Len(logs) <= Len(logs') /\ Len(logs') <= MaxLogs[gen]
    /\ \A i \in 1..Len(logs) : logs'[i] = logs[i]

LEMMA OneEntryMore ==
    ASSUME PaneInv, NEW k \in Kinds, Len(logs) < MaxLogs[gen], logs' = Append(logs, k)
    PROVE  LogGrows /\ known # Len(logs')
<1>1. /\ logs \in Seq(Kinds) /\ Len(logs) \in Nat /\ MaxLogs[gen] \in Nat
      /\ MaxLogs[gen] < Unknown /\ Unknown \in Nat /\ known \in Nat
  BY PaneNumbers
<1>2. /\ logs' \in Seq(Kinds) /\ Len(logs') = Len(logs) + 1
      /\ \A i \in 1..Len(logs) : logs'[i] = logs[i]
  <2> HIDE DEF Kinds
  <2> QED BY <1>1, AppendProperties
<1>3. known <= Len(logs) \/ known = Unknown
  BY DEF PaneInv, UpToKnown
<1> QED BY <1>1, <1>2, <1>3 DEF LogGrows

LEMMA SessionKeeps ==
    ASSUME PaneInv, gen' = gen, LogGrows, inTask' \in BOOLEAN,
           UNCHANGED <<known, content, width, limit, selected, pane>>,
           pane = "Scrollback" => ~inTask',
           ViewportOK(vp'), vp'.count = vp.count,
           stale' \in BOOLEAN, drawn' \in BOOLEAN, Fresh'
    PROVE  PaneInv'
<1>1. /\ known' = known /\ width' = width /\ limit' = limit /\ selected' = selected
      /\ blocks' = blocks /\ open' = open /\ lines' = lines /\ starts' = starts
      /\ pane' = pane
  BY DEF content
<1>2. PaneTypeOK /\ Displayed /\ UpToKnown /\ BeforeFirstFrame
  BY DEF PaneInv
<1>3. /\ Len(logs) \in Nat /\ Len(logs) > 0 /\ known \in Nat
      /\ Len(logs') \in Nat /\ logs' # <<>>
      /\ MaxLogs[gen] < Unknown /\ MaxLogs[gen] \in Nat /\ Unknown \in Nat
  <2>1. Len(logs) \in Nat /\ Len(logs) > 0 /\ known \in Nat
        /\ MaxLogs[gen] < Unknown /\ MaxLogs[gen] \in Nat /\ Unknown \in Nat
    BY PaneNumbers
  <2>2. Len(logs') \in Nat /\ (logs' # <<>> <=> Len(logs') > 0)
    <3> HIDE DEF Kinds
    <3> QED BY Lengths, NotEmpty DEF LogGrows
  <2> QED BY <2>1, <2>2 DEF LogGrows
<1>4. PaneTypeOK'
  <2>1. /\ gen \in DOMAIN MaxLogs /\ known \in 0..Unknown
        /\ open \in 0..Len(blocks) /\ Len(starts) = Len(blocks)
        /\ width \in Widths \cup {0} /\ limit \in Limits \cup {0}
        /\ vp.count = Len(lines)
        /\ (blocks # <<>> => selected \in DOMAIN blocks)
        /\ pane \in {"Prompt", "Scrollback"}
    BY <1>2, Zenon DEF PaneTypeOK
  <2>2. {inTask', stale', drawn'} \subseteq BOOLEAN
    BY Zenon
  <2> QED BY <1>1, <2>1, <2>2, Zenon DEF PaneTypeOK, LogGrows
<1>5. UpToKnown'
  <2>1. CASE known <= Len(logs)
    <3>1. Merged(blocks', open', known)
      BY <1>1, <1>2, <2>1 DEF UpToKnown
    <3>2. \A i \in 1..known : logs'[i] = logs[i]
      BY <1>3, <2>1 DEF LogGrows
    <3>3. Merged(blocks, open, known)'
      BY <1>1, <1>3, <3>1, <3>2, MergedKept
    <3>4. known <= Len(logs')
      BY <1>3, <2>1 DEF LogGrows
    <3> QED BY <1>1, <3>3, <3>4 DEF UpToKnown
  <2>2. CASE ~(known <= Len(logs))
    <3>1. known = Unknown
      BY <1>2, <2>2 DEF UpToKnown
    <3>2. ~(known <= Len(logs'))
      BY <1>3, <3>1 DEF LogGrows
    <3> QED BY <1>1, <3>1, <3>2 DEF UpToKnown
  <2> QED BY <2>1, <2>2
<1>6. Displayed' /\ BeforeFirstFrame'
  BY <1>1, <1>2 DEF Displayed, BeforeFirstFrame
<1> QED BY <1>3, <1>4, <1>5, <1>6, Zenon DEF PaneInv

LEMMA TaskLogsOK ==
    ASSUME PaneInv, NEW k \in TaskKinds, TaskLogs(k)
    PROVE  PaneInv'
<1>1. /\ inTask /\ Len(logs) < MaxLogs[gen] /\ logs' = Append(logs, k)
      /\ inTask' \in {TRUE, k # "Error"} /\ gen' = gen
      /\ UNCHANGED <<known, content, width, limit, selected, pane>>
      /\ vp' = vp /\ stale' = stale /\ drawn' = drawn
  BY Zenon DEF TaskLogs, display
<1>2. k \in Kinds
  BY PaneFacts
<1>3. LogGrows /\ known # Len(logs')
  BY <1>1, <1>2, OneEntryMore
<1>4. stale \in BOOLEAN /\ drawn \in BOOLEAN /\ (pane = "Scrollback" => ~inTask)
  BY Zenon DEF PaneInv, PaneTypeOK
<1>5. inTask' \in BOOLEAN
  BY <1>1
<1>6. Fresh'
  BY <1>1, <1>3 DEF Fresh
<1>7. ViewportOK(vp') /\ vp'.count = vp.count /\ stale' \in BOOLEAN /\ drawn' \in BOOLEAN
  BY <1>1, <1>4, ViewportIsOK, Zenon
<1> QED BY <1>1, <1>3, <1>4, <1>5, <1>6, <1>7, SessionKeeps

LEMMA LogTaskEndsOK ==
    ASSUME PaneInv, LogTaskEnds
    PROVE  PaneInv'
<1>1. /\ inTask' = FALSE /\ gen' = gen /\ logs' = logs
      /\ UNCHANGED <<known, content, width, limit, selected, pane>>
      /\ vp' = vp /\ stale' = stale /\ drawn' = drawn
  BY Zenon DEF LogTaskEnds, display
<1>2. LogGrows
  BY <1>1, PaneNumbers DEF LogGrows
<1>3. stale \in BOOLEAN /\ drawn \in BOOLEAN /\ Fresh
  BY Zenon DEF PaneInv, PaneTypeOK
<1>4. Fresh'
  BY <1>1, <1>3 DEF Fresh
<1>5. ViewportOK(vp') /\ vp'.count = vp.count /\ stale' \in BOOLEAN /\ drawn' \in BOOLEAN
  BY <1>1, <1>3, ViewportIsOK, Zenon
<1>6. inTask' \in BOOLEAN /\ ~inTask'
  BY <1>1
<1> QED BY <1>1, <1>2, <1>4, <1>5, <1>6, SessionKeeps

LEMMA KeepsBooleans ==
    ASSUME PaneInv, Keep(FALSE)
    PROVE  stale' \in BOOLEAN /\ drawn' \in BOOLEAN
<1>1. stale \in BOOLEAN /\ drawn \in BOOLEAN
  BY Zenon DEF PaneInv, PaneTypeOK
<1>2. stale' = (stale \/ FALSE) /\ drawn' = (drawn /\ Panel' = Panel /\ ~stale')
  BY DEF Keep
<1> QED BY <1>1, <1>2, Zenon

LEMMA SubmitOK ==
    ASSUME PaneInv, Submit
    PROVE  PaneInv'
<1>1. /\ pane = "Prompt" /\ Len(logs) < MaxLogs[gen]
      /\ \/ inTask' = TRUE /\ logs' = Append(logs, "Task")
         \/ inTask' = FALSE /\ logs' = Append(logs, "System")
      /\ vp' = FollowTail(vp) /\ gen' = gen
      /\ UNCHANGED <<known, content, width, limit, selected, pane>>
      /\ Keep(FALSE)
  BY Zenon DEF Submit
<1>2. LogGrows /\ known # Len(logs')
  <2>1. "Task" \in Kinds /\ "System" \in Kinds
    BY DEF Kinds
  <2> QED BY <1>1, <2>1, OneEntryMore
<1>3. ViewportOK(vp') /\ vp'.count = vp.count
  BY <1>1, ViewportIsOK, FollowTailOK, CountKept
<1>4. Fresh' /\ inTask' \in BOOLEAN
  BY <1>1, <1>2 DEF Fresh
<1>5. stale' \in BOOLEAN /\ drawn' \in BOOLEAN
  BY <1>1, KeepsBooleans
<1> QED BY <1>1, <1>2, <1>3, <1>4, <1>5, SessionKeeps

\* The revision load_session leaves is one that no log has.
LEMMA LoadSessionOK ==
    ASSUME PaneInv, LoadSession
    PROVE  PaneInv'
<1>1. /\ ~inTask /\ pane = "Prompt" /\ gen < Len(MaxLogs)
      /\ logs' \in Restored /\ gen' = gen + 1 /\ known' = Unknown
      /\ vp' = FollowTail(vp)
      /\ inTask' = inTask /\ width' = width /\ limit' = limit
      /\ selected' = selected /\ pane' = pane
      /\ blocks' = blocks /\ open' = open /\ lines' = lines /\ starts' = starts
      /\ Keep(FALSE)
  BY DEF LoadSession, content
<1>2. PaneTypeOK /\ Displayed /\ BeforeFirstFrame
  BY DEF PaneInv
<1>3. gen + 1 \in DOMAIN MaxLogs
  BY <1>1, PaneNumbers, PaneFacts
<1>4. /\ logs' \in Seq(Kinds) /\ logs' # <<>> /\ Len(logs') \in Nat
      /\ Len(logs') <= MaxLogs[gen + 1] /\ MaxLogs[gen + 1] \in Nat
      /\ MaxLogs[gen + 1] < Unknown /\ Unknown \in Nat
  BY <1>1, <1>3, PaneFacts
<1>5. ~(Unknown <= Len(logs')) /\ Unknown # Len(logs') /\ Unknown \in 0..Unknown
  BY <1>4
<1>6. ViewportOK(vp') /\ vp'.count = vp.count /\ vp.count = Len(lines)
  BY <1>1, ViewportIsOK, FollowTailOK, CountKept
<1>7. PaneTypeOK'
  <2>1. /\ open \in 0..Len(blocks) /\ Len(starts) = Len(blocks)
        /\ width \in Widths \cup {0} /\ limit \in Limits \cup {0}
        /\ (blocks # <<>> => selected \in DOMAIN blocks)
        /\ pane \in {"Prompt", "Scrollback"} /\ inTask \in BOOLEAN
    BY <1>2, Zenon DEF PaneTypeOK
  <2>2. {inTask', stale', drawn'} \subseteq BOOLEAN
    BY <1>1, <2>1, KeepsBooleans, Zenon
  <2>3. gen' \in DOMAIN MaxLogs /\ Len(logs') <= MaxLogs[gen']
    BY <1>1, <1>3, <1>4
  <2> QED BY <1>1, <1>4, <1>5, <1>6, <2>1, <2>2, <2>3, Zenon DEF PaneTypeOK
<1>8. Displayed'
  BY <1>1, <1>2 DEF Displayed
<1>9. UpToKnown' /\ BeforeFirstFrame' /\ Fresh'
  BY <1>1, <1>2, <1>5 DEF UpToKnown, BeforeFirstFrame, Fresh
<1> QED BY <1>4, <1>7, <1>8, <1>9, Zenon DEF PaneInv

-----------------------------------------------------------------------------
(***************************************************************************)
(* Folding. A fold changes neither what a block is nor whether it runs,    *)
(* and only its own lines.                                                 *)
(***************************************************************************)
LEMMA MergedSame ==
    ASSUME NEW bs, NEW o, NEW n \in Nat, Merged(bs, o, n),
           NEW cs \in Seq(Blocks), Len(cs) = Len(bs),
           \A j \in 1..Len(bs) : /\ cs[j].entry = bs[j].entry
                                 /\ cs[j].observed = bs[j].observed
                                 /\ cs[j].running <=> bs[j].running
    PROVE  Merged(cs, o, n)
<1>1. OneRuns(bs, o) /\ ShowsLog(bs, n) /\ bs \in Seq(Blocks)
  BY DEF Merged, OneRuns
<1>2. DOMAIN bs = 1..Len(bs) /\ DOMAIN cs = 1..Len(bs) /\ Len(bs) \in Nat
  BY <1>1, Lengths
<1>3. OneRuns(cs, o)
  BY <1>1, <1>2 DEF OneRuns
<1>4. /\ \A j, k \in DOMAIN bs : j < k => bs[j].entry.place < bs[k].entry.place
      /\ \A i \in 1..n \ Observations(n) : \E j \in DOMAIN bs : bs[j].entry = Entry(i)
      /\ \A j \in DOMAIN bs : \E i \in 1..n \ Observations(n) : Shows(bs[j], i, n)
  BY <1>1, ShowsLogIs
<1>5. \A j, k \in DOMAIN cs : j < k => cs[j].entry.place < cs[k].entry.place
  BY <1>2, <1>4
<1>6. \A i \in 1..n \ Observations(n) : \E j \in DOMAIN cs : cs[j].entry = Entry(i)
  BY <1>2, <1>4, Zenon
<1>7. \A j \in DOMAIN cs : \E i \in 1..n \ Observations(n) : Shows(cs[j], i, n)
  BY <1>2, <1>4, Zenon DEF Shows
<1>8. ShowsLog(cs, n)
  BY <1>5, <1>6, <1>7, ShowsLogIs
<1> QED BY <1>3, <1>8 DEF Merged

LEMMA Folded ==
    ASSUME NEW b \in Blocks
    PROVE  LET c == [b EXCEPT !.expanded = ~@]
           IN  /\ c \in Blocks /\ c.entry = b.entry /\ c.observed = b.observed
               /\ c.running <=> b.running
<1> HIDE DEF Entries
<1> QED BY DEF Blocks

LEMMA ToggleOK ==
    ASSUME PaneInv, Toggle
    PROVE  PaneInv'
<1> DEFINE b == [blocks[selected] EXCEPT !.expanded = ~@]
           bs == [blocks EXCEPT ![selected] = b]
           c == Pieces(bs, open, lines, starts)
           d == Rebuild(c, selected, width)
           O == Owns(blocks, width)
<1>1. /\ ~inTask /\ selected \in DOMAIN blocks
      /\ blocks' = bs /\ lines' = d.lines /\ starts' = d.starts
      /\ vp' = Focus(Sync(vp, Len(d.lines)), d.starts, selected)
      /\ gen' = gen /\ logs' = logs /\ inTask' = inTask /\ known' = known
      /\ open' = open /\ width' = width /\ limit' = limit
      /\ selected' = selected /\ pane' = pane
      /\ Keep(TRUE)
  <2>1. [Content EXCEPT !.blocks = bs] = c
    BY DEF Content, Pieces
  <2>2. [blocks EXCEPT ![selected].expanded = ~@] = bs
    OBVIOUS
  <2> HIDE DEF bs, c
  <2> QED BY <2>1, <2>2 DEF Toggle, session
<1>2. PaneTypeOK /\ logs # <<>> /\ Displayed /\ UpToKnown /\ BeforeFirstFrame
  BY DEF PaneInv
<1>3. /\ blocks \in Seq(Blocks) /\ Len(blocks) \in Nat /\ DOMAIN blocks = 1..Len(blocks)
      /\ selected \in 1..Len(blocks) /\ known \in Nat /\ blocks[selected] \in Blocks
  <2>1. /\ blocks \in Seq(Blocks) /\ Len(blocks) \in Nat /\ DOMAIN blocks = 1..Len(blocks)
        /\ known \in Nat
    BY PaneNumbers
  <2> QED BY <1>1, <2>1, Lengths
<1>4. /\ b \in Blocks /\ b.entry = blocks[selected].entry
      /\ b.observed = blocks[selected].observed /\ (b.running <=> blocks[selected].running)
  BY <1>3, Folded
<1> HIDE DEF b
<1>5. /\ bs \in Seq(Blocks) /\ Len(bs) = Len(blocks)
      /\ \A j \in 1..Len(blocks) : bs[j] = IF j = selected THEN b ELSE blocks[j]
  BY <1>3, <1>4, OtherBlock
<1> HIDE DEF bs
<1>6. LaidOut(d.lines, d.starts, Owns(bs, width), Len(bs))
  <2>1. Parts(O, Len(blocks)) /\ LaidOut(lines, starts, O, Len(blocks))
    BY <1>2, <1>3, OwnsAre DEF Displayed
  <2>2. selected \in 1..Len(blocks)+1 /\ selected <= Len(bs) + 1
    BY <1>3, <1>5
  <2>3. \A j \in 1..selected-1 : O[j] = Owns(bs, width)[j]
    <3>1. \A j \in 1..selected-1 : j \in 1..Len(blocks) /\ j # selected
      BY <1>3
    <3>2. \A j \in 1..Len(blocks) : O[j] = BlockLines(j, blocks[j], width)
      BY <1>3, OwnsAre
    <3>3. \A j \in 1..Len(blocks) : Owns(bs, width)[j] = BlockLines(j, bs[j], width)
      BY <1>5, OwnsAre
    <3> HIDE DEF O
    <3> QED BY <1>5, <3>1, <3>2, <3>3
  <2> HIDE DEF O, d
  <2>4. SameBefore(O, Owns(bs, width), selected)
    BY <2>3 DEF SameBefore
  <2> QED BY <1>3, <1>5, <2>1, <2>2, <2>4, RebuildIsLaidOut DEF d
<1> HIDE DEF d, O, c
<1>7. d.lines \in Seq(DisplayLines) /\ d.starts \in Seq(Nat) /\ Len(d.starts) = Len(bs)
      /\ Len(d.lines) \in Nat
  <2>1. d.lines \in Seq(DisplayLines) /\ d.starts \in Seq(Nat) /\ Len(d.starts) = Len(bs)
    BY <1>6, Zenon DEF LaidOut
  <2> QED BY <2>1, Lengths
<1>8. ViewportOK(vp') /\ vp'.count = Len(lines')
  <2>1. ViewportOK(Sync(vp, Len(d.lines))) /\ Sync(vp, Len(d.lines)).count = Len(d.lines)
    BY <1>7, ViewportIsOK, SyncOK
  <2>2. selected \in Nat /\ selected > 0
    BY <1>3
  <2>3. ViewportOK(vp') /\ vp'.count = Len(d.lines)
    BY <1>1, <1>7, <2>1, <2>2, FocusOK
  <2> QED BY <1>1, <2>3
<1>9. stale' = TRUE /\ drawn' \in BOOLEAN
  <2>1. stale' = (stale \/ TRUE) /\ drawn' = (drawn /\ Panel' = Panel /\ ~stale')
    BY <1>1 DEF Keep
  <2> QED BY <2>1, Zenon
<1>10. PaneTypeOK'
  <2>1. /\ gen \in DOMAIN MaxLogs /\ logs \in Seq(Kinds) /\ Len(logs) <= MaxLogs[gen]
        /\ known \in 0..Unknown /\ open \in 0..Len(blocks)
        /\ width \in Widths \cup {0} /\ limit \in Limits \cup {0}
        /\ pane \in {"Prompt", "Scrollback"} /\ inTask \in BOOLEAN
    BY <1>2, Zenon DEF PaneTypeOK
  <2>2. {inTask', stale', drawn'} \subseteq BOOLEAN
    BY <1>1, <1>9, <2>1, Zenon
  <2>3. open' \in 0..Len(blocks') /\ Len(starts') = Len(blocks') /\ selected' \in DOMAIN blocks'
    <3>1. DOMAIN bs = 1..Len(blocks)
      BY <1>5, Lengths
    <3> QED BY <1>1, <1>3, <1>5, <1>7, <2>1, <3>1
  <2> QED BY <1>1, <1>8, <2>1, <2>2, <2>3, Zenon DEF PaneTypeOK
<1>11. UpToKnown'
  <2>1. ASSUME known <= Len(logs)  PROVE Merged(blocks, open, known)'
    <3>1. Merged(blocks, open, known)
      BY <1>2, <2>1 DEF UpToKnown
    <3>2. Merged(bs, open, known)
      BY <1>3, <1>4, <1>5, <3>1, MergedSame
    <3>3. Merged(blocks', open', known)
      BY <1>1, <3>2
    <3> QED BY <1>1, <1>3, <3>3, MergedKept
  <2> QED BY <1>1, <1>2, <2>1 DEF UpToKnown
<1>12. Displayed' /\ BeforeFirstFrame' /\ Fresh'
  <2>1. bs # <<>>
    BY <1>3, <1>5, NotEmpty
  <2> QED BY <1>1, <1>5, <1>6, <1>9, <2>1 DEF Displayed, BeforeFirstFrame, Fresh
<1> QED BY <1>1, <1>2, <1>10, <1>11, <1>12, Zenon DEF PaneInv

-----------------------------------------------------------------------------
(***************************************************************************)
(* The frame. It starts from what the screen has, laid out again for       *)
(* another width, or, if the session is another one, from nothing; it adds *)
(* what the log has beyond that.                                           *)
(***************************************************************************)
Shown(c, w) ==
    /\ c = Pieces(c.blocks, c.open, c.lines, c.starts) /\ c.blocks \in Seq(Blocks)
    /\ LaidOut(c.lines, c.starts, Owns(c.blocks, w), Len(c.blocks))

Resync == FullResync(Len(logs))

Base(w) ==
    IF Resync THEN NoContent
    ELSE IF w # width /\ blocks # <<>> THEN Rebuild(Content, 1, w) ELSE Content

\* The number of entries the base has.
Before == IF Resync THEN 0 ELSE known

News == [i \in 1..(Len(logs) - Before) |-> Entry(i + Before)]

LEMMA PiecesAre ==
    ASSUME NEW bs, NEW o, NEW ls, NEW sts
    PROVE  LET c == Pieces(bs, o, ls, sts)
           IN  /\ c.blocks = bs /\ c.open = o /\ c.lines = ls /\ c.starts = sts
               /\ c = Pieces(c.blocks, c.open, c.lines, c.starts)
BY DEF Pieces

LEMMA BaseIs ==
    ASSUME PaneInv, NEW w
    PROVE  /\ Shown(Base(w), w) /\ Before \in 0..Len(logs)
           /\ Merged(Base(w).blocks, Base(w).open, Before)
           /\ known # Len(logs) <=> Before < Len(logs)
<1>1. /\ known \in Nat /\ Len(logs) \in Nat /\ Len(logs) > 0
      /\ blocks \in Seq(Blocks) /\ Len(blocks) \in Nat
      /\ (blocks # <<>> <=> Len(blocks) > 0)
  BY PaneNumbers
<1>2. /\ Before \in 0..Len(logs) /\ (known # Len(logs) <=> Before < Len(logs))
      /\ (~Resync => Before = known /\ known <= Len(logs)) /\ (Resync => Before = 0)
  BY <1>1 DEF Before, Resync, FullResync
<1>3. CASE Resync
  <2>1. Base(w) = Pieces(<<>>, 0, <<>>, <<>>)
    BY <1>3 DEF Base, NoContent, Pieces
  <2>2. <<>> \in Seq(Blocks) /\ Len(<<>>) = 0
    BY EmptySeq
  <2>3. /\ Base(w).blocks = <<>> /\ Base(w).open = 0 /\ Base(w).lines = <<>>
        /\ Base(w).starts = <<>>
        /\ Base(w) = Pieces(Base(w).blocks, Base(w).open, Base(w).lines, Base(w).starts)
    BY <2>1, PiecesAre
  <2>4. LaidOut(<<>>, <<>>, Owns(<<>>, w), 0)
    BY LaidNone
  <2> QED BY <1>2, <1>3, <2>2, <2>3, <2>4, NoneMerged, Zenon DEF Shown
<1>4. CASE ~Resync
  <2>1. Merged(blocks, open, Before)
    BY <1>2, <1>4 DEF PaneInv, UpToKnown
  <2>2. LaidOut(lines, starts, Owns(blocks, width), Len(blocks))
    BY DEF PaneInv, Displayed
  <2>3. Content = Pieces(blocks, open, lines, starts)
    BY DEF Content, Pieces
  <2>4. CASE w # width /\ blocks # <<>>
    <3> DEFINE d == Rebuild(Pieces(blocks, open, lines, starts), 1, w)
    <3>1. Base(w) = d
      BY <1>4, <2>3, <2>4 DEF Base
    <3>2. SameBefore(Owns(blocks, width), Owns(blocks, w), 1)
      BY DEF SameBefore
    <3>3. Parts(Owns(blocks, width), Len(blocks)) /\ 1 \in 1..Len(blocks)+1 /\ 1 <= Len(blocks)+1
      BY <1>1, OwnsAre
    <3>4. LaidOut(d.lines, d.starts, Owns(blocks, w), Len(blocks))
          /\ d = Pieces(blocks, open, d.lines, d.starts)
      BY <1>1, <2>2, <3>2, <3>3, RebuildIsLaidOut
    <3> HIDE DEF d
    <3>5. d.blocks = blocks /\ d.open = open
      BY <3>4, PiecesAre
    <3>6. Shown(d, w)
      BY <1>1, <3>4, <3>5, Zenon DEF Shown
    <3> QED BY <1>2, <2>1, <3>1, <3>5, <3>6
  <2>5. CASE ~(w # width /\ blocks # <<>>)
    <3>1. Base(w) = Pieces(blocks, open, lines, starts)
      BY <1>4, <2>3, <2>5 DEF Base
    <3>2. /\ Base(w).blocks = blocks /\ Base(w).open = open /\ Base(w).lines = lines
          /\ Base(w).starts = starts
          /\ Base(w) = Pieces(Base(w).blocks, Base(w).open, Base(w).lines, Base(w).starts)
      BY <3>1, PiecesAre
    <3>3. LaidOut(lines, starts, Owns(blocks, w), Len(blocks))
      <4>1. CASE w = width
        BY <2>2, <4>1
      <4>2. CASE w # width
        <5>1. Len(blocks) = 0
          BY <1>1, <2>5, <4>2
        <5>2. \A j \in 1..Len(blocks) : Owns(blocks, w)[j] = Owns(blocks, width)[j]
          BY <5>1
        <5>3. Len(blocks) \in Nat
          BY <5>1
        <5> QED BY <2>2, <5>2, <5>3, LaidSame
      <4> QED BY <4>1, <4>2
    <3>4. Shown(Base(w), w)
      BY <1>1, <3>2, <3>3, Zenon DEF Shown
    <3> QED BY <1>2, <2>1, <3>2, <3>4
  <2> QED BY <2>4, <2>5
<1> QED BY <1>3, <1>4

NewContent(w) ==
    LET p == AppendEntries(Base(w).blocks, Base(w).open, News)
    IN  IF Before < Len(logs)
        THEN Rebuild(Pieces(p.blocks, p.open, Base(w).lines, Base(w).starts), p.first, w)
        ELSE Base(w)

LEMMA NewContentIs ==
    ASSUME PaneInv, NEW w
    PROVE  LET c == NewContent(w)
               p == AppendEntries(Base(w).blocks, Base(w).open, News)
           IN  /\ Shown(c, w) /\ Merged(c.blocks, c.open, Len(logs))
               /\ ChangedFrom(Base(w).blocks, p) /\ c.blocks = p.blocks
               /\ p.first <= Len(p.blocks) \/ Before = Len(logs)
<1> DEFINE c == NewContent(w)
           b == Base(w)
           p == AppendEntries(b.blocks, b.open, News)
<1>1. /\ b = Pieces(b.blocks, b.open, b.lines, b.starts) /\ b.blocks \in Seq(Blocks)
      /\ LaidOut(b.lines, b.starts, Owns(b.blocks, w), Len(b.blocks))
      /\ Before \in 0..Len(logs) /\ Merged(b.blocks, b.open, Before)
  BY BaseIs DEF Shown
<1>2. gen \in Nat /\ logs \in Seq(Kinds) /\ Len(logs) \in Nat
  BY PaneNumbers
<1>3. Len(News) = Len(logs) - Before
      /\ \A i \in 1..(Len(logs) - Before) : News[i] = Entry(i + Before)
  BY <1>1, <1>2, NewsAre DEF News
<1> HIDE DEF b
<1>4. /\ Merged(p.blocks, p.open, Len(logs)) /\ ChangedFrom(b.blocks, p)
      /\ Before < Len(logs) => p.first <= Len(p.blocks)
      /\ Before = Len(logs) => p.blocks = b.blocks /\ p.open = b.open
  BY <1>1, <1>2, <1>3, EntriesAreMerged
<1> HIDE DEF p
<1>5. p.blocks \in Seq(Blocks) /\ Len(p.blocks) \in Nat /\ Len(b.blocks) \in Nat
  <2>1. p.blocks \in Seq(Blocks)
    BY <1>4 DEF Merged, OneRuns
  <2> QED BY <1>1, <2>1, Lengths
<1>6. CASE Before < Len(logs)
  <2> DEFINE d == Rebuild(Pieces(p.blocks, p.open, b.lines, b.starts), p.first, w)
  <2>1. c = d
    BY <1>6 DEF NewContent, p, b
  <2>2. /\ p.first \in 1..Len(b.blocks)+1 /\ Len(b.blocks) <= Len(p.blocks)
        /\ \A j \in 1..Len(b.blocks) : j < p.first => p.blocks[j] = b.blocks[j]
    BY <1>4 DEF ChangedFrom
  <2>3. SameBefore(Owns(b.blocks, w), Owns(p.blocks, w), p.first)
    <3>1. \A j \in 1..p.first-1 : j \in 1..Len(b.blocks) /\ j < p.first /\ j \in 1..Len(p.blocks)
      BY <1>5, <2>2
    <3>2. \A j \in 1..Len(b.blocks) : Owns(b.blocks, w)[j] = BlockLines(j, b.blocks[j], w)
      BY <1>1, OwnsAre
    <3>3. \A j \in 1..Len(p.blocks) : Owns(p.blocks, w)[j] = BlockLines(j, p.blocks[j], w)
      BY <1>5, OwnsAre
    <3>4. \A j \in 1..p.first-1 : Owns(b.blocks, w)[j] = Owns(p.blocks, w)[j]
      BY <2>2, <3>1, <3>2, <3>3, Zenon
    <3> QED BY <3>4 DEF SameBefore
  <2>4. Parts(Owns(b.blocks, w), Len(b.blocks)) /\ p.first <= Len(p.blocks) + 1
    BY <1>1, <1>5, <2>2, OwnsAre
  <2>5. LaidOut(d.lines, d.starts, Owns(p.blocks, w), Len(p.blocks))
        /\ d = Pieces(p.blocks, p.open, d.lines, d.starts)
    BY <1>1, <1>5, <2>2, <2>3, <2>4, RebuildIsLaidOut
  <2> HIDE DEF d
  <2>6. d.blocks = p.blocks /\ d.open = p.open
    BY <2>5, PiecesAre
  <2>7. Shown(d, w)
    BY <1>5, <2>5, <2>6, Zenon DEF Shown
  <2> HIDE DEF c
  <2>8. Shown(c, w) /\ Merged(c.blocks, c.open, Len(logs)) /\ c.blocks = p.blocks
    BY <1>4, <2>1, <2>6, <2>7
  <2> QED BY <1>4, <1>6, <2>8, Zenon DEF c, p, b
<1>7. CASE ~(Before < Len(logs))
  <2>1. Before = Len(logs)
    BY <1>1, <1>2, <1>7
  <2>2. c = b
    BY <1>7 DEF NewContent, b
  <2>3. Shown(b, w)
    BY BaseIs DEF b
  <2> HIDE DEF c
  <2>4. Shown(c, w) /\ Merged(c.blocks, c.open, Len(logs)) /\ c.blocks = p.blocks
    BY <1>4, <2>1, <2>2, <2>3
  <2> QED BY <1>4, <2>1, <2>4, Zenon DEF c, p, b
<1> QED BY <1>6, <1>7

\* The first entry of a log is never the observation of another.
LEMMA MergedNotEmpty ==
    ASSUME NEW bs, NEW o, NEW n \in Nat, n > 0, Merged(bs, o, n)
    PROVE  bs # <<>>
<1>1. 1 \in 1..n \ Observations(n)
  <2>1. \A i \in 1..n : 1 \notin ObservationOf(i, n)
    BY DEF ObservationOf
  <2> QED BY <2>1 DEF Observations
<1>2. \E j \in DOMAIN bs : bs[j].entry = Entry(1)
  BY <1>1, ShowsLogIs DEF Merged
<1> QED BY <1>2

LEMMA FrameIs ==
    ASSUME PaneInv, NEW w \in Widths, NEW l \in Limits, Frame(w, l)
    PROVE  LET c == NewContent(w)
               changed == Before < Len(logs)
               sel == Smaller(IF Resync THEN 1 ELSE selected, Len(c.blocks))
               synced == Sync(vp, Len(c.lines))
               redraw == \/ stale \/ w # width \/ l # limit \/ Resync \/ changed
                         \/ vp'.current # vp.current
           IN  /\ gen' = gen /\ logs' = logs /\ inTask' = inTask /\ pane' = pane
               /\ known' = Len(logs) /\ width' = w /\ limit' = l
               /\ blocks' = c.blocks /\ open' = c.open
               /\ lines' = c.lines /\ starts' = c.starts
               /\ selected' = sel /\ stale' = FALSE
               /\ vp' = IF changed /\ pane = "Scrollback" /\ sel <= Len(c.starts)
                        THEN JumpTo(synced, c.starts[sel]) ELSE synced
               /\ drawn' = (redraw \/ (drawn /\ Panel' = Panel))
<1> DEFINE n == Len(logs)
           base == Base(w)
           news == [i \in 1..(IF Resync THEN n ELSE n - known)
                        |-> Entry(i + IF Resync THEN 0 ELSE known)]
           p == AppendEntries(base.blocks, base.open, news)
           q == AppendEntries(base.blocks, base.open, News)
           old == known # n /\ p.first <= Len(p.blocks)
           filled == [base EXCEPT !.blocks = p.blocks, !.open = p.open]
           c == IF old THEN Rebuild(filled, p.first, w) ELSE base
           sel == IF c.blocks = <<>> THEN selected
                  ELSE Smaller(IF Resync THEN 1 ELSE selected, Len(c.blocks))
           synced == Sync(vp, Len(c.lines))
           v == IF old /\ pane = "Scrollback" /\ sel <= Len(c.starts)
                THEN JumpTo(synced, c.starts[sel]) ELSE synced
           redraw == \/ stale \/ w # width \/ l # limit \/ Resync \/ old
                     \/ v.current # vp.current
<1>1. /\ gen' = gen /\ logs' = logs /\ inTask' = inTask /\ pane' = pane
      /\ known' = n /\ width' = w /\ limit' = l
      /\ blocks' = c.blocks /\ open' = c.open /\ lines' = c.lines /\ starts' = c.starts
      /\ selected' = sel /\ stale' = FALSE /\ vp' = v
      /\ drawn' = (redraw \/ (drawn /\ Panel' = Panel))
  BY Zenon DEF Frame, Base, Resync, session
<1>2. Len(logs) \in Nat /\ Len(logs) > 0 /\ known \in Nat
  BY PaneNumbers
<1>3. news = News
  BY <1>2 DEF News, Before
<1>4. p = q
  BY <1>3
<1>5. /\ Shown(NewContent(w), w) /\ Merged(NewContent(w).blocks, NewContent(w).open, Len(logs))
      /\ q.first <= Len(q.blocks) \/ Before = Len(logs)
  BY NewContentIs
<1>6. (known # Len(logs) <=> Before < Len(logs)) /\ Before \in 0..Len(logs)
      /\ base = Pieces(base.blocks, base.open, base.lines, base.starts)
  BY BaseIs DEF Shown
<1> HIDE DEF news, base, q
<1>7. old <=> Before < Len(logs)
  BY <1>2, <1>4, <1>5, <1>6
<1>8. filled = Pieces(q.blocks, q.open, base.lines, base.starts)
  <2>1. PICK bs, o, ls, sts : base = Pieces(bs, o, ls, sts)
    BY <1>6, Zenon
  <2>2. base.lines = ls /\ base.starts = sts
    BY <2>1, PiecesAre
  <2>3. filled = [Pieces(bs, o, ls, sts) EXCEPT !.blocks = p.blocks, !.open = p.open]
    BY <2>1
  <2> HIDE DEF filled, p
  <2>4. filled = Pieces(p.blocks, p.open, ls, sts)
    BY <2>3 DEF Pieces
  <2> QED BY <1>4, <2>2, <2>4
<1> HIDE DEF old, filled, p
<1>9. c = NewContent(w)
  BY <1>4, <1>7, <1>8 DEF NewContent, base, q
<1> HIDE DEF c
<1>10. c.blocks # <<>>
  BY <1>2, <1>5, <1>9, MergedNotEmpty
<1>11. sel = Smaller(IF Resync THEN 1 ELSE selected, Len(c.blocks))
  BY <1>10
<1> HIDE DEF sel
<1> QED BY <1>1, <1>7, <1>9, <1>11, Zenon

LEMMA SelectedIs ==
    ASSUME PaneInv
    PROVE  /\ selected \in Nat /\ selected > 0
           /\ blocks # <<>> => selected <= Len(blocks)
<1>1. CASE blocks = <<>>
  BY <1>1 DEF PaneInv, BeforeFirstFrame
<1>2. CASE blocks # <<>>
  <2>1. selected \in DOMAIN blocks
    BY <1>2 DEF PaneInv, PaneTypeOK
  <2> QED BY <2>1, PaneNumbers
<1> QED BY <1>1, <1>2

\* What a frame leaves.
LEMMA FrameLeaves ==
    ASSUME PaneInv, NEW w \in Widths, NEW l \in Limits, Frame(w, l)
    PROVE  /\ Merged(blocks', open', Len(logs))
           /\ blocks' \in Seq(Blocks) /\ blocks' # <<>>
           /\ LaidOut(lines', starts', Owns(blocks', w), Len(blocks'))
           /\ Len(lines') \in Nat /\ starts' \in Seq(Nat) /\ Len(starts') = Len(blocks')
           /\ Len(blocks') \in Nat /\ open' \in 0..Len(blocks')
           /\ selected' \in 1..Len(blocks')
           /\ ViewportOK(vp') /\ vp'.count = Len(lines')
<1> DEFINE c == NewContent(w)
           changed == Before < Len(logs)
           sel == Smaller(IF Resync THEN 1 ELSE selected, Len(c.blocks))
           synced == Sync(vp, Len(c.lines))
<1>1. /\ blocks' = c.blocks /\ open' = c.open /\ lines' = c.lines /\ starts' = c.starts
      /\ selected' = sel
      /\ vp' = IF changed /\ pane = "Scrollback" /\ sel <= Len(c.starts)
               THEN JumpTo(synced, c.starts[sel]) ELSE synced
  BY FrameIs
<1>2. Shown(c, w) /\ Merged(c.blocks, c.open, Len(logs))
  BY NewContentIs
<1> HIDE DEF c
<1>3. /\ c.blocks \in Seq(Blocks) /\ LaidOut(c.lines, c.starts, Owns(c.blocks, w), Len(c.blocks))
      /\ c.open \in 0..Len(c.blocks)
  BY <1>2, Zenon DEF Shown, Merged, OneRuns
<1>4. /\ c.lines \in Seq(DisplayLines) /\ c.starts \in Seq(Nat)
      /\ Len(c.starts) = Len(c.blocks)
  BY <1>3, Zenon DEF LaidOut
<1>5. c.blocks # <<>> /\ Len(c.blocks) \in Nat /\ Len(c.blocks) > 0 /\ Len(c.lines) \in Nat
  <2>1. c.blocks # <<>>
    BY <1>2, PaneNumbers, MergedNotEmpty
  <2> QED BY <1>3, <1>4, <2>1, Lengths, NotEmpty
<1>6. sel \in 1..Len(c.blocks)
  BY <1>5, SelectedIs DEF Smaller
<1> HIDE DEF sel
<1>7. ViewportOK(vp') /\ vp'.count = Len(c.lines)
  <2>1. ViewportOK(synced) /\ synced.count = Len(c.lines)
    BY <1>5, ViewportIsOK, SyncOK
  <2>2. c.starts[sel] \in Nat
    <3>1. sel \in 1..Len(c.starts)
      BY <1>4, <1>6
    <3> QED BY <1>4, <3>1, Lengths
  <2> HIDE DEF synced
  <2>3. ViewportOK(JumpTo(synced, c.starts[sel])) /\ JumpTo(synced, c.starts[sel]).count = Len(c.lines)
    BY <2>1, <2>2, JumpToOK, CountKept
  <2> QED BY <1>1, <2>1, <2>3
<1> HIDE DEF synced, changed
<1>8. selected' \in 1..Len(c.blocks)
  BY <1>1, <1>6
<1> QED BY <1>1, <1>2, <1>3, <1>4, <1>5, <1>7, <1>8, Zenon

\* A frame that has nothing to redraw finds the panel as it is.
LEMMA FrameIsDrawn ==
    ASSUME PaneInv, NEW w \in Widths, NEW l \in Limits, Frame(w, l)
    PROVE  drawn' = TRUE
<1> DEFINE c == NewContent(w)
           changed == Before < Len(logs)
           redraw == \/ stale \/ w # width \/ l # limit \/ Resync \/ changed
                     \/ vp'.current # vp.current
<1>1. /\ pane' = pane /\ width' = w /\ limit' = l /\ blocks' = c.blocks /\ lines' = c.lines
      /\ selected' = Smaller(IF Resync THEN 1 ELSE selected, Len(c.blocks))
      /\ drawn' = (redraw \/ (drawn /\ Panel' = Panel))
      /\ ~changed => vp' = Sync(vp, Len(c.lines))
  BY FrameIs
<1>2. ASSUME ~redraw  PROVE drawn = TRUE /\ Panel' = Panel
  <2>1. /\ ~stale /\ w = width /\ l = limit /\ ~Resync /\ ~changed
        /\ vp'.current = vp.current
    BY <1>2
  <2>2. known = Len(logs)
    BY <2>1, BaseIs
  <2>3. drawn = TRUE
    <3>1. drawn \in BOOLEAN
      BY Zenon DEF PaneInv, PaneTypeOK
    <3>2. drawn
      BY <2>1, <2>2 DEF PaneInv, Fresh
    <3> QED BY <3>1, <3>2
  <2>4. c = Content
    BY <2>1 DEF NewContent, Base
  <2>5. lines' = lines /\ blocks' = blocks
    BY <1>1, <2>4 DEF Content
  <2>6. selected' = selected
    <3>1. blocks # <<>> /\ Len(blocks) \in Nat
      BY <2>5, FrameLeaves, PaneNumbers
    <3>2. selected' = Smaller(selected, Len(blocks))
      BY <1>1, <2>1, <2>5
    <3> QED BY <3>1, <3>2, SelectedIs DEF Smaller
  <2>7. vp'.count = vp.count
    BY <2>5, FrameLeaves, ViewportIsOK
  <2>8. RenderWindow(vp', limit) = RenderWindow(vp, limit)
    BY <2>1, <2>7, WindowKept
  <2>9. width' = width /\ limit' = limit
    BY <1>1, <2>1
  <2> QED BY <1>1, <2>3, <2>5, <2>6, <2>8, <2>9, Zenon DEF Panel
<1> HIDE DEF redraw
<1> QED BY <1>1, <1>2, Zenon

LEMMA FrameOK ==
    ASSUME PaneInv, NEW w \in Widths, NEW l \in Limits, Frame(w, l)
    PROVE  PaneInv'
<1>1. /\ gen' = gen /\ logs' = logs /\ inTask' = inTask /\ pane' = pane
      /\ known' = Len(logs) /\ width' = w /\ limit' = l /\ stale' = FALSE
  BY FrameIs
<1>2. /\ Merged(blocks', open', Len(logs))
      /\ blocks' \in Seq(Blocks) /\ blocks' # <<>>
      /\ LaidOut(lines', starts', Owns(blocks', w), Len(blocks'))
      /\ Len(starts') = Len(blocks') /\ open' \in 0..Len(blocks')
      /\ selected' \in 1..Len(blocks')
      /\ ViewportOK(vp') /\ vp'.count = Len(lines')
  BY FrameLeaves
<1>3. drawn' = TRUE
  BY FrameIsDrawn
<1>4. /\ Len(logs) \in Nat /\ Len(logs) \in 0..Unknown
  BY PaneNumbers
<1>5. PaneTypeOK'
  <2>1. /\ gen \in DOMAIN MaxLogs /\ logs \in Seq(Kinds) /\ Len(logs) <= MaxLogs[gen]
        /\ pane \in {"Prompt", "Scrollback"} /\ (pane = "Scrollback" => ~inTask)
        /\ inTask \in BOOLEAN
    BY Zenon DEF PaneInv, PaneTypeOK
  <2>2. {inTask', stale', drawn'} \subseteq BOOLEAN
    BY <1>1, <1>3, <2>1, Zenon
  <2>3. selected' \in DOMAIN blocks'
    BY <1>2, Lengths
  <2> QED BY <1>1, <1>2, <1>4, <2>1, <2>2, <2>3, Zenon DEF PaneTypeOK
<1>6. UpToKnown'
  <2>1. Merged(blocks, open, known)'
    BY <1>1, <1>2, <1>4, MergedKept
  <2> QED BY <1>1, <1>4, <2>1 DEF UpToKnown
<1>7. Displayed' /\ BeforeFirstFrame' /\ Fresh' /\ logs' # <<>>
  BY <1>1, <1>2, <1>3 DEF Displayed, BeforeFirstFrame, Fresh, PaneInv
<1> QED BY <1>5, <1>6, <1>7, Zenon DEF PaneInv

-----------------------------------------------------------------------------
(***************************************************************************)
(* Each step, and what the invariant says of the screen.                   *)
(***************************************************************************)
LEMMA PaneStarts == PaneInit => PaneInv
<1> SUFFICES ASSUME PaneInit PROVE PaneInv
  OBVIOUS
<1>1. /\ gen = 1 /\ logs \in Restored /\ inTask = FALSE /\ known = 0
      /\ blocks = <<>> /\ open = 0 /\ lines = <<>> /\ starts = <<>>
      /\ width = 0 /\ limit = 0
      /\ vp = NewViewport /\ selected = 1 /\ pane = "Prompt"
      /\ stale = TRUE /\ drawn = FALSE
  BY DEF PaneInit
<1>2. /\ 1 \in DOMAIN MaxLogs /\ logs \in Seq(Kinds) /\ logs # <<>>
      /\ Len(logs) <= MaxLogs[1] /\ 0 \in 0..Unknown /\ Len(logs) \in Nat
  BY <1>1, PaneFacts
<1>3. <<>> \in Seq(Blocks) /\ Len(<<>>) = 0 /\ 0 \in 0..0
  BY EmptySeq
<1>4. ViewportOK(vp) /\ vp.count = 0
  <2>1. NewViewport.count = 0
    BY DEF NewViewport
  <2> QED BY <1>1, <2>1, NewOK
<1>5. {inTask, stale, drawn} \subseteq BOOLEAN
  BY <1>1, Zenon
<1>6. PaneTypeOK
  BY <1>1, <1>2, <1>3, <1>4, <1>5 DEF PaneTypeOK
<1>7. Displayed
  BY <1>1, <1>3, LaidNone DEF Displayed
<1>8. UpToKnown /\ BeforeFirstFrame /\ Fresh
  BY <1>1, <1>2, NoneMerged DEF UpToKnown, BeforeFirstFrame, Fresh
<1> QED BY <1>2, <1>6, <1>7, <1>8, Zenon DEF PaneInv

LEMMA PaneRests ==
    ASSUME PaneInv, UNCHANGED paneVars
    PROVE  PaneInv'
<1>1. /\ gen' = gen /\ logs' = logs /\ inTask' = inTask
      /\ UNCHANGED <<known, content, width, limit, selected, pane>>
      /\ known' = known /\ vp' = vp /\ stale' = stale /\ drawn' = drawn
  BY DEF paneVars, session, display
<1>2. LogGrows
  BY <1>1, PaneNumbers DEF LogGrows
<1>3. inTask \in BOOLEAN /\ stale \in BOOLEAN /\ drawn \in BOOLEAN /\ Fresh
      /\ (pane = "Scrollback" => ~inTask)
  BY Zenon DEF PaneInv, PaneTypeOK
<1>4. Fresh'
  BY <1>1, <1>3 DEF Fresh
<1>5. ViewportOK(vp') /\ vp'.count = vp.count
      /\ inTask' \in BOOLEAN /\ stale' \in BOOLEAN /\ drawn' \in BOOLEAN
      /\ (pane = "Scrollback" => ~inTask')
  BY <1>1, <1>3, ViewportIsOK, Zenon
<1> QED BY <1>1, <1>2, <1>4, <1>5, SessionKeeps

LEMMA PaneSteps == PaneInv /\ [PaneNext]_paneVars => PaneInv'
<1> SUFFICES ASSUME PaneInv, [PaneNext]_paneVars PROVE PaneInv'
  OBVIOUS
<1>1. CASE \E w \in Widths, l \in Limits : Frame(w, l)
  BY <1>1, FrameOK
<1>2. CASE \E k \in TaskKinds : TaskLogs(k)
  BY <1>2, TaskLogsOK
<1>3. CASE LogTaskEnds
  BY <1>3, LogTaskEndsOK
<1>4. CASE Submit
  BY <1>4, SubmitOK
<1>5. CASE LoadSession
  BY <1>5, LoadSessionOK
<1>6. CASE \E n \in PageSizes : Scroll(n)
  BY <1>6, ScrollOK
<1>7. CASE AnimationTick
  BY <1>7, AnimationTickOK
<1>8. CASE HomeOrEnd
  BY <1>8, HomeOrEndOK
<1>9. CASE Tab
  BY <1>9, TabOK
<1>10. CASE EscapePane
  BY <1>10, EscapePaneOK
<1>11. CASE Toggle
  BY <1>11, ToggleOK
<1>12. CASE \E sel \in DOMAIN blocks : SelectBlock(sel)
  BY <1>12, SelectBlockOK
<1>13. CASE UNCHANGED paneVars
  BY <1>13, PaneRests
<1> QED BY <1>1, <1>2, <1>3, <1>4, <1>5, <1>6, <1>7, <1>8, <1>9, <1>10, <1>11, <1>12,
           <1>13, Zenon DEF PaneNext

LEMMA PaneIsInvariant == PaneSpec => []PaneInv
BY PaneStarts, PaneSteps, PTL DEF PaneSpec

\* Lines that are laid out are those of the blocks.
LEMMA RenderingIsLaidOut ==
    ASSUME NEW bs \in Seq(Blocks), NEW ls, NEW sts, NEW w,
           LaidOut(ls, sts, Owns(bs, w), Len(bs))
    PROVE  IsRendering(ls, sts, bs, 1, w)
<1> DEFINE m == Len(bs)
           O == Owns(bs, w)
<1>1. Parts(O, m) /\ m \in Nat /\ \A j \in 1..m : O[j] = BlockLines(j, bs[j], w)
  BY OwnsAre
<1> HIDE DEF O, m
<1>2. LaidOut(ls, sts, O, m)
  BY DEF O, m
<1>3. /\ ls \in Seq(DisplayLines) /\ sts \in Seq(Nat) /\ Len(sts) = m /\ Len(ls) \in Nat
      /\ \A j \in 1..m : Sizes(O, m)[j] = Len(O[j])
  BY <1>1, <1>2, LaidNumbers
<1>4. DOMAIN sts = 1..m /\ (sts # <<>> <=> m > 0)
  BY <1>3, Lengths, NotEmpty
<1>5. /\ m = 0 => Len(ls) = 0
      /\ m # 0 => sts[1] = 0
      /\ \A j \in 1..m : sts[j] + Sizes(O, m)[j] = IF j = m THEN Len(ls) ELSE sts[j + 1]
      /\ \A j \in 1..m : \A k \in 1..Len(O[j]) : ls[sts[j] + k] = O[j][k]
  BY <1>2, Zenon DEF LaidOut, Tiles
<1>6. IF sts = <<>> THEN ls = <<>> ELSE sts[1] = 0
  <2>1. ls # <<>> <=> Len(ls) > 0
    BY <1>3, NotEmpty
  <2> QED BY <1>1, <1>3, <1>4, <1>5, <2>1
<1>7. ASSUME NEW j \in DOMAIN sts
      PROVE  LET own == BlockLines(1 + j - 1, bs[1 + j - 1], w)
                 end == IF j = Len(sts) THEN Len(ls) ELSE sts[j + 1]
             IN  /\ end = sts[j] + Len(own)
                 /\ \A k \in DOMAIN own : ls[sts[j] + k] = own[k]
  <2>1. j \in 1..m /\ 1 + j - 1 = j
    BY <1>1, <1>4
  <2>2. BlockLines(1 + j - 1, bs[1 + j - 1], w) = O[j]
    BY <1>1, <2>1
  <2>3. DOMAIN O[j] = 1..Len(O[j])
    <3>1. O[j] \in Seq(DisplayLines)
      BY <1>1, <2>1 DEF Parts
    <3> QED BY <3>1, Lengths
  <2>4. (IF j = Len(sts) THEN Len(ls) ELSE sts[j + 1]) = sts[j] + Len(O[j])
    BY <1>3, <1>5, <2>1, Zenon
  <2>5. \A k \in DOMAIN O[j] : ls[sts[j] + k] = O[j][k]
    BY <1>5, <2>1, <2>3, Zenon
  <2> QED BY <2>2, <2>4, <2>5, Zenon
<1>8. Len(sts) = Len(bs) - 1 + 1
  BY <1>1, <1>3 DEF m
<1> QED BY <1>6, <1>7, <1>8, Zenon DEF IsRendering

\* The log pane's types; what the code indexes with, the blocks' selected one
\* and the one that runs and the viewport's lines, is always there.
THEOREM PaneTypeCorrect == PaneSpec => []PaneTypeOK
BY PaneIsInvariant, PTL DEF PaneInv

\* After a frame the screen shows the whole log of the session on display,
\* each command with its own observation, folded as the user left it
\* (log_block.cpp:29-96, tui.cpp:212-279): for logs of any length, however
\* their entries are spread over the frames and whatever is resized, folded,
\* scrolled or loaded in between; and a panel that is kept is the one a redraw
\* would give.
THEOREM LogStaysWhole == PaneSpec => []LogIsWhole
<1>1. PaneInv => LogIsWhole
  <2> SUFFICES ASSUME PaneInv, known = Len(logs) PROVE LogIsWhole
    BY Zenon DEF LogIsWhole
  <2>1. ShowsLog(blocks, Len(logs))
    <3>1. known <= Len(logs)
      BY PaneNumbers
    <3> QED BY <3>1 DEF PaneInv, UpToKnown, Merged
  <2>2. IsRendering(lines, starts, blocks, 1, width)
    BY RenderingIsLaidOut DEF PaneInv, Displayed
  <2>3. stale \/ drawn
    BY DEF PaneInv, Fresh
  <2> QED BY <2>1, <2>2, <2>3, Zenon DEF LogIsWhole
<1> QED BY <1>1, PaneIsInvariant, PTL

-----------------------------------------------------------------------------
(***************************************************************************)
(* The reader.                                                             *)
(***************************************************************************)
LEMMA BlockIsOnScreen ==
    ASSUME NEW bs \in Seq(Blocks), NEW ls, NEW sts, NEW w,
           LaidOut(ls, sts, Owns(bs, w), Len(bs)), NEW j \in 1..Len(bs)
    PROVE  sts[j] \in Nat /\ sts[j] < Len(ls) /\ Len(ls) \in Nat
<1> DEFINE O == Owns(bs, w)
<1>1. Parts(O, Len(bs)) /\ Len(bs) \in Nat
  BY OwnsAre
<1>2. /\ sts[j] \in Nat /\ Len(O[j]) \in Nat /\ Len(O[j]) > 0
      /\ sts[j] + Len(O[j]) <= Len(ls) /\ Len(ls) \in Nat
  <2> HIDE DEF O
  <2>1. LaidOut(ls, sts, O, Len(bs))
    BY DEF O
  <2> QED BY <1>1, <2>1, LaidNumbers
<1> HIDE DEF O
<1> QED BY <1>2

LEMMA SyncStays ==
    ASSUME NEW v, ViewportOK(v), ~v.following, NEW n \in Nat, v.current < n
    PROVE  Sync(v, n).current = v.current /\ ~Sync(v, n).following
<1>1. v \in Viewports
  BY DEF ViewportOK, Viewports
<1>2. n # 0 /\ Smaller(v.current, n - 1) = v.current
  BY <1>1 DEF Smaller, Viewports
<1> DEFINE t == Smaller(v.target, n - 1)
           w == [v EXCEPT !.count = n]
<1>3. Sync(v, n) = [w EXCEPT !.current = Smaller(v.current, n - 1), !.target = t]
  BY <1>2 DEF Sync
<1> HIDE DEF t
<1>4. Sync(v, n).current = v.current /\ Sync(v, n).following = v.following
  BY <1>1, <1>2, <1>3 DEF Viewports
<1> QED BY <1>4

LEMMA JumpArrives ==
    ASSUME NEW v, ViewportOK(v), NEW line \in Nat, line < v.count
    PROVE  JumpTo(v, line).current = line
<1>1. v \in Viewports
  BY DEF ViewportOK, Viewports
<1>2. v.count # 0 /\ Smaller(line, v.count - 1) = line
  BY <1>1 DEF Smaller, Viewports
<1>3. JumpTo(v, line) = [At(v, line) EXCEPT !.following = FALSE]
  BY <1>2 DEF JumpTo
<1>4. At(v, line) \in Viewports /\ At(v, line).current = line
  BY <1>1, AtFields
<1> QED BY <1>3, <1>4 DEF Viewports

LEMMA FollowTailFollows ==
    ASSUME NEW v, ViewportOK(v)
    PROVE  FollowTail(v).following
<1> DEFINE w == [v EXCEPT !.following = TRUE]
<1>1. v \in Viewports
  BY DEF ViewportOK, Viewports
<1>2. w \in Viewports /\ w.following = TRUE /\ FollowTail(v) \in {w, At(w, v.count - 1)}
  BY <1>1 DEF Viewports, FollowTail
<1> HIDE DEF w
<1>3. At(w, v.count - 1).following = w.following
  BY <1>2 DEF At, Viewports
<1> QED BY <1>2, <1>3

LEMMA FrameMovesNobody ==
    ASSUME PaneInv, NEW w \in Widths, NEW l \in Limits, Frame(w, l),
           known < Len(logs), ~vp.following, width' = width
    PROVE  /\ selected' = selected
           /\ pane = "Prompt" =>
                /\ vp'.current = vp.current /\ ~vp'.following
                /\ \A i \in 1..vp.current + 1 :
                      lines'[i][1] = lines[i][1] /\ lines'[i][2] = lines[i][2]
           /\ pane = "Scrollback" => vp'.current = starts'[selected]
<1> DEFINE c == NewContent(w)
           p == AppendEntries(blocks, open, News)
           synced == Sync(vp, Len(c.lines))
<1>1. /\ width' = w /\ blocks' = c.blocks /\ lines' = c.lines /\ starts' = c.starts
      /\ selected' = Smaller(IF Resync THEN 1 ELSE selected, Len(c.blocks))
      /\ vp' = IF /\ Before < Len(logs) /\ pane = "Scrollback"
                  /\ Smaller(IF Resync THEN 1 ELSE selected, Len(c.blocks)) <= Len(c.starts)
               THEN JumpTo(synced,
                      c.starts[Smaller(IF Resync THEN 1 ELSE selected, Len(c.blocks))])
               ELSE synced
  BY FrameIs
<1>2. /\ known \in Nat /\ Len(logs) \in Nat /\ blocks \in Seq(Blocks) /\ Len(blocks) \in Nat
      /\ Len(lines) \in Nat
  BY PaneNumbers
<1>3. ~Resync /\ Before = known /\ Before \in 0..Len(logs) /\ Before < Len(logs) /\ w = width
  BY <1>1, <1>2 DEF Resync, FullResync, Before
<1>4. blocks # <<>> /\ Len(blocks) > 0
  <2>1. w # 0
    BY PaneFacts
  <2>2. blocks # <<>>
    BY <1>3, <2>1 DEF PaneInv, BeforeFirstFrame
  <2> QED BY <2>2, PaneNumbers
<1>5. Base(w).blocks = blocks /\ Base(w).open = open
  BY <1>3 DEF Base, Content
<1>6. c.blocks = p.blocks /\ ChangedFrom(blocks, p)
  BY <1>5, NewContentIs
<1>7. Merged(blocks, open, Before)
  BY <1>5, BaseIs
<1>8. /\ blocks' \in Seq(Blocks) /\ Len(blocks') \in Nat
      /\ LaidOut(lines', starts', Owns(blocks', w), Len(blocks'))
      /\ Len(lines') \in Nat /\ Len(starts') = Len(blocks')
  BY FrameLeaves
<1> HIDE DEF c, p
<1>9. Len(blocks) <= Len(blocks')
  BY <1>1, <1>6 DEF ChangedFrom
<1>10. selected' = selected /\ selected \in 1..Len(blocks) /\ selected \in 1..Len(blocks')
       /\ Smaller(selected, Len(blocks')) = selected
  BY <1>1, <1>2, <1>3, <1>4, <1>8, <1>9, SelectedIs DEF Smaller
<1>11. LaidOut(lines, starts, Owns(blocks, w), Len(blocks))
  BY <1>3 DEF PaneInv, Displayed
<1>12. Len(lines) <= Len(lines') /\
       \A i \in 1..Len(lines) : lines'[i][1] = lines[i][1] /\ lines'[i][2] = lines[i][2]
  <2>1. SameOutlines(Owns(blocks, w), Owns(blocks', w), Len(blocks))
    <3>1. p.blocks \in Seq(Blocks)
      BY <1>1, <1>6, <1>8
    <3>2. SameOutlines(Owns(blocks, w), Owns(p.blocks, w), Len(blocks))
      BY <1>2, <1>3, <1>6, <1>7, <3>1, OutlinesStay
    <3> QED BY <1>1, <1>6, <3>2
  <2>2. Parts(Owns(blocks, w), Len(blocks)) /\ Parts(Owns(blocks', w), Len(blocks'))
    BY <1>2, <1>8, OwnsAre
  <2> QED BY <1>2, <1>8, <1>9, <1>11, <2>1, <2>2, LinesStay
<1>13. ViewportOK(vp) /\ vp.current \in Nat /\ vp.current < Len(lines)
  <2>1. Len(lines) > 0
    <3>1. 1 \in 1..Len(blocks)
      BY <1>2, <1>4
    <3>2. starts[1] \in Nat /\ starts[1] < Len(lines)
      BY <1>2, <1>11, <3>1, BlockIsOnScreen
    <3> QED BY <1>2, <3>2
  <2> QED BY <2>1, ViewportIsOK DEF ViewportOK
<1>14. ASSUME pane = "Prompt"
       PROVE  /\ vp'.current = vp.current /\ ~vp'.following
              /\ \A i \in 1..vp.current + 1 :
                    lines'[i][1] = lines[i][1] /\ lines'[i][2] = lines[i][2]
  <2>1. vp' = Sync(vp, Len(lines'))
    BY <1>1, <1>14
  <2>2. vp.current < Len(lines')
    BY <1>2, <1>8, <1>12, <1>13
  <2>3. vp'.current = vp.current /\ ~vp'.following
    BY <1>8, <1>13, <2>1, <2>2, SyncStays
  <2>4. \A i \in 1..vp.current + 1 : i \in 1..Len(lines)
    BY <1>2, <1>13
  <2> QED BY <1>12, <2>3, <2>4
<1>15. ASSUME pane = "Scrollback"
       PROVE  vp'.current = starts'[selected]
  <2>1. vp' = JumpTo(Sync(vp, Len(lines')), starts'[selected])
    <3>1. selected <= Len(starts')
      BY <1>8, <1>10
    <3> QED BY <1>1, <1>3, <1>10, <1>15, <3>1
  <2>2. starts'[selected] \in Nat /\ starts'[selected] < Len(lines')
    BY <1>8, <1>10, BlockIsOnScreen
  <2>3. ViewportOK(Sync(vp, Len(lines'))) /\ Sync(vp, Len(lines')).count = Len(lines')
    BY <1>8, <1>13, SyncOK
  <2> QED BY <2>1, <2>2, <2>3, JumpArrives
<1> QED BY <1>10, <1>14, <1>15

\* Only a frame brings the screen up to the log.
LEMMA OnlyFrames ==
    ASSUME PaneInv, PaneNext, known' = Len(logs), known < known', gen' = gen
    PROVE  \E w \in Widths, l \in Limits : Frame(w, l)
<1>1. known \in Nat /\ gen \in Nat
  BY PaneNumbers
<1>2. known' # known /\ gen' # gen + 1
  BY <1>1
<1>3. ~LoadSession
  BY <1>2 DEF LoadSession
<1>4. ~(\E k \in TaskKinds : TaskLogs(k)) /\ ~LogTaskEnds /\ ~Submit
  BY <1>2, Zenon DEF TaskLogs, LogTaskEnds, Submit
<1>5. ~(\E n \in PageSizes : Scroll(n)) /\ ~AnimationTick /\ ~HomeOrEnd
  <2>1. \A v : ~Moved(v)
    BY <1>2, Zenon DEF Moved
  <2>2. ~HomeOrEnd
    BY <1>2, Zenon DEF HomeOrEnd
  <2> QED BY <2>1, <2>2, Zenon DEF Scroll, AnimationTick
<1>6. ~Tab /\ ~EscapePane /\ ~Toggle /\ ~(\E sel \in DOMAIN blocks : SelectBlock(sel))
  BY <1>2, Zenon DEF Tab, EscapePane, Toggle, SelectBlock
<1> QED BY <1>3, <1>4, <1>5, <1>6, Zenon DEF PaneNext

\* And only the user's own prompt, or another session, changes the log while no
\* task runs.
LEMMA OnlyPrompts ==
    ASSUME PaneInv, PaneNext, logs' # logs, ~inTask
    PROVE  Submit \/ LoadSession
<1>1. ~(\E w \in Widths, l \in Limits : Frame(w, l))
  BY FrameIs
<1>2. ~(\E k \in TaskKinds : TaskLogs(k)) /\ ~LogTaskEnds
  BY Zenon DEF TaskLogs, LogTaskEnds
<1>3. ~(\E n \in PageSizes : Scroll(n)) /\ ~AnimationTick /\ ~HomeOrEnd
  <2>1. \A v : ~Moved(v)
    BY Zenon DEF Moved, session
  <2>2. ~HomeOrEnd
    BY Zenon DEF HomeOrEnd, session
  <2> QED BY <2>1, <2>2, Zenon DEF Scroll, AnimationTick
<1>4. ~Tab /\ ~EscapePane /\ ~Toggle /\ ~(\E sel \in DOMAIN blocks : SelectBlock(sel))
  BY Zenon DEF Tab, EscapePane, Toggle, SelectBlock, session
<1> QED BY <1>1, <1>2, <1>3, <1>4, Zenon DEF PaneNext

\* New output leaves a reader who has left the tail where he is, and the
\* user's own prompt takes him there (tui.cpp:274-291, 195, 207): an append
\* only adds lines at the end and folds a command whose observation was not
\* shown yet, so that no line above moves.
THEOREM ReaderStays == PaneSpec => ReaderIsNotMoved
<1> DEFINE Hyp == /\ known' = Len(logs) /\ known < known' /\ ~vp.following
                  /\ width' = width /\ gen' = gen
           Stays == /\ selected' = selected
                    /\ pane = "Prompt" =>
                         /\ vp'.current = vp.current /\ ~vp'.following
                         /\ \A i \in 1..vp.current + 1 :
                               <<lines'[i][1], lines'[i][2]>> = <<lines[i][1], lines[i][2]>>
                    /\ pane = "Scrollback" => vp'.current = starts'[selected]
           Follows == logs' # logs /\ ~inTask => vp'.following
<1>1. ASSUME PaneInv, PaneNext, Hyp  PROVE Stays
  <2>1. PICK w \in Widths, l \in Limits : Frame(w, l)
    BY <1>1, OnlyFrames
  <2>2. /\ selected' = selected
        /\ pane = "Prompt" =>
             /\ vp'.current = vp.current /\ ~vp'.following
             /\ \A i \in 1..vp.current + 1 :
                   lines'[i][1] = lines[i][1] /\ lines'[i][2] = lines[i][2]
        /\ pane = "Scrollback" => vp'.current = starts'[selected]
    BY <1>1, <2>1, FrameMovesNobody
  <2> QED BY <2>2, Zenon
<1>2. ASSUME PaneInv, PaneNext  PROVE Follows
  <2> SUFFICES ASSUME logs' # logs, ~inTask PROVE vp'.following
    OBVIOUS
  <2>1. Submit \/ LoadSession
    BY <1>2, OnlyPrompts
  <2>2. vp' = FollowTail(vp)
    BY <2>1, Zenon DEF Submit, LoadSession
  <2> QED BY <1>2, <2>2, ViewportIsOK, FollowTailFollows
<1>3. PaneInv /\ [PaneNext]_paneVars => [(Hyp => Stays) /\ Follows]_paneVars
  <2> HIDE DEF Hyp, Stays, Follows
  <2> QED BY <1>1, <1>2
<1>4. PaneSpec => [][(Hyp => Stays) /\ Follows]_paneVars
  <2> HIDE DEF Hyp, Stays, Follows
  <2> QED BY <1>3, PaneIsInvariant, PTL DEF PaneSpec
<1> QED BY <1>4, PTL DEF ReaderIsNotMoved
===============================================================================
