--------------------------- MODULE AgentLoop_proofs ---------------------------
(***************************************************************************)
(* Theorems about AgentLoop, for every set of commands, every reviewer,    *)
(* every step limit and conversations of any length.                       *)
(***************************************************************************)
EXTENDS AgentLoop, SequenceTheorems, TLAPS

-----------------------------------------------------------------------------
(***************************************************************************)
(* Sequences: what append_history and on_event do to a list.               *)
(***************************************************************************)
\* Dropping the appended element, as the rollback does, gives the list back.
LEMMA RolledBack ==
    ASSUME NEW S, NEW s \in Seq(S), NEW e \in S
    PROVE  SubSeq(Append(s, e), 1, Len(Append(s, e)) - 1) = s
<1> DEFINE t == SubSeq(Append(s, e), 1, Len(Append(s, e)) - 1)
<1>1. Len(Append(s, e)) - 1 = Len(s) /\ Len(s) \in Nat
  BY AppendProperties, LenProperties
<1>2. \A i \in 1 .. Len(s) : Append(s, e)[i] \in S
  BY AppendProperties, ElementOfSeq
<1>3. /\ t \in Seq(S)
      /\ Len(t) = Len(s)
      /\ \A i \in 1 .. Len(s) : t[i] = Append(s, e)[i]
  BY <1>1, <1>2, SubSeqProperties
<1>4. \A i \in 1 .. Len(s) : t[i] = s[i]
  BY <1>3, AppendProperties
<1> QED
  BY <1>3, <1>4, SeqEqual

\* The events of a step are events.
LEMMA EmitType ==
    ASSUME TypeOK, NEW types \in Seq(EventTypes), NEW s \in Nat, Emit(types, s)
    PROVE  events' \in Seq([type : EventTypes, step : Nat])
<1> DEFINE E   == [type : EventTypes, step : Nat]
           new == [i \in 1 .. Len(types) |-> Event(types[i], s)]
<1>1. Len(types) \in Nat
  BY LenProperties
<1>2. \A i \in 1 .. Len(types) : Event(types[i], s) \in E
  BY ElementOfSeq DEF Event
<1>3. new \in Seq(E)
  BY <1>1, <1>2, SeqDef
<1>4. events \in Seq(E)
  BY DEF TypeOK
<1>5. events' = events \o new
  BY DEF Emit
<1> HIDE DEF new, E
<1>6. events \o new \in Seq(E)
  BY <1>3, <1>4, ConcatProperties
<1> QED
  BY <1>5, <1>6 DEF E

\* So are the events of a step that ends the run.
LEMMA FinishType ==
    ASSUME TypeOK, NEW types \in Seq(EventTypes), NEW s \in Nat,
           NEW v \in Verdicts, Finish(v, types, s)
    PROVE  /\ events' \in Seq([type : EventTypes, step : Nat])
           /\ status' \in Verdicts \cup {"None", "Error"}
           /\ pc' = "idle"
<1>1. v \in EventTypes
  BY DEF EventTypes
<1>2. Append(types, v) \in Seq(EventTypes)
  BY <1>1, AppendProperties
<1>3. Emit(Append(types, v), s)
  BY DEF Finish
<1> QED
  BY <1>2, <1>3, EmitType DEF Finish

\* What the loop appends is a message.
LEMMA Messages ==
    /\ Seed \in Message /\ UserPrompt \in Message /\ HostHint \in Message
    /\ \A r \in Replies : Assistant(r) \in Message
    /\ Observed("refusal") \in Message /\ Observed("result") \in Message
  BY DEF Message, Kinds, Bodies, Replies, Seed, UserPrompt, HostHint,
         Assistant, Observed

\* Appending a message keeps the memory a conversation.
LEMMA PushType ==
    ASSUME TypeOK, NEW m \in Message, NEW goOn, Push(m, goOn),
           goOn \in {"top", "parse", "nudged", "rejected", "observed"}
    PROVE  history' \in Seq(Message) /\ pc' = "commit" /\ after' = goOn
                                    /\ after' \in {"top", "parse", "nudged",
                                                   "rejected", "observed"}
  BY AppendProperties DEF Push, TypeOK

-----------------------------------------------------------------------------
(***************************************************************************)
(* Types. That the step counter stays within the limit needs to know where *)
(* the limit was looked at: a turn is only begun below it.                 *)
(***************************************************************************)
BelowLimit ==
    StepLimit > 0 /\ pc \notin {"idle", "down", "top"}
                  /\ ~(pc = "commit" /\ after = "top") => step < StepLimit

TypeInv == TypeOK /\ BelowLimit

LEMMA TypeInit == Init => TypeInv
<1> SUFFICES ASSUME Init PROVE TypeInv
  OBVIOUS
<1>1. history \in Seq(Message) /\ stored \in Seq(Message)
  BY Messages DEF Init
<1>2. events \in Seq([type : EventTypes, step : Nat]) /\ ran \in Seq(Nat)
  BY DEF Init
<1>3. cmd \in CommandShapes
  BY DEF Init, Blank, CommandShapes, Programs
<1>4. step \in Nat /\ (StepLimit > 0 => step <= StepLimit)
  BY LimitsAssumption DEF Init
<1> QED
  BY <1>1, <1>2, <1>3, <1>4
  DEF Init, TypeInv, TypeOK, BelowLimit, Locations, Replies

LEMMA TypeNext == TypeInv /\ [Next]_vars => TypeInv'
<1> SUFFICES ASSUME TypeInv, [Next]_vars PROVE TypeInv'
  OBVIOUS
<1> USE DEF TypeInv
<1>0. TypeOK /\ BelowLimit /\ StepLimit \in Nat
  BY LimitsAssumption
<1>t. <<>> \in Seq(EventTypes) /\ \A t \in EventTypes : <<t>> \in Seq(EventTypes)
  OBVIOUS
<1>f. ASSUME NEW t \in {<<>>, <<"Assistant">>, <<"CommandFinished">>},
             NEW n \in Nat, NEW v \in Verdicts, Finish(v, t, n)
      PROVE  /\ events' \in Seq([type : EventTypes, step : Nat])
             /\ status' \in Verdicts \cup {"None", "Error"} /\ pc' = "idle"
  <2>1. t \in Seq(EventTypes)
    BY <1>t DEF EventTypes
  <2> QED
    BY <2>1, <1>0, <1>f, FinishType
<1>e. ASSUME NEW t \in EventTypes, Emit(<<t>>, step)
      PROVE  events' \in Seq([type : EventTypes, step : Nat])
  <2>1. step \in Nat
    BY <1>0 DEF TypeOK
  <2> QED
    BY <1>t, <1>0, <1>e, <2>1, EmitType
<1>1. CASE Submit
  <2>1. history' \in Seq(Message) /\ pc' = "commit" /\ after' = "top"
    BY <1>1, <1>0, Messages, PushType DEF Submit
  <2>2. Len(history) \in Nat
    BY <1>0, LenProperties DEF TypeOK
  <2>3. events' \in Seq([type : EventTypes, step : Nat])
    BY <1>1, EmptySeq DEF Submit
  <2>4. /\ stop' \in BOOLEAN /\ step' = 0 /\ late' = 0 /\ status' = "None"
        /\ base' = Len(history) + 1 /\ UNCHANGED <<last, cmd, stored, ran>>
    BY <1>1 DEF Submit
  <2> QED
    BY <1>0, <2>1, <2>2, <2>3, <2>4 DEF TypeOK, BelowLimit, Locations
<1>2. CASE Commit
  <2>1. history[Len(history)] \in Message
    <3>1. Len(history) \in 1 .. Len(history)
      BY <1>2, <1>0, LenProperties DEF Commit, TypeOK
    <3> QED
      BY <3>1, <1>0, ElementOfSeq DEF TypeOK
  <2>2. stored' \in Seq(Message)
    BY <1>0, <1>2, <2>1, AppendProperties DEF Commit, TypeOK
  <2> QED
    BY <1>0, <1>2, <2>2 DEF Commit, TypeOK, BelowLimit, Locations
<1>3. CASE CommitFails
  <2>1. history' \in Seq(Message)
    <3>1. Len(history) - 1 \in Int
      BY <1>0, LenProperties DEF TypeOK
    <3>2. \A i \in 1 .. Len(history) - 1 : history[i] \in Message
      BY <1>0, LenProperties, ElementOfSeq DEF TypeOK
    <3> QED
      BY <1>3, <3>1, <3>2, SubSeqProperties DEF CommitFails
  <2> QED
    BY <1>0, <1>3, <2>1 DEF CommitFails, Throw, TypeOK, BelowLimit, Locations
<1>4. CASE TopStops
  <2>1. Finish("Stopped", <<>>, step) /\ step \in Nat /\ "Stopped" \in Verdicts
    BY <1>0, <1>4 DEF TopStops, TypeOK, Verdicts
  <2> QED
    BY <1>0, <1>4, <2>1, <1>f DEF TopStops, TypeOK, BelowLimit, Locations
<1>5. CASE TopAtLimit
  <2>1. /\ Finish("StepLimitReached", <<>>, step) /\ step \in Nat
        /\ "StepLimitReached" \in Verdicts
    BY <1>0, <1>5 DEF TopAtLimit, TypeOK, Verdicts
  <2> QED
    BY <1>0, <1>5, <2>1, <1>f DEF TopAtLimit, TypeOK, BelowLimit, Locations
<1>6. CASE SendQuery
  BY <1>0, <1>6 DEF SendQuery, StepLimitReached, TypeOK, BelowLimit, Locations
<1>7. CASE QueryReturns
  <2>1. cmd' \in CommandShapes
    BY <1>7, CommandsAssumption DEF QueryReturns, Blank, CommandShapes, Programs
  <2> QED
    BY <1>0, <1>7, <2>1 DEF QueryReturns, TypeOK, BelowLimit, Locations
<1>8. CASE QueryCancelled
  <2>1. Finish("Stopped", <<>>, step) /\ step \in Nat /\ "Stopped" \in Verdicts
    BY <1>0, <1>8 DEF QueryCancelled, TypeOK, Verdicts
  <2> QED
    BY <1>0, <1>8, <2>1, <1>f DEF QueryCancelled, TypeOK, BelowLimit, Locations
<1>9. CASE QueryFails
  BY <1>0, <1>9 DEF QueryFails, Throw, TypeOK, BelowLimit, Locations
<1>10. CASE Replied
  <2>1. step \in Nat /\ {"Stopped", "EmptyResponse"} \subseteq Verdicts
    BY <1>0 DEF TypeOK, Verdicts
  <2>2. CASE Push(Assistant(last), "parse") /\ UNCHANGED <<status, events>>
    <3>1. history' \in Seq(Message) /\ pc' = "commit" /\ after' = "parse"
      BY <1>0, <2>2, Messages, PushType DEF TypeOK
    <3> QED
      BY <1>0, <1>10, <2>2, <3>1 DEF Replied, TypeOK, BelowLimit, Locations
  <2>3. CASE /\ \E v \in {"Stopped", "EmptyResponse"} : Finish(v, <<>>, step)
             /\ UNCHANGED <<after, history>>
    BY <1>0, <1>10, <2>1, <2>3, <1>f
    DEF Replied, TypeOK, BelowLimit, Locations
  <2> QED
    BY <1>10, <2>2, <2>3 DEF Replied
<1>11. CASE Nudge
  <2>1. history' \in Seq(Message) /\ pc' = "commit" /\ after' = "nudged"
    BY <1>0, <1>11, Messages, PushType DEF Nudge
  <2>2. events' \in Seq([type : EventTypes, step : Nat])
    BY <1>11, <1>e DEF Nudge, EventTypes
  <2> QED
    BY <1>0, <1>11, <2>1, <2>2 DEF Nudge, TypeOK, BelowLimit, Locations
<1>12. CASE Nudged
  <2>1. events' \in Seq([type : EventTypes, step : Nat])
    BY <1>12, <1>e DEF Nudged, EventTypes
  <2> QED
    BY <1>0, <1>12, <2>1 DEF Nudged, TypeOK, BelowLimit, Locations
<1>13. CASE StartCompletion
  <2>1. step \in Nat /\ "Stopped" \in Verdicts /\ "CommandStarted" \in EventTypes
    BY <1>0 DEF TypeOK, Verdicts, EventTypes
  <2> QED
    BY <1>0, <1>13, <2>1, <1>e, <1>f
    DEF StartCompletion, TypeOK, BelowLimit, Locations, InShell
<1>14. CASE StartCommand
  <2>1. step \in Nat /\ "Stopped" \in Verdicts /\ "Assistant" \in EventTypes
    BY <1>0 DEF TypeOK, Verdicts, EventTypes
  <2> QED
    BY <1>0, <1>14, <2>1, <1>e, <1>f
    DEF StartCommand, TypeOK, BelowLimit, Locations
<1>15. CASE RequestAuthorization
  <2>1. step \in Nat /\ "Stopped" \in Verdicts
    BY <1>0 DEF TypeOK, Verdicts
  <2> QED
    BY <1>0, <1>15, <2>1, <1>f
    DEF RequestAuthorization, TypeOK, BelowLimit, Locations
<1>16. ASSUME NEW d \in Decisions, Decide(d) PROVE TypeInv'
  <2>1. step \in Nat /\ "Stopped" \in Verdicts
        /\ {"CommandStarted", "CommandRejected"} \subseteq EventTypes
    BY <1>0 DEF TypeOK, Verdicts, EventTypes
  <2>2. CASE d = "Reject"
    <3>1. history' \in Seq(Message) /\ pc' = "commit" /\ after' = "rejected"
      BY <1>0, <1>16, <2>2, Messages, PushType DEF Decide
    <3>2. events' \in Seq([type : EventTypes, step : Nat])
      BY <1>16, <2>1, <2>2, <1>e DEF Decide
    <3> QED
      BY <1>0, <1>16, <2>2, <3>1, <3>2
      DEF Decide, TypeOK, BelowLimit, Locations
  <2>3. CASE d # "Reject"
    BY <1>0, <1>16, <2>1, <2>3, <1>e, <1>f
    DEF Decide, TypeOK, BelowLimit, Locations, InShell
  <2> QED
    BY <2>2, <2>3
<1>17. CASE Rejected
  BY <1>0, <1>17 DEF Rejected, TypeOK, BelowLimit, Locations
<1>18. CASE ShellChecks
  BY <1>0, <1>18 DEF ShellChecks, TypeOK, BelowLimit, Locations, InShell
<1>19. CASE ShellForks
  <2>1. Len(history) \in Nat
    BY <1>0, LenProperties DEF TypeOK
  <2>2. ran' \in Seq(Nat)
    BY <1>0, <1>19, <2>1, AppendProperties DEF ShellForks, TypeOK
  <2> QED
    BY <1>0, <1>19, <2>2 DEF ShellForks, TypeOK, BelowLimit, Locations, InShell
<1>20. CASE ShellReturns
  BY <1>0, <1>20 DEF ShellReturns, TypeOK, BelowLimit, Locations, InShell
<1>21. CASE CompletionDone
  <2>1. step \in Nat /\ {"Stopped", "Completed"} \subseteq Verdicts
    BY <1>0 DEF TypeOK, Verdicts
  <2>2. PICK v \in {"Stopped", "Completed"} :
            Finish(v, <<"CommandFinished">>, step)
    BY <1>21 DEF CompletionDone
  <2>3. /\ events' \in Seq([type : EventTypes, step : Nat])
        /\ status' \in Verdicts \cup {"None", "Error"} /\ pc' = "idle"
    BY <2>1, <2>2, <1>f
  <2> QED
    BY <1>0, <1>21, <2>3 DEF CompletionDone, TypeOK, BelowLimit, Locations
<1>22. CASE CommandDone
  <2>1. history' \in Seq(Message) /\ pc' = "commit" /\ after' = "observed"
    BY <1>0, <1>22, Messages, PushType DEF CommandDone
  <2>2. events' \in Seq([type : EventTypes, step : Nat])
    BY <1>22, <1>e DEF CommandDone, EventTypes
  <2> QED
    BY <1>0, <1>22, <2>1, <2>2 DEF CommandDone, TypeOK, BelowLimit, Locations
<1>23. CASE ObservationDone
  <2>1. step + 1 \in Nat /\ "Stopped" \in Verdicts
    BY <1>0 DEF TypeOK, Verdicts
  <2>2. /\ pc = "observed" /\ step' = step + 1 /\ step \in Nat
        /\ UNCHANGED <<after, stop, last, cmd, history, stored, base, ran, late>>
    BY <1>0, <1>23 DEF ObservationDone, TypeOK
  <2>3. CASE Finish("Stopped", <<>>, step + 1)
    <3>1. /\ events' \in Seq([type : EventTypes, step : Nat])
          /\ status' \in Verdicts \cup {"None", "Error"} /\ pc' = "idle"
      BY <2>1, <2>3, <1>f
    <3> QED
      BY <1>0, <2>2, <3>1 DEF TypeOK, BelowLimit, Locations
  <2>4. CASE pc' = "top" /\ UNCHANGED <<status, events>>
    BY <1>0, <2>2, <2>4 DEF TypeOK, BelowLimit, Locations
  <2> QED
    BY <1>23, <2>3, <2>4 DEF ObservationDone
<1>24. CASE RequestStop
  BY <1>0, <1>24 DEF RequestStop, TypeOK, BelowLimit
<1>25. CASE Crash
  <2>1. /\ history' \in Seq(Message)
        /\ events' \in Seq([type : EventTypes, step : Nat])
    BY <1>25, EmptySeq DEF Crash
  <2>2. /\ pc' = "down" /\ stop' \in BOOLEAN /\ status' = "None"
        /\ UNCHANGED <<after, step, last, cmd, stored, base, ran, late>>
    BY <1>25 DEF Crash
  <2>3. TypeOK'
    BY <1>0, <2>1, <2>2 DEF TypeOK, Locations
  <2>4. BelowLimit'
    BY <2>2 DEF BelowLimit
  <2> QED
    BY <2>3, <2>4
<1>26. CASE Restart
  BY <1>0, <1>26 DEF Restart, TypeOK, BelowLimit, Locations
<1>27. CASE UNCHANGED vars
  BY <1>0, <1>27 DEF vars, TypeOK, BelowLimit
<1> QED
  BY <1>1, <1>2, <1>3, <1>4, <1>5, <1>6, <1>7, <1>8, <1>9, <1>10, <1>11, <1>12,
     <1>13, <1>14, <1>15, <1>16, <1>17, <1>18, <1>19, <1>20, <1>21, <1>22,
     <1>23, <1>24, <1>25, <1>26, <1>27 DEF Next, LoopStep

\* The variables keep their types, and the step counter never passes the limit.
THEOREM TypeCorrect == Spec => []TypeOK
<1>1. TypeInv => TypeOK
  BY DEF TypeInv
<1> QED
  BY <1>1, TypeInit, TypeNext, PTL DEF Spec

-----------------------------------------------------------------------------
(***************************************************************************)
(* The conversation. The properties of the durable log are not inductive:  *)
(* that the next message may follow rests on what the newest message is at *)
(* each place of the loop, and during an append on the message under way.  *)
(***************************************************************************)
Newest == stored[Len(stored)]

\* The newest message was not run.
Fresh == \A i \in 1 .. Len(ran) : ran[i] < Len(stored)

\* What the newest message m is when the loop is at p.
At(p, m) ==
    /\ p \in {"top", "query", "replied", "nudged", "rejected", "observed"}
          => m.kind # "Assistant"
    /\ p \in {"parse", "authorize", "reviewing"} \cup InShell
          => m = Assistant(last)
    /\ p \in {"authorize", "reviewing"} => last = "command"
    /\ p \in InShell => last \in {"command", "complete"}

\* The message of an append in progress: in memory, not yet in the store.
Appending ==
    \E m \in Message :
        /\ history = Append(stored, m)
        /\ MayFollow(m, Newest) /\ At(after, m)
        /\ m = Observed("refusal") => Fresh

ConvInv ==
    /\ Grammatical(stored)
    /\ pc \notin {"commit", "down"} => history = stored /\ At(pc, Newest)
    /\ pc = "commit" => Appending
    /\ pc \in {"parse", "authorize", "reviewing", "shell", "forking"} => Fresh
    /\ RunsOnceAndDurably /\ RefusedNeverRan

LEMMA ConvInit == Init => ConvInv
<1> SUFFICES ASSUME Init PROVE ConvInv
  OBVIOUS
<1>1. Len(stored) = 1 /\ stored[1] = Seed /\ Len(ran) = 0
  BY DEF Init
<1>2. Grammatical(stored)
  BY <1>1 DEF Grammatical
<1>3. pc = "idle" /\ history = stored
  BY DEF Init
<1> QED
  BY <1>1, <1>2, <1>3
  DEF ConvInv, At, InShell, RunsOnceAndDurably, RefusedNeverRan

\* A step that leaves memory, store and runs alone only moves the loop.
LEMMA Moves ==
    ASSUME ConvInv, UNCHANGED <<history, stored, ran>>,
           pc \notin {"commit", "down"}, pc' \notin {"commit", "down"},
           At(pc, Newest)',
           pc' \in {"parse", "authorize", "reviewing", "shell", "forking"} => Fresh
    PROVE  ConvInv'
  BY DEF ConvInv, Newest, Fresh, RunsOnceAndDurably, RefusedNeverRan

\* A step that begins an append.
LEMMA BeginsAppend ==
    ASSUME ConvInv, UNCHANGED <<stored, ran, last>>,
           pc \notin {"commit", "down"},
           NEW m \in Message, NEW goOn, Push(m, goOn),
           MayFollow(m, Newest), At(goOn, m),
           m = Observed("refusal") => Fresh
    PROVE  ConvInv'
<1>1. history' = Append(stored', m) /\ pc' = "commit" /\ after' = goOn
  BY DEF ConvInv, Push
<1>2. Newest' = Newest /\ (Fresh => Fresh') /\ At(after, m)'
  BY <1>1 DEF Newest, Fresh, At
<1>3. Appending'
  BY <1>1, <1>2 DEF Appending
<1> QED
  BY <1>1, <1>3 DEF ConvInv, RunsOnceAndDurably, RefusedNeverRan

\* The append in progress reaches the store.
LEMMA CommitInv ==
    ASSUME TypeOK, ConvInv, Commit
    PROVE  /\ ConvInv'
           /\ \E m \in Message :
                 /\ stored' = Append(stored, m) /\ UNCHANGED ran
                 /\ MayFollow(m, Newest)
                 /\ m = Observed("refusal") => Fresh
<1>1. PICK m \in Message :
          /\ history = Append(stored, m)
          /\ MayFollow(m, Newest) /\ At(after, m)
          /\ m = Observed("refusal") => Fresh
  BY DEF ConvInv, Appending, Commit
<1>2. Len(stored) \in Nat \ {0} /\ stored \in Seq(Message)
  BY LenProperties DEF TypeOK, ConvInv, Grammatical
<1>3. stored' = Append(stored, m)
  BY <1>1, <1>2, AppendProperties DEF Commit
<1>4. /\ Len(stored') = Len(stored) + 1
      /\ \A i \in 1 .. Len(stored) : stored'[i] = stored[i]
      /\ stored'[Len(stored) + 1] = m
  BY <1>2, <1>3, AppendProperties
<1>5. /\ history' = stored' /\ pc' = after /\ pc' \notin {"commit", "down"}
      /\ UNCHANGED <<ran, last>>
  BY <1>1, <1>3 DEF Commit, TypeOK
<1>6. Grammatical(stored)'
  <2>1. ASSUME NEW i \in 2 .. Len(stored')
        PROVE  MayFollow(stored'[i], stored'[i - 1])
    <3>1. CASE i <= Len(stored)
      <4>1. i \in 2 .. Len(stored) /\ i - 1 \in 1 .. Len(stored)
        BY <1>2, <3>1
      <4>2. stored'[i] = stored[i] /\ stored'[i - 1] = stored[i - 1]
        BY <1>4, <4>1, <1>2
      <4> QED
        BY <4>1, <4>2 DEF ConvInv, Grammatical
    <3>2. CASE i = Len(stored) + 1
      BY <1>1, <1>2, <1>4, <3>2 DEF Newest
    <3> QED
      BY <1>2, <1>4, <3>1, <3>2
  <2>2. Len(stored') >= 1 /\ stored'[1] = Seed
    BY <1>2, <1>4 DEF ConvInv, Grammatical
  <2> QED
    BY <2>1, <2>2 DEF Grammatical
<1>7. At(pc, Newest)'
  BY <1>1, <1>2, <1>4, <1>5 DEF At, Newest
<1>8. Len(ran) \in Nat /\ \A i \in 1 .. Len(ran) : ran[i] \in Nat \ {0}
  <2>1. \A i \in 1 .. Len(ran) : ran[i] \in Nat
    BY ElementOfSeq DEF TypeOK
  <2> QED
    BY <2>1, LenProperties DEF TypeOK, ConvInv, RunsOnceAndDurably
<1>9. Fresh'
  BY <1>2, <1>4, <1>5, <1>8 DEF Fresh, ConvInv, RunsOnceAndDurably
<1>10. RunsOnceAndDurably'
  BY <1>2, <1>4, <1>5, <1>8 DEF ConvInv, RunsOnceAndDurably
<1>11. RefusedNeverRan'
  <2>1. ASSUME NEW i \in 1 .. Len(ran), ran[i] < Len(stored')
        PROVE  stored'[ran[i] + 1] # Observed("refusal")
    <3>1. CASE ran[i] < Len(stored)
      BY <1>2, <1>4, <1>8, <3>1 DEF ConvInv, RefusedNeverRan
    <3>2. CASE ran[i] = Len(stored)
      BY <1>1, <1>2, <1>4, <3>2 DEF Fresh
    <3> QED
      BY <1>2, <1>4, <1>8, <2>1, <3>1, <3>2
  <2> QED
    BY <1>5, <2>1 DEF RefusedNeverRan
<1> QED
  BY <1>1, <1>3, <1>5, <1>6, <1>7, <1>9, <1>10, <1>11 DEF ConvInv

\* A shell is started for the newest message, which is a request not yet run.
LEMMA ForkInv ==
    ASSUME TypeOK, ConvInv, ShellForks
    PROVE  /\ ConvInv'
           /\ IsRequest(Newest) /\ Fresh
           /\ ran' = Append(ran, Len(stored)) /\ UNCHANGED stored
<1>1. /\ history = stored /\ Newest = Assistant(last)
      /\ last \in {"command", "complete"} /\ Fresh
  BY DEF ShellForks, ConvInv, At, InShell
<1>2. IsRequest(Newest)
  BY <1>1 DEF IsRequest, Assistant
<1>3. /\ ran' = Append(ran, Len(stored))
      /\ pc' = "running" /\ UNCHANGED <<stored, history, last>>
  BY <1>1 DEF ShellForks
<1>4. Len(stored) \in Nat \ {0}
  BY LenProperties DEF TypeOK, ConvInv, Grammatical
<1>5. /\ Len(ran) \in Nat /\ Len(ran') = Len(ran) + 1
      /\ \A i \in 1 .. Len(ran) : ran'[i] = ran[i]
      /\ ran'[Len(ran) + 1] = Len(stored)
  BY <1>3, <1>4, LenProperties, AppendProperties DEF TypeOK
<1>6. RunsOnceAndDurably'
  <2>1. \A i \in 1 .. Len(ran') :
            ran'[i] \in 1 .. Len(stored) /\ IsRequest(stored[ran'[i]])
    BY <1>2, <1>4, <1>5 DEF ConvInv, RunsOnceAndDurably, Newest
  <2>2. ASSUME NEW i \in 1 .. Len(ran'), NEW j \in 1 .. Len(ran'), i < j
        PROVE  ran'[i] < ran'[j]
    <3>1. i \in 1 .. Len(ran) /\ ran'[i] = ran[i]
      BY <1>5, <2>2
    <3>2. CASE j = Len(ran) + 1
      BY <1>1, <1>5, <3>1, <3>2 DEF Fresh
    <3>3. CASE j # Len(ran) + 1
      <4>1. j \in 1 .. Len(ran) /\ ran'[j] = ran[j]
        BY <1>5, <3>3
      <4> QED
        BY <2>2, <3>1, <4>1 DEF ConvInv, RunsOnceAndDurably
    <3> QED
      BY <3>2, <3>3
  <2> QED
    BY <1>3, <2>1, <2>2 DEF RunsOnceAndDurably
<1>7. RefusedNeverRan'
  BY <1>3, <1>4, <1>5 DEF ConvInv, RefusedNeverRan
<1>8. At(pc, Newest)'
  BY <1>1, <1>3 DEF At, Newest, InShell
<1> QED
  BY <1>1, <1>2, <1>3, <1>6, <1>7, <1>8 DEF ConvInv

\* The rollback of a failed append gives the memory of the store back.
LEMMA RollbackInv ==
    ASSUME TypeOK, ConvInv, CommitFails
    PROVE  ConvInv'
<1>1. PICK m \in Message : history = Append(stored, m)
  BY DEF ConvInv, Appending, CommitFails
<1>2. history' = stored
  BY <1>1, RolledBack DEF CommitFails, TypeOK
<1> QED
  BY <1>2 DEF CommitFails, Throw, ConvInv, At, InShell, RunsOnceAndDurably,
              RefusedNeverRan

\* Every action of the loop and of its environment.
LEMMA ConvNext == TypeOK /\ ConvInv /\ [Next]_vars => ConvInv'
<1> SUFFICES ASSUME TypeOK, ConvInv, [Next]_vars PROVE ConvInv'
  OBVIOUS
<1>1. CASE Submit
  <2>1. MayFollow(UserPrompt, Newest) /\ At("top", UserPrompt)
    BY DEF MayFollow, At, UserPrompt, InShell
  <2>2. UserPrompt # Observed("refusal")
    BY DEF UserPrompt, Observed
  <2> QED
    BY <1>1, <2>1, <2>2, Messages, BeginsAppend DEF Submit
<1>2. CASE Commit
  BY <1>2, CommitInv
<1>3. CASE CommitFails
  BY <1>3, RollbackInv
<1>4. CASE TopStops \/ TopAtLimit \/ QueryCancelled
  BY <1>4, Moves
  DEF TopStops, TopAtLimit, QueryCancelled, Finish, At, InShell
<1>5. CASE SendQuery
  BY <1>5, Moves DEF SendQuery, ConvInv, Newest, At, InShell
<1>6. CASE QueryReturns
  BY <1>6, Moves DEF QueryReturns, ConvInv, Newest, At, InShell
<1>7. CASE QueryFails
  BY <1>7, Moves DEF QueryFails, Throw, At, InShell
<1>8. CASE Replied
  <2>1. CASE /\ \E v \in {"Stopped", "EmptyResponse"} : Finish(v, <<>>, step)
             /\ UNCHANGED <<after, history>>
    BY <1>8, <2>1, Moves DEF Replied, Finish, At, InShell
  <2>2. CASE last # "empty" /\ Push(Assistant(last), "parse")
    <3>1. Assistant(last) \in Message
      BY Messages DEF TypeOK
    <3>2. MayFollow(Assistant(last), Newest)
      BY <1>8, <2>2 DEF Replied, ConvInv, At, MayFollow, Assistant
    <3>3. At("parse", Assistant(last)) /\ Assistant(last) # Observed("refusal")
      BY DEF At, Assistant, Observed, InShell
    <3> QED
      BY <1>8, <2>2, <3>1, <3>2, <3>3, BeginsAppend DEF Replied
  <2> QED
    BY <1>8, <2>1, <2>2 DEF Replied
<1>9. CASE Nudge
  <2>1. MayFollow(HostHint, Newest)
    BY <1>9 DEF Nudge, ConvInv, At, MayFollow, HostHint, Assistant
  <2>2. At("nudged", HostHint) /\ HostHint # Observed("refusal")
    BY DEF At, HostHint, Observed, InShell
  <2> QED
    BY <1>9, <2>1, <2>2, Messages, BeginsAppend DEF Nudge
<1>10. CASE Nudged \/ Rejected
  BY <1>10, Moves DEF Nudged, Rejected, ConvInv, Newest, At, InShell
<1>11. CASE StartCompletion
  BY <1>11, Moves
  DEF StartCompletion, Finish, ConvInv, Newest, At, InShell
<1>12. CASE StartCommand
  BY <1>12, Moves DEF StartCommand, Finish, ConvInv, Newest, At, InShell
<1>13. CASE RequestAuthorization
  BY <1>13, Moves
  DEF RequestAuthorization, Finish, ConvInv, Newest, At, InShell
<1>14. ASSUME NEW d \in Decisions, Decide(d) PROVE ConvInv'
  <2>0. /\ pc = "reviewing" /\ Newest = Assistant("command")
        /\ last = "command" /\ Fresh
    BY <1>14 DEF Decide, ConvInv, At
  <2>1. CASE d = "Reject"
    <3>1. MayFollow(Observed("refusal"), Newest)
      BY <2>0 DEF MayFollow, Observed
    <3>2. At("rejected", Observed("refusal"))
      BY DEF At, Observed, InShell
    <3> QED
      BY <1>14, <2>0, <2>1, <3>1, <3>2, Messages, BeginsAppend DEF Decide
  <2>2. CASE d # "Reject"
    BY <1>14, <2>0, <2>2, Moves DEF Decide, Finish, Newest, At, InShell
  <2> QED
    BY <2>1, <2>2
<1>15. CASE ShellChecks
  BY <1>15, Moves DEF ShellChecks, ConvInv, Newest, At, InShell
<1>16. CASE ShellForks
  BY <1>16, ForkInv
<1>17. CASE ShellReturns
  BY <1>17, Moves DEF ShellReturns, ConvInv, Newest, At, InShell
<1>18. CASE CompletionDone
  BY <1>18, Moves DEF CompletionDone, Finish, At, InShell
<1>19. CASE CommandDone
  <2>1. MayFollow(Observed("result"), Newest)
    BY <1>19 DEF CommandDone, ConvInv, At, InShell, MayFollow, Observed
  <2>2. At("observed", Observed("result")) /\ Observed("result") # Observed("refusal")
    BY DEF At, Observed, InShell
  <2> QED
    BY <1>19, <2>1, <2>2, Messages, BeginsAppend DEF CommandDone
<1>20. CASE ObservationDone
  BY <1>20, Moves DEF ObservationDone, Finish, ConvInv, Newest, At, InShell
<1>21. CASE RequestStop \/ UNCHANGED vars
  <2>1. UNCHANGED <<pc, after, last, history, stored, ran>>
    BY <1>21 DEF RequestStop, vars
  <2> QED
    BY <2>1
    DEF ConvInv, Appending, Fresh, Newest, At, RunsOnceAndDurably, RefusedNeverRan
<1>22. CASE Crash
  BY <1>22 DEF Crash, ConvInv, RunsOnceAndDurably, RefusedNeverRan
<1>23. CASE Restart
  BY <1>23
  DEF Restart, ConvInv, At, InShell, RunsOnceAndDurably, RefusedNeverRan
<1> QED
  BY <1>1, <1>2, <1>3, <1>4, <1>5, <1>6, <1>7, <1>8, <1>9, <1>10, <1>11, <1>12,
     <1>13, <1>14, <1>15, <1>16, <1>17, <1>18, <1>19, <1>20, <1>21, <1>22,
     <1>23 DEF Next, LoopStep

LEMMA ConvAlways == Spec => [](TypeOK /\ ConvInv)
<1>1. Init => TypeOK /\ ConvInv
  BY TypeInit, ConvInit DEF TypeInv
<1>2. TypeOK /\ ConvInv /\ [Next]_vars => ConvInv'
  BY ConvNext
<1> QED
  BY <1>1, <1>2, TypeCorrect, PTL DEF Spec

-----------------------------------------------------------------------------
(***************************************************************************)
(* What it is for.                                                         *)
(***************************************************************************)
\* Memory and store agree outside of appends, and append_history's rollback
\* restores that when the store fails.
THEOREM MemoryAndStore == Spec => []MemoryMatchesStore
<1>1. TypeOK /\ ConvInv => MemoryMatchesStore
  <2> SUFFICES ASSUME TypeOK, ConvInv PROVE MemoryMatchesStore
    OBVIOUS
  <2>1. CASE pc = "commit"
    <3>1. PICK m \in Message : history = Append(stored, m)
      BY <2>1 DEF ConvInv, Appending
    <3>2. Len(history) = Len(stored) + 1 /\ Len(stored) \in Nat
      BY <3>1, AppendProperties, LenProperties DEF TypeOK
    <3>3. SubSeq(history, 1, Len(history) - 1) = stored
      BY <3>1, RolledBack DEF TypeOK
    <3>4. Len(history) - 1 = Len(stored)
      BY <3>2
    <3> QED
      BY <2>1, <3>2, <3>3, <3>4 DEF MemoryMatchesStore
  <2>2. CASE pc # "commit"
    BY <2>2 DEF ConvInv, MemoryMatchesStore
  <2> QED
    BY <2>1, <2>2
<1> QED
  BY <1>1, ConvAlways, PTL

\* The durable conversation obeys the loop's protocol after every mix of
\* failed appends, stops, crashes and restarts.
THEOREM StoredConversation == Spec => []StoredIsGrammatical
<1>1. ConvInv => StoredIsGrammatical
  BY DEF ConvInv, StoredIsGrammatical
<1> QED
  BY <1>1, ConvAlways, PTL

\* A shell is started for durable requests only, in order and once each; and
\* the conversation never says of a command that ran that it was refused.
THEOREM RunsAtMostOnce == Spec => [](RunsOnceAndDurably /\ RefusedNeverRan)
<1>1. ConvInv => RunsOnceAndDurably /\ RefusedNeverRan
  BY DEF ConvInv
<1> QED
  BY <1>1, ConvAlways, PTL

\* One step of the loop is one step of the promised conversation, or none.
LEMMA StepImplementsLog ==
    TypeOK /\ ConvInv /\ [Next]_vars => [Log!Next]_<<stored, ran>>
<1> SUFFICES ASSUME TypeOK, ConvInv, [Next]_vars PROVE [Log!Next]_<<stored, ran>>
  OBVIOUS
<1>1. ASSUME Fresh PROVE ~Log!Started(Len(stored))
  <2>1. \A i \in 1 .. Len(ran) : ran[i] # Len(stored)
    BY <1>1, ElementOfSeq, LenProperties DEF Fresh, TypeOK
  <2> QED
    BY <2>1 DEF Log!Started
<1>2. CASE Commit
  <2>1. PICK m \in Message :
            /\ stored' = Append(stored, m) /\ UNCHANGED ran
            /\ MayFollow(m, Newest)
            /\ m = Observed("refusal") => Fresh
    BY <1>2, CommitInv
  <2>2. Log!MayFollow(m, stored[Len(stored)])
    BY <2>1 DEF MayFollow, Newest, Log!MayFollow, Assistant, Log!Assistant
  <2>3. m = Log!Observed("refusal") => ~Log!Started(Len(stored))
    BY <1>1, <2>1 DEF Observed, Log!Observed
  <2>4. m \in Log!Message
    BY DEF Message, Kinds, Bodies, Replies, Log!Message, Log!Kinds, Log!Bodies,
           Log!Replies
  <2> QED
    BY <2>1, <2>2, <2>3, <2>4 DEF Log!Next, Log!Say
<1>3. CASE ShellForks
  <2>1. IsRequest(Newest) /\ Fresh /\ ran' = Append(ran, Len(stored))
        /\ UNCHANGED stored
    BY <1>3, ForkInv
  <2> QED
    BY <1>1, <2>1 DEF Log!Next, Log!Run, Log!IsRequest, IsRequest, Newest
<1>4. CASE UNCHANGED <<stored, ran>>
  BY <1>4
<1>5. \/ Commit \/ ShellForks \/ UNCHANGED <<stored, ran>>
  <2>1. CASE Submit \/ RequestStop \/ Crash \/ Restart \/ UNCHANGED vars
    BY <2>1 DEF Submit, RequestStop, Crash, Restart, vars
  <2>2. CASE LoopStep
    BY <2>2
    DEF LoopStep, CommitFails, TopStops, TopAtLimit, SendQuery, QueryReturns,
        QueryCancelled, QueryFails, Replied, Nudge, Nudged, StartCompletion,
        StartCommand, RequestAuthorization, Decide, Rejected, ShellChecks,
        ShellReturns, CompletionDone, CommandDone, ObservationDone
  <2> QED
    BY <2>1, <2>2 DEF Next
<1> QED
  BY <1>2, <1>3, <1>4, <1>5

\* The session keeps the promise of ConversationLog: AgentLoop implements it.
THEOREM LoopImplementsLog == Spec => ImplementsLog
<1>1. Init => Log!Init
  BY DEF Init, Log!Init, Seed, Log!Seed
<1> QED
  BY <1>1, ConvAlways, StepImplementsLog, PTL
  DEF Spec, ImplementsLog, Log!Spec, Log!logVars

-----------------------------------------------------------------------------
(***************************************************************************)
(* Stopping and deciding.                                                  *)
(***************************************************************************)
\* Work after the stop request is the one shell about to be forked: a second
\* would have to pass a look at the token.
LateInv ==
    /\ late \in {0, 1}
    /\ late = 1 => pc \in {"idle", "down"} \/ (stop /\ pc # "forking")

\* After a stop request a run sends no query and starts at most one shell.
THEOREM StopIsBounded == Spec => []StopBoundsWork
<1>1. Init => LateInv
  BY DEF Init, LateInv
<1>2. TypeOK /\ LateInv /\ [Next]_vars => LateInv'
  <2> SUFFICES ASSUME TypeOK, LateInv, [Next]_vars PROVE LateInv'
    OBVIOUS
  <2> USE DEF LateInv, ShouldStop
  <2>1. CASE SendQuery
    BY <2>1 DEF SendQuery
  <2>2. CASE ShellForks
    BY <2>2 DEF ShellForks
  <2>3. CASE ShellChecks
    BY <2>3 DEF ShellChecks
  <2>4. CASE Commit
    BY <2>4 DEF Commit, TypeOK
  <2>5. CASE Submit \/ Crash \/ Restart \/ RequestStop \/ UNCHANGED vars
    BY <2>5 DEF Submit, Push, Crash, Restart, RequestStop, vars
  <2>6. CASE \/ TopStops \/ TopAtLimit \/ QueryCancelled \/ QueryFails
             \/ CommitFails \/ Replied \/ CompletionDone
    BY <2>6 DEF TopStops, TopAtLimit, QueryCancelled, QueryFails, CommitFails,
                Replied, CompletionDone, Finish, Throw, Push
  <2>7. CASE \/ QueryReturns \/ Nudge \/ Nudged \/ StartCompletion
             \/ StartCommand \/ RequestAuthorization \/ Rejected
             \/ ShellReturns \/ CommandDone \/ ObservationDone
    BY <2>7 DEF QueryReturns, Nudge, Nudged, StartCompletion, StartCommand,
                RequestAuthorization, Rejected, ShellReturns, CommandDone,
                ObservationDone, Finish, Push
  <2>8. CASE \E d \in Decisions : Decide(d)
    BY <2>8 DEF Decide, Finish, Push
  <2> QED
    BY <2>1, <2>2, <2>3, <2>4, <2>5, <2>6, <2>7, <2>8 DEF Next, LoopStep
<1>3. LateInv => StopBoundsWork
  BY DEF LateInv, StopBoundsWork
<1> QED
  BY <1>1, <1>2, <1>3, TypeCorrect, PTL DEF Spec

\* No shell is started for a command the policy denies, whatever the reviewer
\* may answer and in either mode.
THEOREM NoDeniedCommandStarts == Spec => []DeniedNeverStarts
<1>1. Init => DeniedNeverStarts
  BY DEF Init, DeniedNeverStarts, InShell
<1>2. TypeOK /\ DeniedNeverStarts /\ [Next]_vars => DeniedNeverStarts'
  <2> SUFFICES ASSUME TypeOK, DeniedNeverStarts, [Next]_vars
               PROVE  DeniedNeverStarts'
    OBVIOUS
  <2> USE DEF DeniedNeverStarts, InShell
  <2>1. ASSUME NEW d \in Decisions, Decide(d) PROVE DeniedNeverStarts'
    <3>1. d = "Approve" => EvaluatePolicy(cmd) # "Deny"
      BY <2>1 DEF Decide, AuthorizeCommand
    <3> QED
      BY <2>1, <3>1 DEF Decide, Finish, Push, EvaluatePolicy
  <2>2. CASE Commit
    BY <2>2 DEF Commit, TypeOK
  <2>3. CASE ShellChecks \/ ShellForks \/ ShellReturns
    BY <2>3 DEF ShellChecks, ShellForks, ShellReturns, EvaluatePolicy
  <2>4. CASE StartCompletion
    BY <2>4 DEF StartCompletion, Finish
  <2>5. CASE RequestStop \/ UNCHANGED vars
    BY <2>5 DEF RequestStop, vars, EvaluatePolicy
  <2>6. CASE Submit \/ Crash \/ Restart \/ CommitFails \/ SendQuery \/ QueryReturns
    BY <2>6 DEF Submit, Push, Crash, Restart, CommitFails, Throw, SendQuery,
                QueryReturns
  <2>7. CASE \/ TopStops \/ TopAtLimit \/ QueryCancelled \/ QueryFails
             \/ Replied \/ Nudge \/ Nudged \/ StartCommand
             \/ RequestAuthorization \/ Rejected
             \/ CompletionDone \/ CommandDone \/ ObservationDone
    BY <2>7 DEF TopStops, TopAtLimit, QueryCancelled, QueryFails, Replied, Nudge,
                Nudged, StartCommand, RequestAuthorization, Rejected,
                CompletionDone, CommandDone, ObservationDone, Finish, Throw, Push
  <2> QED
    BY <2>1, <2>2, <2>3, <2>4, <2>5, <2>6, <2>7 DEF Next, LoopStep
<1> QED
  BY <1>1, <1>2, TypeCorrect, PTL DEF Spec

\* A run reports what happened: Completed without a stop request and for a
\* durable completion, Stopped for a reason, the limit exactly at the limit.
THEOREM VerdictsAreTrue == Spec => VerdictIsTrue
<1> DEFINE Step ==
      /\ status' = "Completed" /\ status # "Completed" =>
            ~stop /\ stored[Len(stored)] = Assistant("complete")
      /\ status' = "Stopped" /\ status # "Stopped" =>
            stop \/ (pc = "reviewing" /\ "Stop" \in Answers)
      /\ status' = "StepLimitReached" /\ status # "StepLimitReached" =>
            step = StepLimit /\ step > 0
<1>1. TypeOK /\ ConvInv /\ [Next]_vars => Step
  <2> SUFFICES ASSUME TypeOK, ConvInv, [Next]_vars PROVE Step
    OBVIOUS
  <2> USE DEF ShouldStop
  <2>1. CASE CompletionDone
    <3>1. Newest = Assistant("complete")
      BY <2>1 DEF CompletionDone, ConvInv, At, InShell
    <3> QED
      BY <2>1, <3>1 DEF CompletionDone, Finish, Newest
  <2>2. CASE TopAtLimit
    <3>1. step = StepLimit /\ step > 0
      BY <2>2, LimitsAssumption DEF TopAtLimit, StepLimitReached, TypeOK
    <3> QED
      BY <2>2, <3>1 DEF TopAtLimit, Finish
  <2>3. ASSUME NEW d \in Decisions, Decide(d) PROVE Step
    <3>1. d = "Stop" => pc = "reviewing" /\ "Stop" \in Answers
      BY <2>3 DEF Decide, AuthorizeCommand
    <3> QED
      BY <2>3, <3>1 DEF Decide, Finish
  <2>4. CASE \/ TopStops \/ QueryCancelled \/ StartCompletion \/ StartCommand
             \/ RequestAuthorization \/ ObservationDone \/ Replied
    BY <2>4 DEF TopStops, QueryCancelled, StartCompletion, StartCommand,
                RequestAuthorization, ObservationDone, Replied, Finish, Push
  <2>5. CASE \/ Submit \/ Crash \/ Restart \/ RequestStop \/ UNCHANGED vars
             \/ Commit \/ CommitFails \/ SendQuery \/ QueryReturns \/ QueryFails
             \/ Nudge \/ Nudged \/ Rejected
             \/ ShellChecks \/ ShellForks \/ ShellReturns \/ CommandDone
    BY <2>5 DEF Submit, Crash, Restart, RequestStop, vars, Commit, CommitFails,
                Throw, SendQuery, QueryReturns, QueryFails, Nudge, Nudged,
                Rejected, ShellChecks, ShellForks, ShellReturns, CommandDone
  <2> QED
    BY <2>1, <2>2, <2>3, <2>4, <2>5 DEF Next, LoopStep
<1> QED
  BY <1>1, ConvAlways, PTL DEF Spec, VerdictIsTrue

-----------------------------------------------------------------------------
(***************************************************************************)
(* Counting. A turn adds the message of the model and then one of the      *)
(* host; how far it has come is known by the place.                        *)
(***************************************************************************)
Ahead ==
    IF pc \in {"top", "query", "replied"} \/ (pc = "commit" /\ after = "top")
    THEN 0
    ELSE IF pc \in {"parse", "authorize", "reviewing"} \cup InShell
            \/ (pc = "commit" /\ after = "parse")
         THEN 1 ELSE 2

CountInv ==
    /\ pc \notin {"idle", "down"} => Len(history) = base + 2 * step + Ahead
    /\ status = "StepLimitReached" =>
          pc = "idle" /\ Len(stored) = base + 2 * StepLimit

LEMMA PushCounts ==
    ASSUME TypeOK, NEW m \in Message, NEW goOn, Push(m, goOn)
    PROVE  Len(history') = Len(history) + 1 /\ Len(history) \in Nat
  BY AppendProperties, LenProperties DEF Push, TypeOK

LEMMA CountNext ==
    TypeInv /\ MemoryMatchesStore /\ CountInv /\ [Next]_vars => CountInv'
<1> SUFFICES ASSUME TypeInv, MemoryMatchesStore, CountInv, [Next]_vars
             PROVE  CountInv'
  OBVIOUS
<1> USE DEF CountInv, Ahead, InShell, ShouldStop
<1>0. /\ step \in Nat /\ base \in Nat /\ Len(history) \in Nat
      /\ pc \in Locations
      /\ after \in {"top", "parse", "nudged", "rejected", "observed"}
  BY LenProperties DEF TypeInv, TypeOK
<1>1. CASE Submit
  <2>1. Len(history') = Len(history) + 1
    BY <1>1, PushCounts, Messages DEF Submit, TypeInv
  <2> QED
    BY <1>0, <1>1, <2>1 DEF Submit, Push
<1>2. CASE Commit
  <2>1. /\ pc = "commit" /\ pc' = after
        /\ UNCHANGED <<after, step, history, status, base>>
    BY <1>2 DEF Commit
  <2>2. Len(history) = base + 2 * step + Ahead /\ status # "StepLimitReached"
    BY <2>1
  <2>3. Ahead' = Ahead
    BY <1>0, <2>1
  <2> QED
    BY <2>1, <2>2, <2>3
<1>3. CASE TopAtLimit
  <2>1. step = StepLimit /\ history = stored /\ pc = "top"
    BY <1>3, LimitsAssumption
       DEF TopAtLimit, StepLimitReached, TypeInv, TypeOK, MemoryMatchesStore
  <2> QED
    BY <1>0, <1>3, <2>1 DEF TopAtLimit, Finish
<1>4. CASE Replied
  <2>1. CASE UNCHANGED history
    BY <1>0, <1>4, <2>1, AppendProperties DEF Replied, Finish, Push, TypeInv, TypeOK
  <2>2. CASE Push(Assistant(last), "parse")
    <3>1. Len(history') = Len(history) + 1
      BY <2>2, PushCounts, Messages DEF TypeInv, TypeOK
    <3> QED
      BY <1>0, <1>4, <2>2, <3>1 DEF Replied, Push
  <2> QED
    BY <1>4, <2>1, <2>2 DEF Replied
<1>5. CASE Nudge
  <2>1. Len(history') = Len(history) + 1
    BY <1>5, PushCounts, Messages DEF Nudge, TypeInv
  <2> QED
    BY <1>0, <1>5, <2>1 DEF Nudge, Push
<1>6. ASSUME NEW d \in Decisions, Decide(d) PROVE CountInv'
  <2>1. CASE d = "Reject"
    <3>1. Len(history') = Len(history) + 1
      BY <1>6, <2>1, PushCounts, Messages DEF Decide, TypeInv
    <3> QED
      BY <1>0, <1>6, <2>1, <3>1 DEF Decide, Push
  <2>2. CASE d # "Reject"
    BY <1>0, <1>6, <2>2 DEF Decide, Finish
  <2> QED
    BY <2>1, <2>2
<1>7. CASE CommandDone
  <2>1. Len(history') = Len(history) + 1
    BY <1>7, PushCounts, Messages DEF CommandDone, TypeInv
  <2> QED
    BY <1>0, <1>7, <2>1 DEF CommandDone, Push
<1>8. CASE Nudged \/ Rejected \/ ObservationDone
  BY <1>0, <1>8 DEF Nudged, Rejected, ObservationDone, Finish
<1>9. CASE \/ TopStops \/ QueryCancelled \/ QueryFails \/ CommitFails
           \/ CompletionDone \/ Crash
  BY <1>9 DEF TopStops, QueryCancelled, QueryFails, CommitFails, CompletionDone,
              Crash, Finish, Throw
<1>10. CASE \/ SendQuery \/ QueryReturns \/ StartCompletion \/ StartCommand
            \/ RequestAuthorization \/ ShellChecks \/ ShellForks
            \/ ShellReturns
  BY <1>0, <1>10 DEF SendQuery, QueryReturns, StartCompletion, StartCommand,
                     RequestAuthorization, ShellChecks, ShellForks,
                     ShellReturns, Finish
<1>11. CASE RequestStop \/ Restart \/ UNCHANGED vars
  BY <1>11 DEF RequestStop, Restart, vars
<1> QED
  BY <1>1, <1>2, <1>3, <1>4, <1>5, <1>6, <1>7, <1>8, <1>9, <1>10, <1>11
     DEF Next, LoopStep

\* The step counter is the number of turns in the conversation, and the limit
\* bounds what one prompt may add to it.
THEOREM StepsAreTurns == Spec => []StepsCountTurns
<1>1. Init => CountInv
  BY DEF Init, CountInv
<1>2. TypeInv /\ CountInv => StepsCountTurns
  BY LimitsAssumption DEF TypeInv, TypeOK, BelowLimit, CountInv, Ahead,
                          StepsCountTurns
<1> QED
  BY <1>1, <1>2, CountNext, TypeInit, TypeNext, MemoryAndStore, PTL DEF Spec

-----------------------------------------------------------------------------
(***************************************************************************)
(* Events. Between the shells of a run every start has its finish; while   *)
(* one runs, its start is the last event; a verdict is the last of all.    *)
(***************************************************************************)
Pairs(ev) ==
    \A i \in 1 .. Len(ev) :
        /\ ev[i].type = "CommandStarted" /\ i # Len(ev) =>
              ev[i + 1] = Event("CommandFinished", ev[i].step)
        /\ ev[i].type = "CommandFinished" =>
              i > 1 /\ ev[i - 1].type = "CommandStarted"
        /\ ev[i].type \in Verdicts => i = Len(ev)

Closed(ev) ==
    /\ Pairs(ev)
    /\ \A i \in 1 .. Len(ev) :
          \/ ev[i].type # "CommandStarted" /\ ev[i].type \notin Verdicts
          \/ i # Len(ev)

Open(ev, s) ==
    /\ Pairs(ev)
    /\ Len(ev) > 0 /\ ev[Len(ev)] = Event("CommandStarted", s)

Ended(ev, verdict) ==
    /\ Pairs(ev) /\ verdict \in Verdicts
    /\ Len(ev) > 0 /\ ev[Len(ev)].type = verdict

EventInv ==
    /\ pc \in InShell => Open(events, step)
    /\ pc = "idle" => Closed(events) \/ Ended(events, status)
    /\ pc \notin InShell \cup {"idle"} => Closed(events)

Events == Seq([type : EventTypes, step : Nat])

\* A call of on_event with one event, and with two.
LEMMA EmitIs ==
    ASSUME events \in Events, NEW a \in EventTypes, NEW b \in EventTypes,
           NEW s \in Nat
    PROVE  /\ Emit(<<a>>, s) => events' = Append(events, Event(a, s))
           /\ Emit(<<a, b>>, s) =>
                 events' = Append(Append(events, Event(a, s)), Event(b, s))
<1> DEFINE e == Event(a, s)
           f == Event(b, s)
<1>0. /\ e \in [type : EventTypes, step : Nat]
      /\ f \in [type : EventTypes, step : Nat]
  BY DEF Event
<1>1. [i \in 1 .. Len(<<a>>) |-> Event(<<a>>[i], s)] = <<e>>
  OBVIOUS
<1>2. [i \in 1 .. Len(<<a, b>>) |-> Event(<<a, b>>[i], s)] = <<e, f>>
  OBVIOUS
<1>3. Emit(<<a>>, s) => events' = events \o <<e>>
  BY <1>1 DEF Emit
<1>4. Emit(<<a, b>>, s) => events' = events \o <<e, f>>
  BY <1>2 DEF Emit
<1> HIDE DEF e, f
<1>5. events \o <<e>> = Append(events, e)
  BY <1>0 DEF Events
<1>6. events \o <<e, f>> = Append(Append(events, e), f)
  BY <1>0 DEF Events
<1> QED
  BY <1>3, <1>4, <1>5, <1>6 DEF e, f

\* One more event: the pairs before it stay.
LEMMA PairsAppend ==
    ASSUME NEW ev \in Events, NEW a \in EventTypes, NEW s \in Nat, Pairs(ev),
           Len(ev) = 0 \/ ev[Len(ev)].type \notin Verdicts,
           \/ a # "CommandFinished" /\ Closed(ev)
           \/ a = "CommandFinished" /\ Open(ev, s)
    PROVE  /\ Pairs(Append(ev, Event(a, s)))
           /\ Len(Append(ev, Event(a, s))) > 0
           /\ Append(ev, Event(a, s))[Len(Append(ev, Event(a, s)))] = Event(a, s)
<1> DEFINE e == Event(a, s)
           x == Append(ev, e)
           n == Len(ev)
<1>1. e \in [type : EventTypes, step : Nat] /\ e.type = a /\ e.step = s
  BY DEF Event
<1>2. /\ n \in Nat /\ Len(x) = n + 1 /\ x[n + 1] = e
      /\ \A i \in 1 .. n : x[i] = ev[i]
  <2> HIDE DEF e
  <2> QED
    BY <1>1, AppendProperties, LenProperties DEF Events
<1> HIDE DEF e, x
<1>3. ASSUME NEW i \in 1 .. Len(x)
      PROVE  /\ x[i].type = "CommandStarted" /\ i # Len(x) =>
                   x[i + 1] = Event("CommandFinished", x[i].step)
             /\ x[i].type = "CommandFinished" =>
                   i > 1 /\ x[i - 1].type = "CommandStarted"
             /\ x[i].type \in Verdicts => i = Len(x)
  <2>1. CASE i = n + 1
    <3>1. i = Len(x) /\ x[i].type = a
      BY <1>1, <1>2, <2>1
    <3>2. a = "CommandFinished" => i > 1 /\ x[i - 1].type = "CommandStarted"
      <4> SUFFICES ASSUME a = "CommandFinished"
                   PROVE  n > 0 /\ x[n].type = "CommandStarted"
        BY <1>2, <2>1
      <4>1. n > 0 /\ ev[n].type = "CommandStarted"
        BY DEF Open, Event
      <4> QED
        BY <1>2, <4>1
    <3> QED
      BY <3>1, <3>2
  <2>2. CASE i = n /\ n > 0
    <3>1. x[i] = ev[i] /\ i \in 1 .. Len(ev) /\ Len(x) # i
      BY <1>2, <2>2
    <3>2. ev[i].type \notin Verdicts
      BY <2>2
    <3>3. ev[i].type = "CommandFinished" => i > 1 /\ x[i - 1].type = "CommandStarted"
      BY <1>2, <2>2, <3>1 DEF Pairs
    <3>4. ev[i].type = "CommandStarted" =>
              x[i + 1] = Event("CommandFinished", ev[i].step)
      <4>1. CASE Closed(ev)
        BY <2>2, <3>1, <4>1 DEF Closed
      <4>2. CASE a = "CommandFinished" /\ Open(ev, s)
        <5>1. ev[i].step = s
          BY <2>2, <4>2 DEF Open, Event
        <5> QED
          BY <1>2, <2>2, <4>2, <5>1 DEF e
      <4> QED
        BY <4>1, <4>2
    <3> QED
      BY <3>1, <3>2, <3>3, <3>4
  <2>3. CASE i < n
    <3>1. x[i] = ev[i] /\ x[i + 1] = ev[i + 1] /\ i \in 1 .. Len(ev)
      BY <1>2, <2>3
    <3>2. i > 1 => x[i - 1] = ev[i - 1]
      BY <1>2, <2>3
    <3>3. i # Len(x) /\ i # Len(ev)
      BY <1>2, <2>3
    <3> QED
      BY <1>2, <2>3, <3>1, <3>2, <3>3 DEF Pairs
  <2> QED
    BY <1>2, <2>1, <2>2, <2>3
<1>4. Pairs(x)
  BY <1>3 DEF Pairs
<1> QED
  BY <1>2, <1>4 DEF x, e

LEMMA EventSteps ==
    ASSUME NEW ev \in Events, NEW s \in Nat
    PROVE  /\ \A a \in EventTypes : Append(ev, Event(a, s)) \in Events
           /\ Closed(ev) =>
                 /\ \A a \in {"Assistant", "FormatError", "CommandRejected"} :
                       Closed(Append(ev, Event(a, s)))
                 /\ Open(Append(ev, Event("CommandStarted", s)), s)
                 /\ \A v \in Verdicts : Ended(Append(ev, Event(v, s)), v)
           /\ Open(ev, s) => Closed(Append(ev, Event("CommandFinished", s)))
<1>1. ASSUME NEW a \in EventTypes PROVE Append(ev, Event(a, s)) \in Events
  <2> DEFINE e == Event(a, s)
  <2>1. e \in [type : EventTypes, step : Nat]
    BY DEF Event
  <2> HIDE DEF e
  <2>2. Append(ev, e) \in Events
    BY <2>1, AppendProperties DEF Events
  <2> QED
    BY <2>2 DEF e
<1>2. ASSUME Closed(ev)
      PROVE  Pairs(ev) /\ (Len(ev) = 0 \/ ev[Len(ev)].type \notin Verdicts)
  <2>1. Len(ev) \in Nat
    BY LenProperties DEF Events
  <2>2. Len(ev) > 0 => Len(ev) \in 1 .. Len(ev)
    BY <2>1
  <2> QED
    BY <1>2, <2>1, <2>2 DEF Closed
<1>3. ASSUME Open(ev, s)
      PROVE  Pairs(ev) /\ ev[Len(ev)].type \notin Verdicts
  BY <1>3 DEF Open, Event, Verdicts
<1>4. ASSUME Closed(ev),
             NEW a \in {"Assistant", "FormatError", "CommandRejected"}
      PROVE  Closed(Append(ev, Event(a, s)))
  <2> DEFINE x == Append(ev, Event(a, s))
  <2>1. a \in EventTypes /\ a # "CommandFinished"
    BY DEF EventTypes
  <2>2. Pairs(x) /\ Len(x) > 0 /\ x[Len(x)] = Event(a, s)
    BY <1>2, <1>4, <2>1, PairsAppend
  <2> HIDE DEF x
  <2>3. x[Len(x)].type # "CommandStarted" /\ x[Len(x)].type \notin Verdicts
    BY <2>2 DEF Event, Verdicts
  <2>4. Closed(x)
    BY <2>2, <2>3 DEF Closed
  <2> QED
    BY <2>4 DEF x
<1>5. ASSUME Closed(ev)
      PROVE  Open(Append(ev, Event("CommandStarted", s)), s)
  BY <1>2, <1>5, PairsAppend DEF Open, EventTypes
<1>6. ASSUME Closed(ev), NEW v \in Verdicts
      PROVE  Ended(Append(ev, Event(v, s)), v)
  <2>1. v \in EventTypes /\ v # "CommandFinished"
    BY DEF EventTypes, Verdicts
  <2>2. Event(v, s).type = v
    BY DEF Event
  <2> QED
    BY <1>2, <1>6, <2>1, <2>2, PairsAppend DEF Ended
<1>7. ASSUME Open(ev, s)
      PROVE  Closed(Append(ev, Event("CommandFinished", s)))
  <2> DEFINE a == "CommandFinished"
             x == Append(ev, Event(a, s))
  <2>1. a \in EventTypes
    BY DEF EventTypes
  <2>2. Pairs(x) /\ Len(x) > 0 /\ x[Len(x)] = Event(a, s)
    BY <1>3, <1>7, <2>1, PairsAppend
  <2> HIDE DEF x
  <2>3. x[Len(x)].type # "CommandStarted" /\ x[Len(x)].type \notin Verdicts
    BY <2>2 DEF Event, Verdicts
  <2>4. Closed(x)
    BY <2>2, <2>3 DEF Closed
  <2> QED
    BY <2>4 DEF x
<1> QED
  BY <1>1, <1>4, <1>5, <1>6, <1>7

LEMMA TupleAppend ==
    ASSUME NEW a, NEW b
    PROVE  Append(<<>>, b) = <<b>> /\ Append(<<a>>, b) = <<a, b>>
<1> DEFINE S == {a, b}
           one == <<a>>
           two == <<a, b>>
<1>1. /\ one \in Seq(S) /\ Len(one) = 1 /\ one[1] = a /\ b \in S
      /\ two \in Seq(S) /\ Len(two) = 2 /\ two[1] = a /\ two[2] = b
  OBVIOUS
<1> HIDE DEF S, one, two
<1>2. /\ Append(one, b) \in Seq(S) /\ Len(Append(one, b)) = 2
      /\ Append(one, b)[1] = a /\ Append(one, b)[2] = b
  <2>1. /\ Append(one, b) \in Seq(S) /\ Len(Append(one, b)) = Len(one) + 1
        /\ \A i \in 1 .. Len(one) : Append(one, b)[i] = one[i]
        /\ Append(one, b)[Len(one) + 1] = b
    <3>1. one \in Seq(S) /\ b \in S
      BY <1>1
    <3> QED
      BY <3>1, AppendProperties
  <2> QED
    BY <1>1, <2>1
<1>3. \A i \in 1 .. Len(two) : Append(one, b)[i] = two[i]
  BY <1>1, <1>2
<1>4. Append(one, b) = two
  BY <1>1, <1>2, <1>3, SeqEqual
<1>5. Append(<<>>, b) = <<b>>
  OBVIOUS
<1> QED
  BY <1>4, <1>5 DEF one, two

\* A verdict without a shell before it, and the finish of a shell and its
\* verdict.
LEMMA FinishEvents ==
    ASSUME events \in Events, NEW v \in Verdicts, NEW s \in Nat
    PROVE  /\ Closed(events) /\ Finish(v, <<>>, s) => EventInv'
           /\ Closed(events) /\ Finish(v, <<"Assistant">>, s) => EventInv'
           /\ Open(events, s) /\ Finish(v, <<"CommandFinished">>, s) => EventInv'
<1>1. /\ v \in EventTypes /\ "Assistant" \in EventTypes
      /\ "CommandFinished" \in EventTypes
  BY DEF EventTypes
<1>2. /\ Append(<<>>, v) = <<v>>
      /\ Append(<<"Assistant">>, v) = <<"Assistant", v>>
      /\ Append(<<"CommandFinished">>, v) = <<"CommandFinished", v>>
  BY TupleAppend
<1>3. ASSUME NEW x \in Events, Closed(x), events' = Append(x, Event(v, s)),
             status' = v, pc' = "idle"
      PROVE  EventInv'
  BY <1>3, EventSteps DEF EventInv, InShell
<1>4. ASSUME Closed(events), Finish(v, <<>>, s) PROVE EventInv'
  <2>1. events' = Append(events, Event(v, s))
    BY <1>1, <1>2, <1>4, EmitIs DEF Finish
  <2> QED
    BY <1>3, <1>4, <2>1 DEF Finish
<1>5. ASSUME Closed(events), Finish(v, <<"Assistant">>, s) PROVE EventInv'
  <2> DEFINE x == Append(events, Event("Assistant", s))
  <2>1. Emit(<<"Assistant", v>>, s)
    BY <1>2, <1>5 DEF Finish
  <2>2. events' = Append(x, Event(v, s))
    BY <1>1, <2>1, EmitIs
  <2>3. x \in Events /\ Closed(x)
    BY <1>1, <1>5, EventSteps
  <2> HIDE DEF x
  <2> QED
    BY <1>3, <1>5, <2>2, <2>3 DEF Finish
<1>6. ASSUME Open(events, s), Finish(v, <<"CommandFinished">>, s) PROVE EventInv'
  <2> DEFINE x == Append(events, Event("CommandFinished", s))
  <2>1. Emit(<<"CommandFinished", v>>, s)
    BY <1>2, <1>6 DEF Finish
  <2>2. events' = Append(x, Event(v, s))
    BY <1>1, <2>1, EmitIs
  <2>3. x \in Events /\ Closed(x)
    BY <1>1, <1>6, EventSteps
  <2> HIDE DEF x
  <2> QED
    BY <1>3, <1>6, <2>2, <2>3 DEF Finish
<1> QED
  BY <1>4, <1>5, <1>6

LEMMA EventNext == TypeOK /\ TypeOK' /\ EventInv /\ [Next]_vars => EventInv'
<1> SUFFICES ASSUME TypeOK, TypeOK', EventInv, [Next]_vars PROVE EventInv'
  OBVIOUS
<1> USE DEF ShouldStop
<1>1. /\ events \in Events /\ step \in Nat /\ step + 1 \in Nat
      /\ {"Stopped", "StepLimitReached", "EmptyResponse", "Completed"}
             \subseteq Verdicts
      /\ \A a \in {"Assistant", "FormatError", "CommandStarted",
                   "CommandRejected", "CommandFinished"} : a \in EventTypes
  BY DEF TypeOK, Events, Verdicts, EventTypes
<1>2. pc \notin InShell \cup {"idle"} => Closed(events)
  BY DEF EventInv
<1>3. pc \in InShell => Open(events, step)
  BY DEF EventInv
\* A run or a process that begins or is gone has told nothing.
<1>4. CASE Submit \/ Crash
  <2>1. events' = <<>> /\ pc' \in {"commit", "down"}
    BY <1>4 DEF Submit, Push, Crash
  <2>2. Closed(<<>>)
    BY DEF Closed, Pairs
  <2> QED
    BY <2>1, <2>2 DEF EventInv, InShell
<1>5. CASE TopStops \/ TopAtLimit \/ QueryCancelled
  <2>1. /\ pc \in {"top", "query"}
        /\ \E v \in {"Stopped", "StepLimitReached"} : Finish(v, <<>>, step)
    BY <1>5 DEF TopStops, TopAtLimit, QueryCancelled
  <2> QED
    BY <1>1, <1>2, <2>1, FinishEvents DEF InShell
<1>6. CASE Replied
  <2>1. CASE \E v \in {"Stopped", "EmptyResponse"} : Finish(v, <<>>, step)
    BY <1>1, <1>2, <1>6, <2>1, FinishEvents DEF Replied, InShell
  <2>2. CASE Push(Assistant(last), "parse") /\ UNCHANGED events
    BY <1>2, <1>6, <2>2 DEF Replied, Push, EventInv, InShell
  <2> QED
    BY <1>6, <2>1, <2>2 DEF Replied
<1>7. CASE Nudge \/ Nudged
  <2>1. /\ pc \in {"parse", "nudged"} /\ pc' \in {"commit", "top"}
        /\ \E a \in {"Assistant", "FormatError"} : Emit(<<a>>, step)
    BY <1>7 DEF Nudge, Nudged, Push
  <2>2. \E a \in {"Assistant", "FormatError"} :
            events' = Append(events, Event(a, step))
    BY <1>1, <2>1, EmitIs
  <2>3. Closed(events')
    BY <1>1, <1>2, <2>1, <2>2, EventSteps DEF InShell
  <2> QED
    BY <2>1, <2>3 DEF EventInv, InShell
<1>8. CASE StartCompletion
  <2>1. pc = "parse" /\ step' = step
    BY <1>8 DEF StartCompletion
  <2>2. CASE Finish("Stopped", <<>>, step)
    BY <1>1, <1>2, <2>1, <2>2, FinishEvents DEF InShell
  <2>3. CASE Emit(<<"CommandStarted">>, step) /\ pc' = "shell"
    <3>1. events' = Append(events, Event("CommandStarted", step))
      BY <1>1, <2>3, EmitIs
    <3>2. Open(events', step')
      BY <1>1, <1>2, <2>1, <3>1, EventSteps DEF InShell
    <3> QED
      BY <2>3, <3>2 DEF EventInv, InShell
  <2> QED
    BY <1>8, <2>2, <2>3 DEF StartCompletion
<1>9. CASE StartCommand
  <2>1. pc = "parse"
    BY <1>9 DEF StartCommand
  <2>2. CASE Finish("Stopped", <<"Assistant">>, step)
    BY <1>1, <1>2, <2>1, <2>2, FinishEvents DEF InShell
  <2>3. CASE Emit(<<"Assistant">>, step) /\ pc' = "authorize"
    <3>1. events' = Append(events, Event("Assistant", step))
      BY <1>1, <2>3, EmitIs
    <3>2. Closed(events')
      BY <1>1, <1>2, <2>1, <3>1, EventSteps DEF InShell
    <3> QED
      BY <2>3, <3>2 DEF EventInv, InShell
  <2> QED
    BY <1>9, <2>2, <2>3 DEF StartCommand
<1>10. CASE RequestAuthorization
  <2>1. CASE Finish("Stopped", <<>>, step)
    BY <1>1, <1>2, <1>10, <2>1, FinishEvents DEF RequestAuthorization, InShell
  <2>2. CASE pc' = "reviewing" /\ UNCHANGED events
    BY <1>2, <1>10, <2>2 DEF RequestAuthorization, EventInv, InShell
  <2> QED
    BY <1>10, <2>1, <2>2 DEF RequestAuthorization
<1>11. ASSUME NEW d \in Decisions, Decide(d) PROVE EventInv'
  <2>1. pc = "reviewing" /\ step' = step
    BY <1>11 DEF Decide
  <2>2. CASE d = "Stop" /\ Finish("Stopped", <<>>, step)
    BY <1>1, <1>2, <2>1, <2>2, FinishEvents DEF InShell
  <2>3. CASE Emit(<<"CommandRejected">>, step) /\ Push(Observed("refusal"), "rejected")
    <3>1. events' = Append(events, Event("CommandRejected", step))
      BY <1>1, <2>3, EmitIs
    <3>2. Closed(events')
      BY <1>1, <1>2, <2>1, <3>1, EventSteps DEF InShell
    <3> QED
      BY <2>3, <3>2 DEF Push, EventInv, InShell
  <2>4. CASE Emit(<<"CommandStarted">>, step) /\ pc' = "shell"
    <3>1. events' = Append(events, Event("CommandStarted", step))
      BY <1>1, <2>4, EmitIs
    <3>2. Open(events', step')
      BY <1>1, <1>2, <2>1, <3>1, EventSteps DEF InShell
    <3> QED
      BY <2>4, <3>2 DEF EventInv, InShell
  <2> QED
    BY <1>11, <2>2, <2>3, <2>4 DEF Decide
<1>12. CASE ShellChecks \/ ShellForks \/ ShellReturns
  <2>1. pc \in InShell /\ pc' \in InShell /\ UNCHANGED <<events, step>>
    BY <1>12 DEF ShellChecks, ShellForks, ShellReturns, InShell
  <2> QED
    BY <1>3, <2>1 DEF EventInv, InShell
<1>13. CASE CompletionDone
  <2>1. /\ pc \in InShell
        /\ \E v \in {"Stopped", "Completed"} :
              Finish(v, <<"CommandFinished">>, step)
    BY <1>13 DEF CompletionDone, InShell
  <2> QED
    BY <1>1, <1>3, <2>1, FinishEvents
<1>14. CASE CommandDone
  <2>1. pc \in InShell /\ pc' = "commit" /\ Emit(<<"CommandFinished">>, step)
    BY <1>14 DEF CommandDone, Push, InShell
  <2>2. events' = Append(events, Event("CommandFinished", step))
    BY <1>1, <2>1, EmitIs
  <2>3. Closed(events')
    BY <1>1, <1>3, <2>1, <2>2, EventSteps
  <2> QED
    BY <2>1, <2>3 DEF EventInv, InShell
<1>15. CASE ObservationDone
  <2>1. CASE Finish("Stopped", <<>>, step + 1)
    BY <1>1, <1>2, <1>15, <2>1, FinishEvents DEF ObservationDone, InShell
  <2>2. CASE pc' = "top" /\ UNCHANGED events
    BY <1>2, <1>15, <2>2 DEF ObservationDone, EventInv, InShell
  <2> QED
    BY <1>15, <2>1, <2>2 DEF ObservationDone
<1>16. CASE CommitFails \/ QueryFails \/ SendQuery \/ QueryReturns \/ Rejected
  BY <1>2, <1>16 DEF CommitFails, QueryFails, SendQuery, QueryReturns, Rejected,
                     Throw, EventInv, InShell
<1>17. CASE Commit
  BY <1>2, <1>17 DEF Commit, TypeOK, EventInv, InShell
<1>18. CASE Restart
  BY <1>2, <1>18 DEF Restart, EventInv, InShell
<1>19. CASE RequestStop \/ UNCHANGED vars
  BY <1>19 DEF RequestStop, vars, EventInv, InShell
<1> QED
  BY <1>4, <1>5, <1>6, <1>7, <1>8, <1>9, <1>10, <1>11, <1>12, <1>13, <1>14,
     <1>15, <1>16, <1>17, <1>18, <1>19 DEF Next, LoopStep

\* on_event sees a finish for every start, directly behind it, and one verdict
\* at the end, the one run returns; and that verdict is true.
THEOREM ReportsAreTrue == Spec => ReportIsTrue
<1>1. Init => EventInv
  <2>1. Closed(<<>>)
    BY DEF Closed, Pairs
  <2> QED
    BY <2>1 DEF Init, EventInv, InShell
<1>2. TypeOK /\ EventInv => EventsPaired
  <2> SUFFICES ASSUME TypeOK, EventInv PROVE EventsPaired
    OBVIOUS
  <2>1. Pairs(events)
    BY DEF EventInv, Closed, Ended, Open
  <2>2. ASSUME NEW i \in 1 .. Len(events)
        PROVE  /\ events[i].type = "CommandStarted" /\ i = Len(events) =>
                     pc \in InShell
               /\ events[i].type \in Verdicts =>
                     i = Len(events) /\ pc = "idle" /\ status = events[i].type
    <3>1. CASE Closed(events)
      BY <2>1, <3>1 DEF Closed, Pairs
    <3>2. CASE pc \in InShell /\ Open(events, step)
      <4>1. events[Len(events)].type = "CommandStarted"
        BY <3>2 DEF Open, Event
      <4>2. events[i].type \in Verdicts => i = Len(events)
        BY <2>1 DEF Pairs
      <4> QED
        BY <3>2, <4>1, <4>2 DEF Verdicts
    <3>3. CASE pc = "idle" /\ Ended(events, status)
      BY <2>1, <3>3 DEF Ended, Pairs, Verdicts
    <3> QED
      BY <3>1, <3>2, <3>3 DEF EventInv
  <2> QED
    BY <2>1, <2>2 DEF EventsPaired, Pairs
<1> QED
  BY <1>1, <1>2, EventNext, TypeCorrect, VerdictsAreTrue, PTL
  DEF Spec, ReportIsTrue
=============================================================================
