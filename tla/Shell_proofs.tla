----------------------------- MODULE Shell_proofs -----------------------------
(***************************************************************************)
(* Theorems about Shell, for any number of processes, every size of pipe   *)
(* and buffer and every limit on the output.                               *)
(***************************************************************************)
EXTENDS Shell, TLAPS

-----------------------------------------------------------------------------
(***************************************************************************)
(* Types, and the output: the two are proved together, since the bound on  *)
(* the output comes from what was read.                                    *)
(***************************************************************************)
TypeInv == TypeOK /\ buffer <= written /\ OutputIsPrefix

LEMMA TypeInit == Init => TypeInv
<1> SUFFICES ASSUME Init PROVE TypeInv
  OBVIOUS
<1>1. MaxBytes \in Nat /\ PipeSize \in Nat
  BY SizesAssumption
<1>2. TypeOK
  <2>1. /\ output \in 0 .. MaxBytes /\ buffer \in 0 .. PipeSize
        /\ written \in Nat
    BY <1>1 DEF Init
  <2>2. /\ life \in [Procs -> {"none", "alive", "dead", "reaped"}]
        /\ group \in [Procs -> {"caller", "own", "left"}]
        /\ sent \in [Procs -> {"none", "TERM", "KILL"}]
        /\ holders \subseteq Procs /\ deaf \subseteq Procs
    BY DEF Init
  <2> QED  BY <2>1, <2>2 DEF Init, TypeOK, Places
<1>3. buffer <= written /\ OutputIsPrefix
  BY <1>1 DEF Init, OutputIsPrefix
<1> QED
  BY <1>2, <1>3 DEF TypeInv

LEMMA SignalType ==
    ASSUME TypeOK, NEW s \in {"TERM", "KILL"}, Signal(s)
    PROVE  sent' \in [Procs -> {"none", "TERM", "KILL"}]
  BY DEF TypeOK, Signal

LEMMA GoneType ==
    ASSUME TypeOK, NEW p \in Procs, NEW how \in {"zero", "nonzero", "signal"},
           Gone(p, how)
    PROVE  TypeOK'
  BY DEF TypeOK, Gone, answer, Places

LEMMA TypeNext == TypeInv /\ [Next]_vars => TypeInv'
<1> SUFFICES ASSUME TypeInv, [Next]_vars PROVE TypeInv'
  OBVIOUS
<1>s. /\ MaxBytes \in Nat /\ PipeSize \in Nat /\ ReadSize \in Nat
      /\ TypeOK /\ buffer <= written /\ OutputIsPrefix
  BY SizesAssumption DEF TypeInv
<1>k. ASSUME UNCHANGED <<buffer, written, output, truncated>>, TypeOK'
      PROVE  TypeInv'
  BY <1>s, <1>k DEF TypeInv, OutputIsPrefix
<1>p. Leader \in Procs /\ Helpers \subseteq Procs
  BY DEF Procs
<1>1. CASE Refuse
  <2>1. TypeOK'
    BY <1>s, <1>1 DEF TypeOK, Refuse, command, Places
  <2> QED  BY <1>k, <1>1, <2>1 DEF Refuse, command
<1>2. CASE ChecksToken
  <2>1. TypeOK'
    BY <1>s, <1>2 DEF TypeOK, ChecksToken, answer, command, Places
  <2> QED  BY <1>k, <1>2, <2>1 DEF ChecksToken, answer, command
<1>3. CASE StartFails
  <2>1. TypeOK'
    BY <1>s, <1>3 DEF TypeOK, StartFails, command, Places
  <2> QED  BY <1>k, <1>3, <2>1 DEF StartFails, command
<1>4. CASE Fork
  <2>1. TypeOK'
    BY <1>s, <1>p, <1>4 DEF TypeOK, Fork, answer, Places
  <2> QED  BY <1>k, <1>4, <2>1 DEF Fork, answer
<1>5. CASE ParentSetup
  <2>1. TypeOK'
    BY <1>s, <1>p, <1>5 DEF TypeOK, ParentSetup, answer, Places
  <2> QED  BY <1>k, <1>5, <2>1 DEF ParentSetup, answer
<1>6. CASE SendSignals
  <2>1. sent' \in [Procs -> {"none", "TERM", "KILL"}]
    BY <1>s, <1>6, SignalType DEF SendSignals, TypeOK
  <2>2. phase' \in {"calm", "term", "overdue", "killed"}
    BY <1>s, <1>6 DEF SendSignals, TypeOK
  <2>3. TypeOK'
    BY <1>s, <1>6, <2>1, <2>2 DEF TypeOK, SendSignals, answer, command, Places
  <2> QED  BY <1>k, <1>6, <2>3 DEF SendSignals, answer, command
<1>7. CASE PollTimesOut
  <2>1. TypeOK'
    BY <1>s, <1>7 DEF TypeOK, PollTimesOut, answer, command, Places
  <2> QED  BY <1>k, <1>7, <2>1 DEF PollTimesOut, answer, command
<1>8. CASE Reads
  <2>1. PICK n \in 1 .. ReadSize :
           /\ n <= buffer
           /\ buffer' = buffer - n
           /\ output' = IF truncated \/ output + n > MaxBytes THEN MaxBytes
                                                             ELSE output + n
           /\ truncated' = (truncated \/ output + n > MaxBytes)
    BY <1>8 DEF Reads
  <2>2. /\ written' = written /\ n \in Nat /\ n > 0
        /\ written \in Nat /\ buffer \in 0 .. PipeSize
        /\ output \in 0 .. MaxBytes /\ truncated \in BOOLEAN
    BY <1>s, <1>8 DEF Reads, command, TypeOK
  <2> DEFINE received == written - buffer
  <2>3. /\ received \in Nat /\ (written - buffer)' = received + n
        /\ output = IF received > MaxBytes THEN MaxBytes ELSE received
        /\ truncated <=> received > MaxBytes
    BY <1>s, <2>1, <2>2 DEF OutputIsPrefix
  <2>4. (truncated \/ output + n > MaxBytes) <=> received + n > MaxBytes
    BY <1>s, <2>2, <2>3
  <2>5. OutputIsPrefix' /\ (buffer <= written)'
    <3>1. truncated' <=> received + n > MaxBytes
      BY <2>1, <2>4
    <3>2. output' = IF received + n > MaxBytes THEN MaxBytes ELSE received + n
      <4>1. CASE received + n > MaxBytes
        BY <2>1, <2>4, <4>1
      <4>2. CASE ~(received + n > MaxBytes)
        BY <1>s, <2>1, <2>2, <2>3, <2>4, <4>2
      <4> QED  BY <4>1, <4>2
    <3>3. (buffer <= written)'
      BY <1>s, <2>1, <2>2
    <3> QED  BY <2>3, <3>1, <3>2, <3>3 DEF OutputIsPrefix
  <2>6. output' \in 0 .. MaxBytes /\ truncated' \in BOOLEAN
        /\ buffer' \in 0 .. PipeSize
    BY <1>s, <2>1, <2>2
  <2>7. TypeOK'
    BY <1>s, <1>8, <2>6 DEF TypeOK, Reads, command, Places
  <2> QED  BY <2>5, <2>7 DEF TypeInv
<1>9. CASE EndOfFile
  <2>1. TypeOK'
    BY <1>s, <1>9 DEF TypeOK, EndOfFile, answer, command, Places
  <2> QED  BY <1>k, <1>9, <2>1 DEF EndOfFile, answer, command
<1>10. CASE PipeFails
  <2>1. sent' \in [Procs -> {"none", "TERM", "KILL"}]
    BY <1>s, <1>10, SignalType DEF PipeFails
  <2>2. TypeOK'
    BY <1>s, <1>10, <2>1 DEF TypeOK, PipeFails, command, Places
  <2> QED  BY <1>k, <1>10, <2>2 DEF PipeFails, command
<1>11. CASE Reap
  <2>1. TypeOK'
    BY <1>s, <1>p, <1>11 DEF TypeOK, Reap, Places
  <2> QED  BY <1>k, <1>11, <2>1 DEF Reap
<1>12. CASE GraceEnds
  <2>1. TypeOK'
    BY <1>s, <1>12 DEF TypeOK, GraceEnds, answer, command, Places
  <2> QED  BY <1>k, <1>12, <2>1 DEF GraceEnds, answer, command
<1>13. CASE SetsGroup
  <2>1. TypeOK'
    BY <1>s, <1>p, <1>13 DEF TypeOK, SetsGroup, answer, Places
  <2> QED  BY <1>k, <1>13, <2>1 DEF SetsGroup, answer
<1>14. CASE RequestStop
  <2>1. TypeOK'
    BY <1>s, <1>14 DEF TypeOK, RequestStop, answer, command, Places
  <2> QED  BY <1>k, <1>14, <2>1 DEF RequestStop, answer, command
<1>15. ASSUME NEW p \in Procs, Process(p) PROVE TypeInv'
  <2>1. CASE Writes(p)
    <3>1. written' = written + 1 /\ buffer' = buffer + 1 /\ buffer < PipeSize
      BY <2>1 DEF Writes
    <3>2. buffer \in Nat /\ written \in Nat
      BY <1>s DEF TypeOK
    <3>3. buffer' \in 0 .. PipeSize /\ written' \in Nat /\ buffer' <= written'
          /\ written' - buffer' = written - buffer
      BY <1>s, <3>1, <3>2
    <3>4. TypeOK'
      BY <1>s, <2>1, <3>3 DEF TypeOK, Writes, answer, Places
    <3>5. OutputIsPrefix'
      BY <1>s, <2>1, <3>3 DEF OutputIsPrefix, Writes, answer
    <3> QED  BY <3>3, <3>4, <3>5 DEF TypeInv
  <2>2. CASE LeavesGroup(p)
    <3>1. TypeOK'
      BY <1>s, <2>2 DEF TypeOK, LeavesGroup, answer, Places
    <3> QED  BY <1>k, <2>2, <3>1 DEF LeavesGroup, answer
  <2>3. CASE IgnoresTerm(p)
    <3>1. TypeOK'
      BY <1>s, <2>3 DEF TypeOK, IgnoresTerm, answer, Places
    <3> QED  BY <1>k, <2>3, <3>1 DEF IgnoresTerm, answer
  <2>4. CASE ClosesOutput(p)
    <3>1. TypeOK'
      BY <1>s, <2>4 DEF TypeOK, ClosesOutput, answer, Places
    <3> QED  BY <1>k, <2>4, <3>1 DEF ClosesOutput, answer
  <2>5. CASE Exits(p)
    <3>1. PICK how \in {"zero", "nonzero", "signal"} : Gone(p, how)
      BY <2>5 DEF Exits
    <3>2. TypeOK'
      BY <1>s, <3>1, GoneType
    <3> QED  BY <1>k, <3>1, <3>2 DEF Gone, answer
  <2>6. CASE Dies(p)
    <3>1. Gone(p, "signal")
      BY <2>6 DEF Dies
    <3>2. TypeOK'
      BY <1>s, <3>1, GoneType
    <3> QED  BY <1>k, <3>1, <3>2 DEF Gone, answer
  <2>7. ASSUME NEW q \in Helpers, Spawns(p, q) PROVE TypeInv'
    <3>1. TypeOK'
      BY <1>s, <1>p, <2>7 DEF TypeOK, Spawns, answer, Places
    <3> QED  BY <1>k, <2>7, <3>1 DEF Spawns, answer
  <2> QED
    BY <1>15, <2>1, <2>2, <2>3, <2>4, <2>5, <2>6, <2>7 DEF Process
<1>16. CASE Returned \/ UNCHANGED vars
  <2>1. UNCHANGED vars
    BY <1>16 DEF Returned
  <2>2. TypeOK'
    BY <1>s, <2>1 DEF TypeOK, vars
  <2> QED  BY <1>k, <2>1, <2>2 DEF vars
<1> QED
  BY <1>1, <1>2, <1>3, <1>4, <1>5, <1>6, <1>7, <1>8, <1>9, <1>10, <1>11,
     <1>12, <1>13, <1>14, <1>15, <1>16 DEF Next, RunShell

\* The variables keep their types, and the output its limit.
THEOREM TypeCorrect == Spec => []TypeOK
<1>1. TypeInv => TypeOK
  BY DEF TypeInv
<1> QED
  BY TypeInit, TypeNext, <1>1, PTL DEF Spec

\* What run_shell has is the beginning of what the command wrote, for every
\* split of it into reads, and marked as truncated only if it is cut.
THEOREM OutputIsAPrefix == Spec => []OutputIsPrefix
<1>1. TypeInv => OutputIsPrefix
  BY DEF TypeInv
<1> QED
  BY TypeInit, TypeNext, <1>1, PTL DEF Spec

-----------------------------------------------------------------------------
(***************************************************************************)
(* The end of the output, and of the command.                              *)
(***************************************************************************)
\* Once nobody holds the pipe nobody gets hold of it again.
LEMMA CompleteNext ==
    TypeOK /\ OutputIsComplete /\ [Next]_vars => OutputIsComplete'
<1> SUFFICES ASSUME TypeOK, OutputIsComplete, [Next]_vars,
                    pc' = "wait", error' = "none"
             PROVE  buffer' = 0 /\ holders' = {}
  BY DEF OutputIsComplete
<1>1. CASE EndOfFile
  BY <1>1 DEF EndOfFile, Open, command
<1>2. CASE UNCHANGED <<pc, error, buffer, holders>>
  BY <1>2 DEF OutputIsComplete
<1>3. ASSUME NEW p \in Procs, Process(p) PROVE buffer' = 0 /\ holders' = {}
  <2>1. pc = "wait" /\ error = "none"
    BY <1>3 DEF Process, Writes, LeavesGroup, IgnoresTerm, ClosesOutput,
                Exits, Dies, Gone, Spawns, answer
  <2>2. buffer = 0 /\ holders = {}
    BY <2>1 DEF OutputIsComplete
  <2>3. ~Writes(p)
    BY <2>1 DEF Writes
  <2>4. buffer' = buffer
    BY <1>3, <2>3 DEF Process, LeavesGroup, IgnoresTerm, ClosesOutput, Exits,
                      Dies, Gone, Spawns
  <2>5. holders' \subseteq holders
    BY <1>3, <2>2, <2>3 DEF Process, LeavesGroup, IgnoresTerm, ClosesOutput,
                            Exits, Dies, Gone, Spawns
  <2> QED  BY <2>2, <2>4, <2>5
<1> QED
  BY <1>1, <1>2, <1>3
  DEF Next, RunShell, Refuse, ChecksToken, StartFails, Fork, ParentSetup,
      SendSignals, PollTimesOut, Reads, PipeFails, Reap, GraceEnds, SetsGroup,
      RequestStop, Returned, answer, command, vars

\* When run_shell stops reading for no error, nothing is left to be read and
\* nobody to write it.
THEOREM OutputIsWhole == Spec => []OutputIsComplete
<1>1. Init => OutputIsComplete
  BY DEF Init, OutputIsComplete
<1> QED
  BY TypeCorrect, <1>1, CompleteNext, PTL DEF Spec

\* The result of run_shell is all the output, or its marked beginning.
THEOREM ResultIsFaithful == Spec => []OutputIsFaithful
<1>1. OutputIsPrefix /\ OutputIsComplete => OutputIsFaithful
  BY DEF OutputIsFaithful
<1> QED
  BY OutputIsAPrefix, OutputIsWhole, <1>1, PTL

\* The one place that makes the result an exit has reaped the shell, and is
\* the end of the call.
ReapInv == result = "Exited" => pc = "done" /\ life[Leader] = "reaped"

LEMMA ReapNext == TypeOK /\ ReapInv /\ [Next]_vars => ReapInv'
<1> SUFFICES ASSUME TypeOK, ReapInv, [Next]_vars, result' = "Exited"
             PROVE  pc' = "done" /\ life'[Leader] = "reaped"
  BY DEF ReapInv
<1>p. Leader \in Procs /\ Leader \notin Helpers
      /\ life \in [Procs -> {"none", "alive", "dead", "reaped"}]
  BY ProcessesAssumption DEF Procs, TypeOK
<1>1. CASE Reap
  BY <1>p, <1>1 DEF Reap
<1>2. CASE UNCHANGED <<pc, result, life>>
  BY <1>2 DEF ReapInv
<1>3. ASSUME NEW p \in Procs, Process(p)
      PROVE  pc' = "done" /\ life'[Leader] = "reaped"
  <2>1. pc' = pc /\ result' = result
    BY <1>3 DEF Process, Writes, LeavesGroup, IgnoresTerm, ClosesOutput,
                Exits, Dies, Gone, Spawns, answer
  <2>2. pc = "done" /\ life[Leader] = "reaped"
    BY <2>1 DEF ReapInv
  <2>3. ASSUME NEW how, Gone(p, how), life[p] = "alive"
        PROVE  life'[Leader] = "reaped"
    BY <1>p, <2>2, <2>3 DEF Gone
  <2>4. ASSUME NEW q \in Helpers, Spawns(p, q) PROVE life'[Leader] = "reaped"
    BY <1>p, <2>2, <2>4 DEF Spawns
  <2>5. CASE Exits(p) \/ Dies(p)
    BY <2>1, <2>2, <2>3, <2>5 DEF Exits, Dies, Works, Runs
  <2>6. CASE UNCHANGED life
    BY <2>1, <2>2, <2>6
  <2> QED
    BY <1>3, <2>1, <2>2, <2>4, <2>5, <2>6
    DEF Process, Writes, LeavesGroup, IgnoresTerm, ClosesOutput
<1>4. CASE \/ Refuse \/ ChecksToken \/ StartFails \/ Fork \/ ParentSetup
           \/ SendSignals \/ PollTimesOut \/ Reads \/ EndOfFile \/ PipeFails
  <2>1. pc # "done" /\ (result' = result \/ result' = "ExecutionError")
    BY <1>4 DEF Refuse, ChecksToken, StartFails, Fork, ParentSetup,
                SendSignals, PollTimesOut, Reads, EndOfFile, PipeFails, answer
  <2> QED  BY <2>1 DEF ReapInv
<1> QED
  BY <1>1, <1>2, <1>3, <1>4
  DEF Next, RunShell, GraceEnds, SetsGroup, RequestStop, Returned, answer,
      command, vars

\* No command that failed or was killed is shown as one that worked.
THEOREM FailuresAreShown == Spec => []FailureIsShown
<1>1. Init => ReapInv
  BY DEF Init, ReapInv
<1>2. TypeOK /\ ReapInv => FailureIsShown
  BY DEF TypeOK, ReapInv, FailureIsShown, Report
<1> QED
  BY TypeCorrect, <1>1, <1>2, ReapNext, PTL DEF Spec

-----------------------------------------------------------------------------
(***************************************************************************)
(* SIGKILL. No signal is sent before setpgid was called by the parent, and *)
(* what the shell starts is in its group: so the group that is signalled   *)
(* has every process of the command that did not leave it.                 *)
(***************************************************************************)
GroupInv ==
    /\ pc \in {"loop", "poll", "wait"} => group[Leader] = "own"
    /\ \A q \in Helpers : life[q] = "alive" => group[q] # "caller"
    /\ pc \in {"start", "forking", "forked"} => phase = "calm"
    /\ KillReachesAll

LEMMA GroupNext == TypeOK /\ GroupInv /\ [Next]_vars => GroupInv'
<1> SUFFICES ASSUME TypeOK, GroupInv, [Next]_vars PROVE GroupInv'
  OBVIOUS
<1>p. /\ Leader \in Procs /\ Leader \notin Helpers /\ Helpers \subseteq Procs
      /\ \A p \in Procs : p = Leader \/ p \in Helpers
      /\ life \in [Procs -> {"none", "alive", "dead", "reaped"}]
      /\ group \in [Procs -> {"caller", "own", "left"}]
      /\ sent \in [Procs -> {"none", "TERM", "KILL"}]
  BY ProcessesAssumption DEF Procs, TypeOK
<1>1. CASE \/ Refuse \/ ChecksToken \/ StartFails \/ PollTimesOut \/ Reads
           \/ EndOfFile \/ RequestStop \/ Returned \/ UNCHANGED vars
  BY <1>1 DEF GroupInv, KillReachesAll, Refuse, ChecksToken, StartFails,
              PollTimesOut, Reads, EndOfFile, RequestStop, Returned, command,
              vars
<1>2. CASE Fork
  BY <1>p, <1>2 DEF GroupInv, KillReachesAll, Fork
<1>3. CASE ParentSetup
  BY <1>p, <1>3 DEF GroupInv, KillReachesAll, ParentSetup
<1>4. CASE SetsGroup
  BY <1>p, <1>4 DEF GroupInv, KillReachesAll, SetsGroup
<1>5. CASE GraceEnds
  BY <1>5 DEF GroupInv, KillReachesAll, GraceEnds, command
<1>6. CASE Reap
  BY <1>p, <1>6 DEF GroupInv, KillReachesAll, Reap
<1>7. ASSUME NEW s \in {"TERM", "KILL"}, Signal(s), pc \in {"loop", "poll"},
             UNCHANGED <<life, group>>
      PROVE  \A p \in Procs :
                 life'[p] = "alive" /\ group'[p] # "left" =>
                     \/ sent'[p] = "KILL"
                     \/ s # "KILL"
  <2> SUFFICES ASSUME NEW p \in Procs, life[p] = "alive", group[p] # "left"
               PROVE  sent'[p] = "KILL" \/ s # "KILL"
    BY <1>7
  <2>1. p \in Members
    BY <1>p, <1>7 DEF GroupInv, Members
  <2> QED  BY <1>p, <1>7, <2>1 DEF Signal
<1>8. CASE SendSignals
  <2>1. CASE stop /\ phase = "calm" /\ Signal("TERM") /\ phase' = "term"
    BY <1>8, <2>1 DEF GroupInv, KillReachesAll, SendSignals, command
  <2>2. CASE phase = "overdue" /\ Signal("KILL") /\ phase' = "killed"
    BY <1>7, <1>8, <2>2 DEF GroupInv, KillReachesAll, SendSignals, command
  <2>3. CASE UNCHANGED <<phase, sent>>
    BY <1>8, <2>3 DEF GroupInv, KillReachesAll, SendSignals, command
  <2> QED  BY <1>8, <2>1, <2>2, <2>3 DEF SendSignals
<1>9. CASE PipeFails
  BY <1>7, <1>9 DEF GroupInv, KillReachesAll, PipeFails, command
<1>10. ASSUME NEW p \in Procs, Process(p) PROVE GroupInv'
  <2>1. CASE Writes(p) \/ IgnoresTerm(p) \/ ClosesOutput(p)
    BY <2>1 DEF GroupInv, KillReachesAll, Writes, IgnoresTerm, ClosesOutput
  <2>2. CASE LeavesGroup(p)
    BY <1>p, <2>2 DEF GroupInv, KillReachesAll, LeavesGroup
  <2>3. CASE Exits(p) \/ Dies(p)
    BY <1>p, <2>3 DEF GroupInv, KillReachesAll, Exits, Dies, Gone
  <2>4. ASSUME NEW q \in Helpers, Spawns(p, q) PROVE GroupInv'
    <3>1. /\ life' = [life EXCEPT ![q] = "alive"]
          /\ group' = [group EXCEPT ![q] = group[p]]
          /\ group[p] # "caller" /\ life[p] = "alive" /\ sent[p] # "KILL"
          /\ UNCHANGED <<pc, phase, sent>>
      BY <2>4 DEF Spawns, Works, Runs, Ignores
    <3>2. phase = "killed" => group[p] = "left"
      BY <3>1 DEF GroupInv, KillReachesAll
    <3> QED
      BY <1>p, <3>1, <3>2 DEF GroupInv, KillReachesAll
  <2> QED
    BY <1>10, <2>1, <2>2, <2>3, <2>4 DEF Process
<1> QED
  BY <1>1, <1>2, <1>3, <1>4, <1>5, <1>6, <1>8, <1>9, <1>10 DEF Next, RunShell

\* SIGKILL reaches every process of the command that did not leave its group,
\* however many there are and whenever they were started.
THEOREM KillIsComplete == Spec => []KillReachesAll
<1>1. Init => GroupInv
  BY DEF Init, GroupInv, KillReachesAll, Procs
<1>2. GroupInv => KillReachesAll
  BY DEF GroupInv
<1> QED
  BY TypeCorrect, <1>1, <1>2, GroupNext, PTL DEF Spec
=============================================================================
