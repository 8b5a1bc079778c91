------------------------- MODULE RunSupervisionProofs -------------------------
(***************************************************************************)
(* Safety of RunSupervision, for any reasons of a kill and any failures.   *)
(***************************************************************************)
EXTENDS RunSupervision, TLAPS

\* A supervision that is done has no client left, and a run that is judged has a
\* supervision that is done; nor has a run that was lost a client.
Over ==
  /\ phase = "done" => client # "running"
  /\ stage \notin {"watching", "lost"} => phase = "done"
  /\ stage = "lost" => client # "running"

\* Which verdicts there are at each stage.
Judged ==
  /\ stage = "failure" => Failed
  /\ stage \in {"join", "zeroWork", "probe", "comment"} => ~Failed
  /\ stage \in {"watching", "failure", "join", "probe"} => ~zeroWork /\ ~incomplete
  /\ stage = "zeroWork" => zeroWork /\ ~incomplete
  /\ stage = "comment" => ~zeroWork /\ incomplete
  /\ zeroWork => ~incomplete
  /\ zeroWork \/ incomplete => ~Failed

\* What has been reported at each stage, if nothing has failed.
Reported ==
  /\ stage \in Stages \ {"manifest", "writing", "event", "reported", "lost"} => comments = {}
  /\ stage # "reported" => event = "none"
  /\ stage = "reported" => event = Outcome
  /\ faults = Faults => \/ stage \notin {"manifest", "writing", "event", "reported"}
                        \/ comments = IF HasContext /\ Outcome # "completed" THEN {Outcome} ELSE {}
  /\ faults = Faults /\ kill = "none" /\ stage \in {"event", "reported"} => manifest = Outcome

\* A run that passed the probe of an issue it had to close has closed it.
Probed ==
  faults = Faults /\ CloseOnSuccess /\ stage \in {"manifest", "writing", "event", "reported"} /\ Outcome = "completed" =>
    issue = "closed"

\* An end in the manifest is the run's, and was written by its watcher.
Written == manifest \notin Unfinished => stage \in {"event", "reported", "lost"} /\ manifest = Classification

\* After the join everything the run printed is filed, and stays so, unless the
\* reader stopped or was not waited for; what zero-work was judged by is all of it.
Read ==
  /\ stage \notin {"watching", "failure", "join"} /\ ~Failed /\ reading /\ ~cutShort => filed = printed
  /\ zeroWork /\ ~cutShort => PlanningOnly(Filed) /\ (reading => filed = printed)

IInv ==
  /\ TypeOK
  /\ Over
  /\ Judged
  /\ Read
  /\ Reported
  /\ Probed
  /\ Written
  /\ RunningIsExplained

------------------------------------------------------------------------------

\* The supervision keeps its types.
LEMMA SupTypeStep ==
  ASSUME SupTypeOK, SupNext
  PROVE  SupTypeOK'
<1> USE DEF SupTypeOK, process
<1>1. CASE \E status \in {"zero", "nonzero"} : ClientExits(status)
  BY <1>1 DEF ClientExits
<1>2. CASE ChildStarts
  BY <1>2 DEF ChildStarts
<1>3. CASE ChildEnds
  BY <1>3 DEF ChildEnds
<1>4. CASE LoseTrack
  BY <1>4 DEF LoseTrack
<1>5. CASE \E reason \in Reasons : Decide(reason)
  BY <1>5 DEF Decide
<1>6. CASE FindExited
  BY <1>6 DEF FindExited
<1>7. CASE ForceKill
  BY <1>7 DEF ForceKill
<1> QED
  BY <1>1, <1>2, <1>3, <1>4, <1>5, <1>6, <1>7 DEF SupNext, Conclude

\* A fault is one of those that were left.
LEMMA FaultsLeft ==
  ASSUME faults \in 0..Faults, NoFault \/ Fault
  PROVE  faults' \in 0..Faults
  BY FaultsAssumption DEF NoFault, Fault

\* And is seen in the number.
LEMMA FaultShows ==
  ASSUME faults \in 0..Faults, Fault
  PROVE  faults' # Faults
  BY FaultsAssumption DEF Fault

\* Every variable keeps its type.
LEMMA TypeStep ==
  ASSUME TypeOK, [Next]_vars
  PROVE  TypeOK'
<1> USE DEF TypeOK, supVars, process, stream, verdict, report
<1>0. Len(script) \in Nat
  BY ScriptsAssumption
<1>1. CASE Supervised(SupNext)
  <2>1. SupTypeOK'
    BY <1>1, SupTypeStep DEF Supervised
  <2> QED
    BY <1>1, <2>1 DEF Supervised
<1>2. CASE PrintLine \/ FileLine
  <2>1. printed' \in 0..Len(script) /\ filed' \in 0..printed'
    BY <1>0, <1>2 DEF PrintLine, FileLine
  <2>2. UNCHANGED <<supVars, dispatch, stage, script, reading, verdict, issue, report, faults>>
    BY <1>2 DEF PrintLine, FileLine
  <2> QED
    BY <2>1, <2>2 DEF SupTypeOK
<1>3. CASE ReaderStops
  <2>1. faults' \in 0..Faults
    BY <1>3, FaultsLeft DEF ReaderStops
  <2>2. reading' \in BOOLEAN
    BY <1>3 DEF ReaderStops
  <2> QED
    BY <1>3, <2>1, <2>2 DEF ReaderStops, SupTypeOK
<1>4. CASE CloseIssue
  BY <1>4 DEF CloseIssue, SupTypeOK
<1>5. CASE Judge
  BY <1>5 DEF Judge, To, Stages, SupTypeOK
<1>6. CASE PostFailure \/ PostZeroWork \/ PostIncomplete
  <2>1. faults' \in 0..Faults
    BY <1>6, FaultsLeft DEF PostFailure, PostZeroWork, PostIncomplete, Post
  <2>2. stage' \in Stages
    BY <1>6 DEF PostFailure, PostZeroWork, PostIncomplete, To, Stages
  <2>3. comments' \subseteq {"failed", "zero_work", "incomplete"}
    BY <1>6 DEF PostFailure, PostZeroWork, PostIncomplete, Post
  <2> QED
    BY <1>6, <2>1, <2>2, <2>3 DEF PostFailure, PostZeroWork, PostIncomplete, Post, SupTypeOK
<1>7. CASE JoinReader \/ JoinTimesOut
  <2>1. faults' \in 0..Faults
    BY <1>7, FaultsLeft DEF JoinReader, JoinTimesOut, ReadTools
  <2>2. stage' \in Stages
    BY <1>7 DEF JoinReader, JoinTimesOut, ReadTools, To, Stages
  <2>3. cutShort' \in BOOLEAN /\ zeroWork' \in BOOLEAN
    BY <1>7 DEF JoinReader, JoinTimesOut, ReadTools, PlanningOnly
  <2>4. UNCHANGED <<supVars, dispatch, stream, incomplete, issue, report>>
    BY <1>7 DEF JoinReader, JoinTimesOut, ReadTools
  <2> QED
    BY <2>1, <2>2, <2>3, <2>4 DEF SupTypeOK
<1>8. CASE ProbeIssue
  <2>1. faults' \in 0..Faults /\ stage' \in Stages /\ incomplete' \in BOOLEAN
    BY <1>8, FaultsLeft DEF ProbeIssue, To, Stages
  <2> QED
    BY <1>8, <2>1 DEF ProbeIssue, SupTypeOK
<1>9. CASE BeginManifest \/ EndManifest
  <2>1. faults' \in 0..Faults
    BY <1>9, FaultsLeft DEF BeginManifest, EndManifest
  <2>2. stage' \in Stages
    BY <1>9 DEF BeginManifest, EndManifest, To, Stages
  <2>3. manifest' \in Reasons \cup Outcomes \cup Unfinished
    BY <1>9 DEF BeginManifest, EndManifest, Classification, Outcome, Outcomes, Unfinished, SupTypeOK
  <2>4. UNCHANGED <<supVars, dispatch, stream, verdict, issue, comments, event>>
    BY <1>9 DEF BeginManifest, EndManifest
  <2> QED
    BY <1>9, <2>1, <2>2, <2>3, <2>4 DEF SupTypeOK
<1>10. CASE EmitEvent
  BY <1>10 DEF EmitEvent, Outcome, Outcomes, To, Stages, SupTypeOK
<1>11. CASE Restart
  <2>1. faults' \in 0..Faults /\ stage' \in Stages
    BY <1>11, FaultsLeft DEF Restart, Stages
  <2>2. client' \in {"running", "zero", "nonzero"} /\ child' = FALSE /\ reading' = FALSE
    BY <1>11 DEF Restart, SupTypeOK
  <2> QED
    BY <1>11, <2>1, <2>2 DEF Restart, SupTypeOK
<1>12. CASE UNCHANGED vars
  BY <1>12 DEF vars, SupTypeOK
<1> QED
  BY <1>1, <1>2, <1>3, <1>4, <1>5, <1>6, <1>7, <1>8, <1>9, <1>10, <1>11, <1>12
    DEF Next, RunStep, CompletionStep

\* What the supervision does leaves a finished one alone: neither the client nor
\* the reason of its kill changes any more.
LEMMA DoneIsDone ==
  ASSUME TypeOK, Over, [Next]_vars
  PROVE  /\ phase = "done" => UNCHANGED <<client, phase, kill>>
         /\ client # "running" => client' = client
         /\ stage # "watching" => stage' # "watching"
<1> USE DEF TypeOK, SupTypeOK, Over, process, supVars
<1>1. CASE Supervised(SupNext)
  BY <1>1 DEF Supervised, SupNext, ClientExits, ChildStarts, ChildEnds, LoseTrack, Conclude, Decide,
              FindExited, ForceKill
<1>2. CASE PrintLine \/ FileLine \/ ReaderStops \/ CloseIssue
  BY <1>2 DEF PrintLine, FileLine, ReaderStops, CloseIssue
<1>3. CASE CompletionStep
  BY <1>3 DEF CompletionStep, Judge, PostFailure, PostZeroWork, PostIncomplete, Post, JoinReader,
              JoinTimesOut, ReadTools, ProbeIssue, BeginManifest, EndManifest, EmitEvent, To
<1>4. CASE Restart
  BY <1>4 DEF Restart
<1>5. CASE UNCHANGED vars
  BY <1>5 DEF vars
<1> QED
  BY <1>1, <1>2, <1>3, <1>4, <1>5 DEF Next, RunStep

\* The supervision is done only without a client, and is not judged before.
LEMMA OverStep ==
  ASSUME TypeOK, Over, [Next]_vars
  PROVE  Over'
<1> USE DEF TypeOK, SupTypeOK, Over, process, supVars
<1>1. CASE Supervised(SupNext)
  BY <1>1 DEF Supervised, SupNext, ClientExits, ChildStarts, ChildEnds, LoseTrack, Conclude, Decide,
              FindExited, ForceKill
<1>2. CASE PrintLine \/ FileLine \/ ReaderStops \/ CloseIssue
  BY <1>2 DEF PrintLine, FileLine, ReaderStops, CloseIssue
<1>3. CASE CompletionStep
  BY <1>3 DEF CompletionStep, Judge, PostFailure, PostZeroWork, PostIncomplete, Post, JoinReader,
              JoinTimesOut, ReadTools, ProbeIssue, BeginManifest, EndManifest, EmitEvent, To
<1>4. CASE Restart
  BY <1>4 DEF Restart
<1>5. CASE UNCHANGED vars
  BY <1>5 DEF vars
<1> QED
  BY <1>1, <1>2, <1>3, <1>4, <1>5 DEF Next, RunStep

\* The verdicts fit the stage, from the judgement on.
LEMMA JudgedStep ==
  ASSUME TypeOK, Over, Judged, [Next]_vars
  PROVE  Judged'
<1> USE DEF TypeOK, SupTypeOK, Over, Judged, Failed, process, supVars, stream, verdict, report
<1>1. CASE Supervised(SupNext)
  BY <1>1, DoneIsDone DEF Supervised
<1>2. CASE PrintLine \/ FileLine \/ ReaderStops \/ CloseIssue
  BY <1>2 DEF PrintLine, FileLine, ReaderStops, CloseIssue
<1>3. CASE Judge
  BY <1>3 DEF Judge, To
<1>4. CASE PostFailure \/ PostZeroWork \/ PostIncomplete
  BY <1>4 DEF PostFailure, PostZeroWork, PostIncomplete, Post, To
<1>5. CASE JoinReader \/ JoinTimesOut
  BY <1>5 DEF JoinReader, JoinTimesOut, ReadTools, To
<1>6. CASE ProbeIssue
  BY <1>6 DEF ProbeIssue, To
<1>7. CASE BeginManifest \/ EndManifest \/ EmitEvent
  BY <1>7 DEF BeginManifest, EndManifest, EmitEvent, To
<1>8. CASE Restart
  BY <1>8 DEF Restart
<1>9. CASE UNCHANGED vars
  BY <1>9 DEF vars
<1> QED
  BY <1>1, <1>2, <1>3, <1>4, <1>5, <1>6, <1>7, <1>8, <1>9 DEF Next, RunStep, CompletionStep

\* What was read for a verdict stays all there is: the client is gone, and its
\* reader had filed all it printed, or files no more.
LEMMA ReadStep ==
  ASSUME TypeOK, Over, Judged, Read, [Next]_vars
  PROVE  Read'
<1> USE DEF TypeOK, Over, Judged, Read, Filed, supVars, process, stream, verdict, report, To
<1>0. stage \notin {"watching", "failure", "join"} => client # "running"
  OBVIOUS
<1>1. CASE PrintLine \/ FileLine \/ ReaderStops \/ CloseIssue
  BY <1>1 DEF PrintLine, FileLine, ReaderStops, CloseIssue, Failed
<1>2. CASE JoinReader \/ JoinTimesOut
  <2>1. /\ zeroWork' => PlanningOnly(Filed)
        /\ ~cutShort' => ReaderEnded
        /\ UNCHANGED <<client, script, printed, filed, reading>>
    BY <1>2 DEF JoinReader, JoinTimesOut, ReadTools
  <2>2. PlanningOnly(Filed)' = PlanningOnly(Filed)
    BY <2>1
  <2> QED
    BY <2>1, <2>2 DEF ReaderEnded, Failed
<1>3. CASE Supervised(SupNext)
  <2>1. UNCHANGED <<stage, script, printed, filed, reading, cutShort, zeroWork>>
    BY <1>3 DEF Supervised
  <2>2. client # "running" => client' = client
    BY <1>3, DoneIsDone
  <2> QED
    BY <2>1, <2>2 DEF Failed
<1>4. CASE Judge \/ PostFailure \/ PostZeroWork \/ PostIncomplete \/ ProbeIssue \/ BeginManifest
           \/ EndManifest \/ EmitEvent
  BY <1>4 DEF Judge, PostFailure, PostZeroWork, PostIncomplete, Post, ProbeIssue, BeginManifest,
              EndManifest, EmitEvent, Failed
<1>5. CASE Restart
  BY <1>5 DEF Restart
<1>6. CASE UNCHANGED vars
  BY <1>6 DEF vars, Failed
<1> QED
  BY <1>1, <1>2, <1>3, <1>4, <1>5, <1>6 DEF Next, RunStep, CompletionStep

\* Comments, manifest and event follow the one outcome.
LEMMA ReportedStep ==
  ASSUME TypeOK, Over, Judged, Reported, Probed, [Next]_vars
  PROVE  Reported' /\ Probed'
<1> USE FaultsAssumption
        DEF TypeOK, Over, Judged, Reported, Probed, Stages, Outcome, Failed, HasContext, CloseOnSuccess,
            process, supVars, stream, verdict, report, To
<1>1. CASE Supervised(SupNext)
  BY <1>1, DoneIsDone DEF Supervised
<1>2. CASE PrintLine \/ FileLine \/ ReaderStops \/ CloseIssue
  <2>1. UNCHANGED <<client, kill, dispatch, stage, zeroWork, incomplete, comments, manifest, event>>
    BY <1>2 DEF PrintLine, FileLine, ReaderStops, CloseIssue
  <2>2. /\ faults' = Faults => faults = Faults
        /\ issue = "closed" => issue' = "closed"
    BY <1>2, FaultShows DEF PrintLine, FileLine, ReaderStops, CloseIssue
  <2> QED
    BY <2>1, <2>2
<1>3. CASE Judge
  BY <1>3 DEF Judge
<1>4. CASE PostFailure \/ PostZeroWork \/ PostIncomplete
  <2>1. UNCHANGED <<client, kill, dispatch, zeroWork, incomplete, issue, manifest, event>>
    BY <1>4 DEF PostFailure, PostZeroWork, PostIncomplete, Post
  <2>2. stage \in {"failure", "zeroWork", "comment"} /\ stage' = "manifest"
    BY <1>4 DEF PostFailure, PostZeroWork, PostIncomplete
  <2>3. \E kind \in {"failed", "zero_work", "incomplete"} : Post(kind) /\ kind = Outcome
    BY <1>4 DEF PostFailure, PostZeroWork, PostIncomplete
  <2>4. comments = {} /\ HasContext' = HasContext
    BY <2>1, <2>2
  <2>5. /\ faults' = Faults => faults = Faults
        /\ faults' = Faults => comments' = (IF HasContext THEN {Outcome} ELSE {})
    <3> HIDE DEF Outcome, HasContext, Reported, Judged, Probed
    <3> QED
      BY <2>3, <2>4, FaultShows DEF Post, NoFault
  <2>6. Outcome # "completed"
    BY <2>2
  <2> QED
    BY <2>1, <2>2, <2>5, <2>6
<1>5. CASE JoinReader \/ JoinTimesOut
  <2>1. /\ stage = "join" /\ stage' \in {"zeroWork", "probe"}
        /\ UNCHANGED <<client, kill, dispatch, comments, manifest, event>>
    BY <1>5 DEF JoinReader, JoinTimesOut, ReadTools
  <2> QED
    BY <2>1
<1>6. CASE ProbeIssue
  <2>1. /\ stage = "probe" /\ stage' = IF incomplete' THEN "comment" ELSE "manifest"
        /\ UNCHANGED <<client, kill, dispatch, zeroWork, issue, comments, manifest, event>>
    BY <1>6 DEF ProbeIssue
  <2>2. faults' = Faults => faults = Faults /\ (CloseOnSuccess /\ ~incomplete' => issue = "closed")
    <3>1. CASE Fault
      BY <3>1, FaultShows
    <3>2. CASE NoFault /\ CloseOnSuccess /\ incomplete' = (issue = "open")
      BY <3>2 DEF NoFault
    <3>3. CASE NoFault /\ ~CloseOnSuccess
      BY <3>3 DEF NoFault
    <3> QED
      BY <1>6, <3>1, <3>2, <3>3 DEF ProbeIssue, NotProbed
  <2> QED
    BY <2>1, <2>2
<1>7. CASE BeginManifest \/ EndManifest
  <2>1. /\ \/ stage = "manifest" /\ stage' \in {"writing", "event"}
           \/ stage = "writing" /\ stage' = "event"
        /\ faults' = Faults => faults = Faults
        /\ UNCHANGED <<client, kill, dispatch, zeroWork, incomplete, issue, comments, event>>
    BY <1>7 DEF BeginManifest, EndManifest, NoFault, Fault
  <2>2. faults' = Faults /\ kill = "none" /\ stage' = "event" => manifest' = Outcome
    BY <1>7 DEF BeginManifest, EndManifest, Classification, NoFault, Fault
  <2> QED
    BY <2>1, <2>2
<1>8. CASE EmitEvent
  BY <1>8 DEF EmitEvent
<1>9. CASE Restart
  <2>1. faults' # Faults
    BY <1>9, FaultShows DEF Restart
  <2>2. /\ stage' = (IF stage = "reported" THEN "reported" ELSE "lost")
        /\ UNCHANGED <<kill, zeroWork, incomplete, comments, event>>
        /\ stage = "reported" => UNCHANGED client
    BY <1>9 DEF Restart
  <2> QED
    BY <2>1, <2>2
<1>10. CASE UNCHANGED vars
  BY <1>10 DEF vars
<1> QED
  BY <1>1, <1>2, <1>3, <1>4, <1>5, <1>6, <1>7, <1>8, <1>9, <1>10 DEF Next, RunStep, CompletionStep

\* The end in the manifest is there to stay, and only a fault leaves it out.
LEMMA WrittenStep ==
  ASSUME TypeOK, Over, Written, RunningIsExplained, [Next]_vars
  PROVE  Written' /\ RunningIsExplained'
<1> USE FaultsAssumption
        DEF TypeOK, Over, Written, RunningIsExplained, Classification, Outcome, Failed, process, supVars,
            stream, verdict, report, To
<1>1. CASE Supervised(SupNext)
  BY <1>1, DoneIsDone DEF Supervised
<1>2. CASE PrintLine \/ FileLine \/ CloseIssue
  BY <1>2 DEF PrintLine, FileLine, CloseIssue
<1>3. CASE ReaderStops
  BY <1>3, FaultShows DEF ReaderStops, Fault
<1>4. CASE Judge \/ PostFailure \/ PostZeroWork \/ PostIncomplete \/ JoinReader \/ JoinTimesOut \/ ProbeIssue
  <2>1. /\ stage \notin {"event", "reported", "lost"} /\ stage' \notin {"event", "reported", "lost"}
        /\ UNCHANGED manifest
    BY <1>4 DEF Judge, PostFailure, PostZeroWork, PostIncomplete, Post, JoinReader, JoinTimesOut,
                ReadTools, ProbeIssue
  <2> QED
    BY <2>1
<1>5. CASE BeginManifest
  <2>1. manifest \in Unfinished
    BY <1>5 DEF BeginManifest
  <2>2. CASE NoFault /\ stage' = "writing" /\ manifest' = "torn"
    BY <2>2 DEF Unfinished
  <2>3. CASE Fault /\ stage' = "event" /\ manifest' = manifest
    BY <2>1, <2>3 DEF Fault
  <2> QED
    BY <1>5, <2>2, <2>3 DEF BeginManifest
<1>6. CASE EndManifest
  <2>1. UNCHANGED <<client, kill, zeroWork, incomplete>> /\ stage = "writing" /\ stage' = "event"
    BY <1>6 DEF EndManifest
  <2>2. CASE NoFault /\ manifest' = Classification
    <3>1. Classification \notin Unfinished
      BY ReasonsAreOwn DEF SupTypeOK, Unfinished
    <3> QED
      BY <2>1, <2>2, <3>1
  <2>3. CASE Fault /\ manifest' = manifest
    BY <2>1, <2>3 DEF Fault
  <2> QED
    BY <1>6, <2>2, <2>3 DEF EndManifest
<1>7. CASE EmitEvent
  BY <1>7 DEF EmitEvent
<1>8. CASE Restart
  <2>1. faults' < Faults
    BY <1>8 DEF Restart, Fault
  <2>2. UNCHANGED <<kill, zeroWork, incomplete, manifest>> /\ stage' \in {"reported", "lost"}
    BY <1>8 DEF Restart
  <2>3. manifest \notin Unfinished => UNCHANGED client
    BY <1>8 DEF Restart
  <2> QED
    BY <2>1, <2>2, <2>3
<1>9. CASE UNCHANGED vars
  BY <1>9 DEF vars
<1> QED
  BY <1>1, <1>2, <1>3, <1>4, <1>5, <1>6, <1>7, <1>8, <1>9 DEF Next, RunStep, CompletionStep

------------------------------------------------------------------------------

\* The invariant holds of a run that has just been dispatched.
LEMMA InitHolds == Init => IInv
<1> SUFFICES ASSUME Init PROVE IInv
  OBVIOUS
<1> USE DEF Init, SupInit
<1>1. TypeOK
  <2>1. SupTypeOK
    BY DEF SupTypeOK
  <2>2. stage \in Stages /\ faults \in 0..Faults
    BY FaultsAssumption DEF Stages
  <2>3. script \in Scripts /\ printed \in 0..Len(script) /\ filed \in 0..printed
    BY ScriptsAssumption
  <2>4. manifest \in Unfinished /\ comments \subseteq {"failed", "zero_work", "incomplete"}
    BY DEF Unfinished
  <2> QED
    BY <2>1, <2>2, <2>3, <2>4 DEF TypeOK
<1>2. Over /\ Judged /\ Read
  BY DEF Over, Judged, Read
<1>3. Reported /\ Probed
  BY DEF Reported, Probed
<1>4. Written /\ RunningIsExplained
  BY DEF Written, RunningIsExplained, Unfinished
<1> QED
  BY <1>1, <1>2, <1>3, <1>4 DEF IInv

\* Every step preserves it.
LEMMA Inductive == IInv /\ [Next]_vars => IInv'
  BY TypeStep, OverStep, JudgedStep, ReadStep, ReportedStep, WrittenStep DEF IInv

\* The invariant holds of every behaviour.
THEOREM Invariance == Spec => []IInv
  BY InitHolds, Inductive, PTL DEF Spec

\* Every variable of a run, its supervision and its report keeps its type.
THEOREM TypeCorrect == Spec => []TypeOK
<1>1. IInv => TypeOK
  BY DEF IInv
<1> QED
  BY <1>1, Invariance, PTL

\* _run_completion_watcher judges a run only when its client is gone.
THEOREM ReportsComeAfterTheEnd == Spec => []ReportedIsOver
<1>1. IInv => ReportedIsOver
  BY DEF IInv, Over, ReportedIsOver
<1> QED
  BY <1>1, Invariance, PTL

\* A zero-work verdict is true, unless the reader stopped early or was not waited
\* for.
THEOREM ZeroWorkVerdictsAreTrue == Spec => []ZeroWorkIsTrue
<1>1. IInv => ZeroWorkIsTrue
  BY DEF IInv, Read, ZeroWorkIsTrue, PlanningOnly, Filed
<1> QED
  BY <1>1, Invariance, PTL

\* A completed run whose label closes its issue has closed it, as long as gh
\* answers.
THEOREM CompletedRunsClose == Spec => []CompletedIsClosed
<1>1. IInv => CompletedIsClosed
  BY DEF IInv, TypeOK, Reported, Probed, CompletedIsClosed
<1> QED
  BY <1>1, Invariance, PTL

\* Manifest, event and comment tell one story of a run that was not killed.
THEOREM ReportsAlwaysAgree == Spec => []ReportsAgree
<1>1. IInv => ReportsAgree
  BY DEF IInv, Reported, ReportsAgree
<1> QED
  BY <1>1, Invariance, PTL

\* A manifest that says a finished run goes on is the trace of a restart or of a
\* failed write.
THEOREM UnfinishedIsExplained == Spec => []RunningIsExplained
<1>1. IInv => RunningIsExplained
  BY DEF IInv
<1> QED
  BY <1>1, Invariance, PTL

\* The exit status is what a failure comment depends on: a killed run whose client
\* did not exit with 0 has one, as long as nothing fails.
THEOREM KilledAndFailedIsReported == Spec => [](Failed => KilledIsReported)
<1>1. IInv => (Failed => KilledIsReported)
  BY DEF IInv, Reported, KilledIsReported, Outcome
<1> QED
  BY <1>1, Invariance, PTL
==============================================================================
