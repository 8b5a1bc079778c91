---------------------------- MODULE RunViewsProofs ----------------------------
(***************************************************************************)
(* What the dashboard shows of a run, for any number of requests, any time *)
(* to live, and any of the runs of RunSupervision.                         *)
(***************************************************************************)
EXTENDS RunViews, RunSupervisionProofs, RunNarrativeProofs

\* A run that is looked at is a run.
LEMMA ViewStepsAreRunSteps == [ViewNext]_viewVars => [Next]_vars
  BY DEF ViewNext, RunGoesOn, RunRestarts, ViewStep, Look, ReadManifest, StoreNarrative, Store, Tick, Next,
         viewVars

\* Being looked at changes nothing for a run, its fairness included.
THEOREM LookedAtRunsAreRuns == ViewSpec => Spec
<1>1. ViewInit => Init
  BY DEF ViewInit
<1> QED
  BY <1>1, ViewStepsAreRunSteps, PTL DEF ViewSpec, Spec

\* The invariant of the run holds beside the views.
LEMMA RunInvariance == ViewSpec => []IInv
  BY LookedAtRunsAreRuns, Invariance, PTL

------------------------------------------------------------------------------

\* An end that was read from the manifest is the one it has.
Seen == \A r \in Requests :
  request[r].at = "logs" /\ request[r].status # "running" =>
    Ended(manifest) /\ request[r].status = StatusOf(manifest)

\* Whoever read a manifest without an end did so before it had one.
Early ==
  /\ ~Ended(manifest) => endAge = 0
  /\ \A r \in Requests : request[r].at = "logs" /\ request[r].status = "running" => request[r].age >= endAge
  /\ entry.status = "running" => entry.age >= endAge

\* An entry shows what a request had read, of a file that has only grown since.
Stored ==
  /\ entry.status # "running" => Ended(manifest) /\ entry.status = StatusOf(manifest)
  /\ entry.lines <= filed
  /\ entry.status \in {"zero_work", "incomplete", "completed"} /\ reading /\ ~cutShort => entry.lines = printed

VInv ==
  /\ ViewTypeOK
  /\ Seen
  /\ Early
  /\ Stored

------------------------------------------------------------------------------

\* What has an end is in a status of its own.
LEMMA EndsShow ==
  ASSUME NEW m
  PROVE  /\ StatusOf(m) \in Statuses
         /\ StatusOf(m) = "running" => ~Ended(m)
         /\ ~Ended(m) => StatusOf(m) = "running"
         /\ StatusOf(m) \in {"zero_work", "incomplete", "completed"} => m = StatusOf(m)
<1>1. CASE ~Ended(m)
  <2>1. m \in {"absent", "torn", "started"}
    BY <1>1 DEF Ended
  <2> QED
    BY <2>1 DEF StatusOf, Statuses, Ended
<1>2. CASE Ended(m) /\ m \in {"completed", "failed", "zero_work", "incomplete"}
  BY <1>2 DEF StatusOf, Statuses, Ended
<1>3. CASE Ended(m) /\ m \in {"idle_timeout", "hard_ceiling"}
  BY <1>3 DEF StatusOf, Statuses, Ended
<1>4. CASE Ended(m) /\ m \in {"consecutive_errors", "permission_deadlock"}
  BY <1>4 DEF StatusOf, Statuses, Ended
<1>5. CASE /\ Ended(m) /\ m \notin {"completed", "failed", "zero_work", "incomplete"}
           /\ m \notin {"idle_timeout", "hard_ceiling"} /\ m \notin {"consecutive_errors", "permission_deadlock"}
  BY <1>5 DEF StatusOf, Statuses
<1> QED
  BY <1>1, <1>2, <1>3, <1>4, <1>5, Zenon

\* A manifest with an end is one of a run whose client is gone, judged by what was
\* filed then.
LEMMA EndsAreJudged ==
  ASSUME IInv, Ended(manifest)
  PROVE  /\ stage \in {"event", "reported", "lost"} /\ manifest = Classification
         /\ client # "running"
         /\ StatusOf(manifest) \in {"zero_work", "incomplete", "completed"} =>
              ~Failed /\ (reading /\ ~cutShort => filed = printed)
         /\ StatusOf(manifest) = "zero_work" => zeroWork
<1>1. stage \in {"event", "reported", "lost"} /\ manifest = Classification
  BY DEF IInv, Written, Ended, Unfinished
<1>2. client # "running"
  BY <1>1 DEF IInv, Over
<1>3. ASSUME StatusOf(manifest) \in {"zero_work", "incomplete", "completed"}
      PROVE  kill = "none" /\ Outcome = manifest /\ manifest \in {"zero_work", "incomplete", "completed"}
  <2>1. manifest = StatusOf(manifest)
    BY <1>3, EndsShow
  <2>2. manifest \in Outcomes
    BY <1>3, <2>1 DEF Outcomes
  <2>3. ASSUME kill # "none" PROVE FALSE
    <3>1. kill \in Reasons
      BY <2>3 DEF IInv, TypeOK, SupTypeOK
    <3>2. manifest = kill
      BY <1>1, <2>3 DEF Classification
    <3> QED
      BY <2>2, <3>1, <3>2, ReasonsAreOwn
  <2> QED
    BY <1>1, <1>3, <2>1, <2>3 DEF Classification
<1>4. StatusOf(manifest) \in {"zero_work", "incomplete", "completed"} => ~Failed
  BY <1>3 DEF Outcome
<1>5. StatusOf(manifest) = "zero_work" => zeroWork
  <2> SUFFICES ASSUME StatusOf(manifest) = "zero_work" PROVE zeroWork
    OBVIOUS
  <2>1. manifest = "zero_work"
    BY EndsShow
  <2> QED
    BY <1>3, <2>1 DEF Outcome
<1> QED
  BY <1>1, <1>2, <1>4, <1>5 DEF IInv, Read

\* What a step of the run leaves alone.
LEMMA RunKeeps ==
  ASSUME IInv, [Next]_vars
  PROVE  /\ script' = script
         /\ filed' \in Nat /\ filed \in Nat /\ filed' >= filed
         /\ reading' => reading
         /\ client # "running" => printed' = printed
         /\ Ended(manifest) => UNCHANGED <<manifest, cutShort>>
<1> USE DEF stream, verdict, report, To
<1>0. Len(script) \in Nat /\ filed \in Nat /\ printed \in Nat
  BY ScriptsAssumption DEF IInv, TypeOK
<1>1. Ended(manifest) => stage \in {"event", "reported", "lost"}
  BY EndsAreJudged
<1>2. CASE Supervised(SupNext) \/ CloseIssue \/ Judge \/ PostFailure \/ PostZeroWork \/ PostIncomplete \/ ProbeIssue
           \/ EmitEvent
  BY <1>0, <1>2 DEF Supervised, CloseIssue, Judge, PostFailure, PostZeroWork, PostIncomplete, Post, ProbeIssue,
              EmitEvent
<1>3. CASE PrintLine \/ FileLine \/ ReaderStops
  BY <1>0, <1>3 DEF PrintLine, FileLine, ReaderStops
<1>4. CASE JoinReader \/ JoinTimesOut
  BY <1>0, <1>1, <1>4 DEF JoinReader, JoinTimesOut, ReadTools
<1>5. CASE BeginManifest \/ EndManifest
  BY <1>0, <1>1, <1>5 DEF BeginManifest, EndManifest
<1>6. CASE Restart
  BY <1>0, <1>6 DEF Restart
<1>7. CASE UNCHANGED vars
  BY <1>0, <1>7 DEF vars
<1> QED
  BY <1>2, <1>3, <1>4, <1>5, <1>6, <1>7 DEF Next, RunStep, CompletionStep

------------------------------------------------------------------------------

\* Views keep their types.
LEMMA ViewTypeStep ==
  ASSUME IInv, ViewTypeOK, [ViewNext]_viewVars
  PROVE  ViewTypeOK'
<1> USE ViewsAssumption DEF ViewTypeOK, Ages, Idle, views
<1>0. filed \in Nat
  BY ScriptsAssumption DEF IInv, TypeOK
<1>1. CASE RunGoesOn \/ RunRestarts
  <2>1. "running" \in Statuses
    BY DEF Statuses
  <2>2. NoEntry \in [age : Ages, status : Statuses, lines : Nat]
    BY <2>1 DEF NoEntry
  <2>3. CASE RunGoesOn
    BY <2>3 DEF RunGoesOn
  <2>4. CASE RunRestarts
    BY <2>1, <2>2, <2>4 DEF RunRestarts
  <2> QED
    BY <1>1, <2>3, <2>4
<1>2. CASE \E r \in Requests : Look(r)
  <2> PICK r \in Requests : Look(r)
    BY <1>2
  <2>1. [Idle EXCEPT !.at = "manifest"] \in [at : {"idle", "manifest", "logs"}, age : Ages, status : Statuses]
    BY DEF Statuses
  <2>2. request' \in [Requests -> [at : {"idle", "manifest", "logs"}, age : Ages, status : Statuses]]
    BY <2>1 DEF Look
  <2> QED
    BY <2>2 DEF Look
<1>3. CASE \E r \in Requests : ReadManifest(r)
  <2> PICK r \in Requests : ReadManifest(r)
    BY <1>3
  <2>1. StatusOf(manifest) \in Statuses
    BY EndsShow
  <2>2. request[r] \in [at : {"idle", "manifest", "logs"}, age : Ages, status : Statuses]
    OBVIOUS
  <2>3. [request[r] EXCEPT !.at = "logs", !.status = StatusOf(manifest)]
          \in [at : {"idle", "manifest", "logs"}, age : Ages, status : Statuses]
    BY <2>1, <2>2
  <2>4. request' = [request EXCEPT ![r] = [request[r] EXCEPT !.at = "logs", !.status = StatusOf(manifest)]]
    BY DEF ReadManifest
  <2>5. request' \in [Requests -> [at : {"idle", "manifest", "logs"}, age : Ages, status : Statuses]]
    BY <2>3, <2>4
  <2> QED
    BY <2>5 DEF ReadManifest
<1>4. CASE \E r \in Requests : StoreNarrative(r)
  <2> PICK r \in Requests : StoreNarrative(r)
    BY <1>4
  <2>1. entry' \in [age : Ages, status : Statuses, lines : Nat]
    BY <1>0 DEF StoreNarrative, Store
  <2>2. "running" \in Statuses
    BY DEF Statuses
  <2> QED
    BY <2>1, <2>2 DEF StoreNarrative, Store
<1>5. CASE Tick
  BY <1>5 DEF Tick, Older, Statuses
<1>6. CASE UNCHANGED viewVars
  BY <1>6 DEF viewVars
<1> QED
  BY <1>1, <1>2, <1>3, <1>4, <1>5, <1>6 DEF ViewNext, ViewStep

\* What has been read of the manifest, and when, stays as true as it was.
LEMMA SeenStep ==
  ASSUME IInv, VInv, [ViewNext]_viewVars
  PROVE  Seen' /\ Early'
<1> USE ViewsAssumption DEF VInv, ViewTypeOK, Seen, Early, Ages, Idle, views
<1>1. CASE RunGoesOn
  <2>1. Ended(manifest) => manifest' = manifest
    BY <1>1, ViewStepsAreRunSteps, RunKeeps
  <2> QED
    BY <1>1, <2>1 DEF RunGoesOn
<1>2. CASE RunRestarts
  <2>1. manifest' = manifest
    BY <1>2 DEF RunRestarts, Restart, report
  <2> QED
    BY <1>2, <2>1 DEF RunRestarts, NoEntry
<1>3. CASE \E r \in Requests : Look(r)
  BY <1>3 DEF Look, vars, report
<1>4. CASE \E r \in Requests : ReadManifest(r)
  BY <1>4, EndsShow DEF ReadManifest, vars, report
<1>5. CASE \E r \in Requests : StoreNarrative(r)
  BY <1>5 DEF StoreNarrative, Store, vars, report
<1>6. CASE Tick
  <2>1. manifest' = manifest
    BY <1>6 DEF Tick, vars, report
  <2>2. \A a, b \in 0..TTL : a >= b => Older(a) >= Older(b) /\ Older(a) >= a
    BY DEF Older
  <2>3. Seen'
    BY <1>6, <2>1 DEF Tick
  <2>4. ~Ended(manifest) => endAge' = 0
    BY <1>6 DEF Tick
  <2>5. endAge' = Older(endAge) \/ endAge' = endAge
    BY <1>6 DEF Tick
  <2>6. endAge' <= Older(endAge)
    BY <2>5, <2>2
  <2>7. ASSUME NEW r \in Requests, request'[r].at = "logs", request'[r].status = "running"
        PROVE  request'[r].age >= endAge'
    <3>1. request[r].at = "logs" /\ request[r].status = "running" /\ request'[r].age = Older(request[r].age)
      BY <1>6, <2>7 DEF Tick
    <3>2. request[r].age \in 0..TTL /\ endAge \in 0..TTL /\ request[r].age >= endAge
      BY <3>1
    <3>3. Older(request[r].age) >= Older(endAge) /\ Older(request[r].age) >= request[r].age
      BY <3>2, <2>2
    <3>4. Older(request[r].age) >= endAge
      BY <3>2, <3>3 DEF Older
    <3> QED
      BY <3>1, <3>3, <3>4, <2>5
  <2>8. ASSUME entry.status = "running" PROVE entry'.age >= endAge'
    <3>1. entry'.age = Older(entry.age)
      BY <1>6 DEF Tick
    <3>2. entry.age \in 0..TTL /\ endAge \in 0..TTL /\ entry.age >= endAge
      BY <2>8
    <3>3. Older(entry.age) >= Older(endAge) /\ Older(entry.age) >= entry.age
      BY <3>2, <2>2
    <3>4. Older(entry.age) >= endAge
      BY <3>2, <3>3 DEF Older
    <3> QED
      BY <3>1, <3>3, <3>4, <2>5
  <2>9. entry'.status = entry.status
    BY <1>6 DEF Tick
  <2> QED
    BY <2>1, <2>3, <2>4, <2>7, <2>8, <2>9
<1>7. CASE UNCHANGED viewVars
  BY <1>7 DEF viewVars, vars, report
<1> QED
  BY <1>1, <1>2, <1>3, <1>4, <1>5, <1>6, <1>7 DEF ViewNext, ViewStep

\* What is stored is what the run came to.
LEMMA StoredStep ==
  ASSUME IInv, VInv, [ViewNext]_viewVars
  PROVE  Stored'
<1> USE DEF VInv, ViewTypeOK, Stored
<1>0. /\ filed' \in Nat /\ filed \in Nat /\ filed' >= filed
      /\ reading' => reading
      /\ client # "running" => printed' = printed
      /\ Ended(manifest) => UNCHANGED <<manifest, cutShort>>
  BY ViewStepsAreRunSteps, RunKeeps
<1>1. Ended(manifest) => client # "running"
  BY EndsAreJudged
<1>2. CASE UNCHANGED entry
  <2>1. entry.lines <= filed'
    BY <1>0
  <2>2. entry.status # "running" => Ended(manifest) /\ UNCHANGED <<manifest, cutShort, printed>>
    BY <1>0, <1>1
  <2> QED
    BY <1>0, <1>2, <2>1, <2>2
<1>3. CASE RunRestarts
  BY <1>0, <1>3 DEF RunRestarts, NoEntry
<1>4. CASE \E r \in Requests : StoreNarrative(r)
  <2> PICK r \in Requests : StoreNarrative(r)
    BY <1>4
  <2>1. /\ entry' = [age |-> request[r].age, status |-> request[r].status, lines |-> filed]
        /\ request[r].at = "logs" /\ UNCHANGED <<manifest, filed, printed, reading, cutShort>>
    BY DEF StoreNarrative, Store, vars, stream, verdict, report
  <2>2. request[r].status # "running" => Ended(manifest) /\ request[r].status = StatusOf(manifest)
    BY <2>1 DEF Seen
  <2>3. request[r].status \in {"zero_work", "incomplete", "completed"} /\ reading /\ ~cutShort => filed = printed
    BY <2>2, EndsAreJudged
  <2> QED
    BY <1>0, <2>1, <2>2, <2>3
<1>5. CASE Tick
  BY <1>0, <1>5 DEF Tick, vars, stream, verdict, report
<1>6. RunGoesOn \/ (\E r \in Requests : Look(r) \/ ReadManifest(r)) \/ UNCHANGED viewVars => UNCHANGED entry
  BY DEF RunGoesOn, Look, ReadManifest, viewVars, views
<1> QED
  BY <1>2, <1>3, <1>4, <1>5, <1>6 DEF ViewNext, ViewStep

------------------------------------------------------------------------------

\* Nothing has been seen of a run that has just been dispatched.
LEMMA ViewInitHolds == ViewInit => VInv
<1> SUFFICES ASSUME ViewInit PROVE VInv
  OBVIOUS
<1>1. manifest \in Unfinished /\ filed = 0
  BY DEF ViewInit, Init, Unfinished
<1>2. ~Ended(manifest)
  BY <1>1 DEF Ended, Unfinished
<1> QED
  BY <1>1, <1>2, ViewsAssumption
    DEF ViewInit, VInv, ViewTypeOK, Ages, Statuses, Idle, NoEntry, Seen, Early, Stored

\* Every step keeps what has been seen true.
LEMMA ViewInductive == IInv /\ VInv /\ [ViewNext]_viewVars => VInv'
  BY ViewTypeStep, SeenStep, StoredStep DEF VInv

\* The invariants of the run and of its views hold of every behaviour.
THEOREM ViewInvariance == ViewSpec => [](IInv /\ VInv)
  BY RunInvariance, ViewInitHolds, ViewInductive, PTL DEF ViewSpec

\* Every request, the cache's entry and the ages keep their types.
THEOREM ViewsTypeCorrect == ViewSpec => []ViewTypeOK
<1>1. VInv => ViewTypeOK
  BY DEF VInv
<1> QED
  BY <1>1, ViewInvariance, PTL

\* A time to live after a run's end is in its manifest, the cache serves no
\* narrative that says the run goes on.
THEOREM ViewsCatchUp == ViewSpec => []ViewCatchesUp
<1>1. VInv => ViewCatchesUp
  BY ViewsAssumption DEF VInv, ViewTypeOK, Ages, Early, Stored, ViewCatchesUp, Fresh
<1> QED
  BY <1>1, ViewInvariance, PTL

\* A narrative that shows an end shows the run's, and everything it printed.
THEOREM EndedViewsAreTrue == ViewSpec => []EndedViewIsTrue
<1>1. IInv /\ VInv => EndedViewIsTrue
  BY EndsAreJudged DEF VInv, Stored, EndedViewIsTrue
<1> QED
  BY <1>1, ViewInvariance, PTL

\* A narrative of a zero-work run lists no execution tool.
THEOREM ZeroWorkViewsShowNoWork == ViewSpec => []ZeroWorkViewShowsNoWork
<1>1. IInv /\ VInv => ZeroWorkViewShowsNoWork
  <2> SUFFICES ASSUME IInv, VInv, entry.status = "zero_work", ~cutShort,
                      NEW i \in 1..entry.lines, Listed(script[i])
               PROVE  script[i].token # "execution"
    BY DEF ZeroWorkViewShowsNoWork
  <2>1. PlanningOnly(Filed)
    BY EndsAreJudged DEF VInv, Stored, IInv, Read
  <2>2. script \in Seq(Line) /\ filed \in Nat /\ filed <= Len(script) /\ entry.lines \in Nat /\ entry.lines <= filed
    BY ScriptsAssumption DEF IInv, TypeOK, VInv, ViewTypeOK, Stored
  <2>3. i \in DOMAIN script /\ i \in DOMAIN Filed /\ Filed[i] = script[i]
    BY <2>2 DEF Filed
  <2>4. script[i] \in Line
    BY <2>2, <2>3
  <2>5. CASE script[i].glyph = "none"
    BY <2>4, <2>5 DEF Line
  <2>6. CASE script[i].glyph # "none"
    <3>1. script[i].token \in {Filed[j].token : j \in {m \in DOMAIN Filed : Filed[m].glyph # "none"}}
      BY <2>3, <2>6
    <3> QED
      BY <2>1, <3>1 DEF PlanningOnly, ToolsOf
  <2> QED
    BY <2>5, <2>6
<1> QED
  BY <1>1, ViewInvariance, PTL

\* The timeline of what is in the .stderr file is faithful to it at every moment of
\* the run, half printed or cut short as it may be.
THEOREM TimelinesAreFaithful == ViewSpec => []TimelineIsFaithful
<1>1. TextsAreFaithful
  BY ViewsAssumption, TimelineOfText DEF TextsAreFaithful
<1>2. IInv => Faithful(Timeline(Events(Filed)), Events(Filed))
  <2> SUFFICES ASSUME IInv PROVE Filed \in Seq(Line)
    BY TimelineOfText
  <2>1. script \in Seq(Line) /\ filed \in 0..Len(script)
    BY ScriptsAssumption DEF IInv, TypeOK
  <2> QED
    BY <2>1 DEF Filed
<1>3. IInv => TimelineIsFaithful
  BY <1>1, <1>2 DEF TimelineIsFaithful
<1> QED
  BY <1>3, ViewInvariance, PTL
==============================================================================
