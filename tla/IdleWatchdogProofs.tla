-------------------------- MODULE IdleWatchdogProofs --------------------------
(***************************************************************************)
(* Safety of IdleWatchdog for any times, and its steps as steps of         *)
(* Supervisor.                                                             *)
(***************************************************************************)
EXTENDS IdleWatchdog, TLAPS

\* A line is printed on the stream: it is noted, or ends the reader.
PrintedLine(s) == ReaderStops(s) \/ \E isError \in BOOLEAN : RecordLine(s, isError)

\* When each wait ends at the latest, and that time does not pass it.
Deadlines ==
  /\ wd = "new" => now = 0
  /\ wd \in Waiting => now <= wake
  /\ wd = "poll" => now <= LastPoll
  /\ wd = "sleep" => wake <= LastPoll
  /\ wd = "abort" => wake <= LastPoll + AbortTimeout
  /\ wd = "grace" => wake <= LastPoll + AbortTimeout + TermGrace
  /\ wd = "fallback" => wake <= LastPoll + AbortTimeout + FallbackWait
  /\ faults # Faults => wd \in {"fallback", "done"}
  /\ wd = "fallback" => faults # Faults
  /\ wd = "done" => client # "running"

\* The poll before the present wait was at its end less Poll.  What the log has
\* past the offset was written after it, and the growth it saw was at most one
\* poll old.
LastPolls ==
  /\ wd = "sleep" => wake <= now + Poll
  /\ lastWrite <= now /\ lastLine <= now
  /\ \A s \in Streams : printed[s] # Never => printed[s] <= lastLine
  /\ ~LogVisible => unread = "none"
  /\ LogVisible /\ unread = "none" => lastWrite <= lastGrowth
  /\ LogVisible => lastGrowth <= lastWrite + Poll
  /\ unread # "none" /\ wd = "sleep" => wake <= lastWrite + Poll
  /\ unread # "none" /\ wd = "poll" /\ client = "running" => now <= lastWrite + Poll

\* When the next poll is due, at the end of a sleep or now.
NextPoll == IF wd = "sleep" THEN wake ELSE now

Alive == wd \in Watching /\ client = "running"

\* The poll before did not find the run silent.
NotSilent ==
  Alive =>
    \/ NextPoll < lastLine + Idle + Poll
    \/ LogVisible /\ NextPoll < lastGrowth + Idle + Poll

\* An ask that is the last of the log is past the offset, and then younger than
\* the poll before, or on record, and then not older than the grace.
AskOnRecord ==
  /\ latest # Never => asked[latest] \in Nat
  /\ Alive /\ LogVisible /\ latest # Never =>
       \/ unread = "ask" /\ NextPoll <= asked[latest] + Poll
       \/ /\ unread \in {"none", "quiet"} /\ askTime \in Nat
          /\ askTime <= asked[latest] + Poll
          /\ NextPoll < askTime + AskGrace + Poll

\* There is no reason to kill a run that is still watched.
NoReason == wd \in Watching \cup {"new"} => reason = "none"

IInv ==
  /\ WdTypeOK
  /\ Deadlines
  /\ LastPolls
  /\ NotSilent
  /\ AskOnRecord
  /\ NoReason

------------------------------------------------------------------------------

\* The times of the configuration are numbers.
LEMMA TimesAreNumbers ==
  /\ Poll \in Nat /\ Idle \in Nat /\ Ceiling \in Nat /\ FallbackWait \in Nat /\ MaxErrors \in Nat /\ ErrorGrace \in Nat
  /\ AskGrace \in Nat /\ TermGrace \in Nat /\ AbortTimeout \in Nat
  /\ Poll > 0 /\ MaxErrors > 0
  BY TimesAssumption DEF Times, FallbackWait

\* Every variable keeps its type.
LEMMA TypeStep ==
  ASSUME WdTypeOK, [WdNext]_wdVars
  PROVE  WdTypeOK'
<1> USE TimesAreNumbers, LogAssumption
        DEF WdTypeOK, Sessions, Waiting, process, stream, monitors, history, log
<1>1. CASE \E s \in Streams : PrintedLine(s)
  BY <1>1 DEF PrintedLine, ReaderStops, RecordLine, CountLine
<1>2. CASE LogLine \/ \E s \in Sessions : LogCreation(s)
  BY <1>2 DEF LogLine, LogCreation, Append
<1>3. CASE \E a \in Asks : LogAsk(a) \/ LogReply(a)
  BY <1>3 DEF LogAsk, LogReply, Append
<1>4. CASE (\E status \in {"zero", "nonzero"} : ClientExits(status)) \/ ChildStarts \/ ChildEnds
  BY <1>4 DEF ClientExits, ChildStarts, ChildEnds
<1>5. CASE StartWatch \/ NoticeExit \/ WakeUp \/ ClientTerminated
  BY <1>5 DEF StartWatch, NoticeExit, WakeUp, ClientTerminated
<1>6. CASE PollRun
  <2>1. reason' \in Reasons \cup {"none"}
    BY <1>6 DEF PollRun, Verdict, Reasons
  <2>2. wd' \in {"sleep", "abort"} /\ wake' \in Nat
    BY <1>6 DEF PollRun, AbortRequest
  <2>3. /\ unread' \in {"none", "quiet", "ask", "reply"}
        /\ created' \in Sessions \cup {Never} /\ bound' \in Sessions \cup {Never}
        /\ lastGrowth' \in Nat /\ askTime' \in Nat \cup {Never}
    BY <1>6 DEF PollRun, ReadLog, ReadGrowth, ReadPermissions
  <2>4. UNCHANGED <<now, process, stream, aborted, faults, history>>
    BY <1>6 DEF PollRun, ReadLog
  <2> QED
    BY <2>1, <2>2, <2>3, <2>4
<1>7. CASE EndAbort
  <2>1. aborted' \subseteq Sessions
    BY <1>7 DEF EndAbort, RequestAnswered
  <2>2. wake' \in Nat
    BY <1>7 DEF EndAbort
  <2>3. child' \in BOOLEAN
    <3>1. child' = child \/ child' = FALSE
      BY <1>7 DEF EndAbort
    <3> QED
      BY <3>1
  <2>4. wd' = "grace" /\ UNCHANGED <<now, client, stream, log, monitors, reason, faults>>
    BY <1>7 DEF EndAbort
  <2> QED
    BY <2>1, <2>2, <2>3, <2>4
<1>8. CASE KillGroup \/ EndFallback
  BY <1>8 DEF KillGroup, EndFallback, FallbackKill
<1>9. CASE WatchdogRaises
  <2>1. aborted' \subseteq Sessions
    BY <1>9 DEF WatchdogRaises, RequestAnswered
  <2>2. faults' \in 0..Faults /\ wake' \in Nat
    BY <1>9 DEF WatchdogRaises
  <2> QED
    BY <1>9, <2>1, <2>2 DEF WatchdogRaises
<1>10. CASE Tick
  BY <1>10 DEF Tick
<1>11. CASE UNCHANGED wdVars
  BY <1>11 DEF wdVars
<1> QED
  BY <1>1, <1>2, <1>3, <1>4, <1>5, <1>6, <1>7, <1>8, <1>9, <1>10, <1>11 DEF WdNext, RunStep, PrintedLine, WatchStep

------------------------------------------------------------------------------

\* A poll goes back to sleep only below the ceiling, and without a reason to
\* kill; otherwise the abort request is next.
LEMMA PollOutcome ==
  ASSUME WdTypeOK, PollRun
  PROVE  \/ /\ wd' = "sleep" /\ wake' = now + Poll /\ now < Ceiling
            /\ ~Deadlocked /\ ~Silent /\ reason' = "none"
         \/ /\ wd' = "abort" /\ reason' \in Reasons
            /\ wake' \in Nat /\ now <= wake' /\ wake' <= now + AbortTimeout
<1> USE TimesAreNumbers DEF WdTypeOK
<1>1. CASE reason' = "none"
  <2>1. ~TooOld /\ ~Deadlocked /\ ~Silent
    BY <1>1 DEF PollRun, Verdict
  <2> QED
    BY <1>1, <2>1 DEF PollRun, TooOld, Since
<1>2. CASE reason' # "none"
  <2>1. reason' \in Reasons
    BY <1>2 DEF PollRun, Verdict, Reasons
  <2> QED
    BY <1>2, <2>1 DEF PollRun, AbortRequest
<1> QED
  BY <1>1, <1>2

\* No wait is passed, and each is set within its bound.
LEMMA DeadlinesStep ==
  ASSUME WdTypeOK, Deadlines, [WdNext]_wdVars
  PROVE  Deadlines'
<1> USE TimesAreNumbers, LogAssumption
        DEF WdTypeOK, Deadlines, LastPoll, Waiting, process, stream, monitors, history, log
<1>1. CASE (\E s \in Streams : PrintedLine(s)) \/ LogLine
  BY <1>1 DEF PrintedLine, ReaderStops, RecordLine, CountLine, LogLine, Append
<1>2. CASE (\E s \in Sessions : LogCreation(s)) \/ (\E a \in Asks : LogAsk(a) \/ LogReply(a))
  BY <1>2 DEF LogCreation, LogAsk, LogReply, Append
<1>3. CASE (\E status \in {"zero", "nonzero"} : ClientExits(status)) \/ ChildStarts \/ ChildEnds
  BY <1>3 DEF ClientExits, ChildStarts, ChildEnds
<1>4. CASE StartWatch \/ NoticeExit \/ WakeUp
  BY <1>4 DEF StartWatch, NoticeExit, WakeUp
<1>5. CASE PollRun
  <2>1. wd = "poll" /\ client = "running" /\ UNCHANGED <<now, client, faults>>
    BY <1>5 DEF PollRun
  <2> QED
    BY <1>5, <2>1, PollOutcome
<1>6. CASE EndAbort
  BY <1>6 DEF EndAbort
<1>7. CASE ClientTerminated \/ KillGroup
  BY <1>7 DEF ClientTerminated, KillGroup
<1>8. CASE WatchdogRaises
  <2>1. wd \in {"poll", "abort"} /\ wd' = "fallback" /\ wake' = now + FallbackWait /\ faults' # Faults
    BY <1>8 DEF WatchdogRaises
  <2>2. now <= LastPoll + AbortTimeout
    BY <2>1
  <2> QED
    BY <1>8, <2>1, <2>2 DEF WatchdogRaises
<1>9. CASE EndFallback
  BY <1>9 DEF EndFallback, FallbackKill
<1>10. CASE Tick
  BY <1>10 DEF Tick
<1>11. CASE UNCHANGED wdVars
  BY <1>11 DEF wdVars
<1> QED
  BY <1>1, <1>2, <1>3, <1>4, <1>5, <1>6, <1>7, <1>8, <1>9, <1>10, <1>11 DEF WdNext, RunStep, PrintedLine, WatchStep

\* What the polls have seen of the log stays at most one poll behind it.
LEMMA LastPollsStep ==
  ASSUME WdTypeOK, Deadlines, LastPolls, [WdNext]_wdVars
  PROVE  LastPolls'
<1> USE TimesAreNumbers, LogAssumption
        DEF WdTypeOK, Deadlines, LastPolls, Waiting, process, stream, monitors, history, log
<1>1. CASE \E s \in Streams : PrintedLine(s)
  <2> SUFFICES ASSUME NEW s \in Streams, PrintedLine(s) PROVE LastPolls'
    BY <1>1
  <2>1. /\ UNCHANGED <<now, wd, wake, client, lastWrite, unread, lastGrowth>>
        /\ lastLine' \in {lastLine, now}
        /\ \/ lastLine' = now /\ printed' = [printed EXCEPT ![s] = now]
           \/ lastLine' = lastLine /\ printed' = [printed EXCEPT ![s] = Never]
    BY DEF PrintedLine, ReaderStops, RecordLine, CountLine
  <2>2. \A r \in Streams : printed'[r] # Never => printed'[r] <= lastLine'
    <3> SUFFICES ASSUME NEW r \in Streams, printed'[r] # Never PROVE printed'[r] <= lastLine'
      OBVIOUS
    <3>1. CASE r = s
      BY <2>1, <3>1
    <3>2. CASE r # s
      <4>1. printed'[r] = printed[r] /\ printed[r] \in Nat /\ printed[r] <= now /\ printed[r] <= lastLine
        BY <2>1, <3>2
      <4> QED
        BY <2>1, <4>1
    <3> QED
      BY <3>1, <3>2
  <2>3. lastLine' <= now
    BY <2>1
  <2> QED
    BY <2>1, <2>2, <2>3
<1>2. CASE LogLine \/ \E s \in Sessions : LogCreation(s)
  BY <1>2 DEF LogLine, LogCreation, Append
<1>3. CASE \E a \in Asks : LogAsk(a) \/ LogReply(a)
  BY <1>3 DEF LogAsk, LogReply, Append
<1>4. CASE (\E status \in {"zero", "nonzero"} : ClientExits(status)) \/ ChildStarts \/ ChildEnds
  BY <1>4 DEF ClientExits, ChildStarts, ChildEnds
<1>5. CASE StartWatch
  BY <1>5 DEF StartWatch
<1>6. CASE NoticeExit \/ WakeUp
  BY <1>6 DEF NoticeExit, WakeUp
<1>7. CASE PollRun
  <2>1. /\ wd = "poll" /\ client = "running" /\ UNCHANGED <<now, lastLine, printed, lastWrite>>
        /\ lastGrowth' = IF LogVisible /\ unread # "none" THEN now ELSE lastGrowth
        /\ unread' = IF LogVisible THEN "none" ELSE unread
    BY <1>7 DEF PollRun, ReadLog, ReadGrowth, ReadPermissions
  <2>2. (wd' = "sleep" /\ wake' = now + Poll) \/ wd' = "abort"
    BY <1>7, PollOutcome
  <2>3. now <= lastWrite + Poll \/ unread = "none"
    BY <2>1
  <2>4. lastGrowth' <= lastWrite + Poll \/ ~LogVisible
    BY <2>1, <2>3
  <2>5. LogVisible => lastWrite <= lastGrowth'
    BY <2>1
  <2>6. unread' = "none"
    BY <2>1
  <2> QED
    BY <2>1, <2>2, <2>4, <2>5, <2>6
<1>8. CASE EndAbort \/ ClientTerminated \/ KillGroup \/ WatchdogRaises \/ EndFallback
  BY <1>8 DEF EndAbort, ClientTerminated, KillGroup, WatchdogRaises, EndFallback
<1>9. CASE Tick
  BY <1>9 DEF Tick
<1>10. CASE UNCHANGED wdVars
  BY <1>10 DEF wdVars
<1> QED
  BY <1>1, <1>2, <1>3, <1>4, <1>5, <1>6, <1>7, <1>8, <1>9, <1>10 DEF WdNext, RunStep, PrintedLine, WatchStep

\* A time that is not yet so long ago.
LEMMA NotSince ==
  ASSUME now \in Nat, NEW t \in Nat, NEW d \in Nat, ~(Since(t) >= d)
  PROVE  now < t + d
  BY DEF Since

\* A run that goes on being watched was not silent at the poll before.
LEMMA NotSilentStep ==
  ASSUME WdTypeOK, Deadlines, LastPolls, NotSilent, [WdNext]_wdVars
  PROVE  NotSilent'
<1> USE TimesAreNumbers
        DEF WdTypeOK, NotSilent, NextPoll, Alive, Watching, process, stream, monitors, history, log
<1>1. CASE \E s \in Streams : PrintedLine(s)
  BY <1>1 DEF PrintedLine, ReaderStops, RecordLine, CountLine, LastPolls
<1>2. CASE LogLine \/ \E s \in Sessions : LogCreation(s)
  BY <1>2 DEF LogLine, LogCreation, Append
<1>3. CASE \E a \in Asks : LogAsk(a) \/ LogReply(a)
  BY <1>3 DEF LogAsk, LogReply, Append
<1>4. CASE (\E status \in {"zero", "nonzero"} : ClientExits(status)) \/ ChildStarts \/ ChildEnds
  BY <1>4 DEF ClientExits, ChildStarts, ChildEnds
<1>5. CASE StartWatch
  BY <1>5 DEF StartWatch, Deadlines
<1>6. CASE NoticeExit \/ WakeUp
  BY <1>6 DEF NoticeExit, WakeUp, Deadlines, Waiting
<1>7. CASE PollRun
  <2>1. UNCHANGED <<now, lastLine>>
    BY <1>7 DEF PollRun
  <2>2. lastGrowth' \in Nat
    BY TypeStep
  <2>3. wd' = "abort" \/ (wd' = "sleep" /\ wake' = now + Poll /\ ~Silent)
    BY <1>7, PollOutcome
  <2>4. ASSUME ~Silent
        PROVE  now < lastLine + Idle \/ (LogVisible /\ now < lastGrowth' + Idle)
    <3>1. now \in Nat /\ lastLine \in Nat /\ Idle \in Nat
      OBVIOUS
    <3>2. ~(Since(lastLine) >= Idle) \/ (LogVisible /\ ~(Since(lastGrowth') >= Idle))
      BY <2>4 DEF Silent
    <3> QED
      BY ONLY <2>2, <3>1, <3>2, NotSince
  <2>5. wd' = "sleep" => \/ wake' < lastLine + Idle + Poll
                         \/ LogVisible /\ wake' < lastGrowth' + Idle + Poll
    <3>1. now \in Nat /\ lastLine \in Nat /\ Idle \in Nat /\ Poll \in Nat
      OBVIOUS
    <3>2. CASE wd' = "sleep" /\ wake' = now + Poll /\ now < lastLine + Idle
      BY ONLY <3>1, <3>2
    <3>3. CASE wd' = "sleep" /\ wake' = now + Poll /\ LogVisible /\ now < lastGrowth' + Idle
      <4>1. \A g \in Nat : now < g + Idle => now + Poll < g + Idle + Poll
        BY ONLY <3>1
      <4> QED
        BY ONLY <2>2, <3>3, <4>1
    <3> QED
      BY <2>3, <2>4, <3>2, <3>3
  <2> QED
    BY <2>1, <2>3, <2>5
<1>8. CASE EndAbort \/ ClientTerminated \/ KillGroup \/ WatchdogRaises \/ EndFallback
  BY <1>8 DEF EndAbort, ClientTerminated, KillGroup, WatchdogRaises, EndFallback
<1>9. CASE Tick
  BY <1>9 DEF Tick, Waiting
<1>10. CASE UNCHANGED wdVars
  BY <1>10 DEF wdVars
<1> QED
  BY <1>1, <1>2, <1>3, <1>4, <1>5, <1>6, <1>7, <1>8, <1>9, <1>10 DEF WdNext, RunStep, PrintedLine, WatchStep

\* The last ask of the log is on record from the next poll on, and not for longer
\* than the grace.
LEMMA AskOnRecordStep ==
  ASSUME WdTypeOK, Deadlines, LastPolls, AskOnRecord, [WdNext]_wdVars
  PROVE  AskOnRecord'
<1> USE TimesAreNumbers, LogAssumption
        DEF WdTypeOK, AskOnRecord, NextPoll, Alive, Watching, process, stream, monitors, history, log
<1>1. CASE \E s \in Streams : PrintedLine(s)
  BY <1>1 DEF PrintedLine, ReaderStops, RecordLine, CountLine
<1>2. CASE LogLine \/ \E s \in Sessions : LogCreation(s)
  BY <1>2 DEF LogLine, LogCreation, Append
<1>3. CASE \E a \in Asks : LogAsk(a)
  <2> SUFFICES ASSUME NEW a \in Asks, LogAsk(a) PROVE AskOnRecord'
    BY <1>3
  <2>1. /\ latest' = a /\ asked'[a] = now /\ unread' = "ask"
        /\ UNCHANGED <<now, wake, wd, client>>
    BY DEF LogAsk, Append
  <2> QED
    BY <2>1 DEF LastPolls
<1>4. CASE \E a \in Asks : LogReply(a)
  BY <1>4 DEF LogReply, Append
<1>5. CASE (\E status \in {"zero", "nonzero"} : ClientExits(status)) \/ ChildStarts \/ ChildEnds
  BY <1>5 DEF ClientExits, ChildStarts, ChildEnds
<1>6. CASE StartWatch
  BY <1>6 DEF StartWatch
<1>7. CASE NoticeExit \/ WakeUp
  BY <1>7 DEF NoticeExit, WakeUp, Deadlines, Waiting
<1>8. CASE PollRun
  <2>1. /\ wd = "poll" /\ client = "running" /\ UNCHANGED <<now, client, asked, latest>>
        /\ LogVisible => unread' = "none" /\ askTime' = CASE unread = "ask" -> now
                                                           [] unread = "reply" -> Never
                                                           [] OTHER -> askTime
    BY <1>8 DEF PollRun, ReadLog, ReadPermissions
  <2>2. \/ wd' = "sleep" /\ wake' = now + Poll /\ (askTime' # Never => now < askTime' + AskGrace)
        \/ wd' = "abort"
    <3>1. askTime' \in Nat \cup {Never}
      BY TypeStep
    <3>2. wd' = "abort" \/ (wd' = "sleep" /\ wake' = now + Poll /\ ~Deadlocked)
      BY <1>8, PollOutcome
    <3>3. CASE askTime' \in Nat
      <4>1. ~Deadlocked => ~(Since(askTime') >= AskGrace)
        BY <3>3 DEF Deadlocked
      <4>2. now \in Nat /\ AskGrace \in Nat
        OBVIOUS
      <4>3. ~Deadlocked => now < askTime' + AskGrace
        BY ONLY <3>3, <4>1, <4>2, NotSince
      <4> QED
        BY <3>2, <4>3
    <3>4. CASE askTime' = Never
      BY <3>2, <3>4
    <3> QED
      BY <3>1, <3>3, <3>4
  <2> QED
    BY <2>1, <2>2
<1>9. CASE EndAbort \/ ClientTerminated \/ KillGroup \/ WatchdogRaises \/ EndFallback
  BY <1>9 DEF EndAbort, ClientTerminated, KillGroup, WatchdogRaises, EndFallback
<1>10. CASE Tick
  BY <1>10 DEF Tick, Waiting
<1>11. CASE UNCHANGED wdVars
  BY <1>11 DEF wdVars
<1> QED
  BY <1>1, <1>2, <1>3, <1>4, <1>5, <1>6, <1>7, <1>8, <1>9, <1>10, <1>11 DEF WdNext, RunStep, PrintedLine, WatchStep

\* A reason ends the watching.
LEMMA NoReasonStep ==
  ASSUME WdTypeOK, NoReason, [WdNext]_wdVars
  PROVE  NoReason'
<1> USE DEF NoReason, Watching, process, stream, monitors, history, log
<1>1. CASE RunStep
  BY <1>1 DEF RunStep, ReaderStops, RecordLine, CountLine, LogLine, LogAsk, LogReply, LogCreation, Append, ClientExits,
              ChildStarts, ChildEnds
<1>2. CASE PollRun
  BY <1>2, PollOutcome
<1>3. CASE WatchStep /\ ~PollRun
  BY <1>3 DEF WatchStep, StartWatch, NoticeExit, WakeUp, EndAbort, ClientTerminated, KillGroup,
              WatchdogRaises, EndFallback
<1>4. CASE Tick
  BY <1>4 DEF Tick
<1>5. CASE UNCHANGED wdVars
  BY <1>5 DEF wdVars
<1> QED
  BY <1>1, <1>2, <1>3, <1>4, <1>5 DEF WdNext

------------------------------------------------------------------------------
(* The invariant, and what follows from it. *)

\* The invariant holds when the client has just been started.
LEMMA InitHolds == WdInit => IInv
<1> SUFFICES ASSUME WdInit PROVE IInv
  OBVIOUS
<1> USE TimesAreNumbers, LogAssumption DEF WdInit
<1>1. WdTypeOK
  <2>1. faults \in 0..Faults /\ errors \in 0..MaxErrors /\ wd = "new"
    OBVIOUS
  <2>2. asked \in [Asks -> Nat \cup {Never}] /\ aborted \subseteq Sessions
    OBVIOUS
  <2>3. /\ now \in Nat /\ wake \in Nat /\ lastLine \in Nat /\ lastError \in Nat
        /\ lastGrowth \in Nat /\ lastWrite \in Nat
    OBVIOUS
  <2> QED
    BY <2>1, <2>2, <2>3 DEF WdTypeOK
<1>2. Deadlines
  BY DEF Deadlines, Waiting
<1>3. LastPolls
  BY DEF LastPolls
<1>4. NotSilent /\ AskOnRecord /\ NoReason
  BY DEF NotSilent, AskOnRecord, NoReason, Alive, Watching
<1> QED
  BY <1>1, <1>2, <1>3, <1>4 DEF IInv

\* Every step preserves it.
LEMMA Inductive == IInv /\ [WdNext]_wdVars => IInv'
  BY TypeStep, DeadlinesStep, LastPollsStep, NotSilentStep, AskOnRecordStep, NoReasonStep DEF IInv

\* The invariant holds of every behaviour.
THEOREM Invariance == WdSpec => []IInv
  BY InitHolds, Inductive, PTL DEF WdSpec

\* Every variable of the watchdog keeps its type, whatever is printed and logged.
THEOREM TypeCorrect == WdSpec => []WdTypeOK
<1>1. IInv => WdTypeOK
  BY DEF IInv
<1> QED
  BY <1>1, Invariance, PTL

\* IdleWatchdog.run and the wait that replaces it end the client within the
\* ceiling, a poll, the abort request and the grace, and the fallback's wait after
\* an error of the watchdog, whether or not the ceiling is 0.
THEOREM LifetimesAreBounded == WdSpec => []LifetimeBounded
<1>1. IInv => LifetimeBounded
  <2> SUFFICES ASSUME IInv, client = "running" PROVE LifetimeBounded
    BY DEF LifetimeBounded
  <2> USE TimesAreNumbers DEF IInv, WdTypeOK, LastPoll
  <2>1. CASE faults = Faults
    <3>1. now <= LastPoll + AbortTimeout + TermGrace
      BY <2>1 DEF Deadlines, Waiting
    <3> QED
      BY <2>1, <3>1 DEF LifetimeBounded
  <2>2. CASE faults # Faults
    <3>1. wd = "fallback"
      BY <2>2 DEF Deadlines
    <3>2. now <= LastPoll + AbortTimeout + FallbackWait
      BY <3>1 DEF Deadlines, Waiting
    <3>3. now <= LastPoll + AbortTimeout + (FallbackWait + TermGrace)
      BY <3>2
    <3> QED
      BY <2>2, <3>3 DEF LifetimeBounded
  <2> QED
    BY <2>1, <2>2
<1> QED
  BY <1>1, Invariance, PTL

\* A silent run is killed no later than the polls allow.
THEOREM SilenceIsAlwaysNoticed == WdSpec => []SilenceIsNoticed
<1>1. IInv => SilenceIsNoticed
  <2> SUFFICES ASSUME IInv, Alive PROVE SilenceIsNoticed
    BY DEF SilenceIsNoticed, Alive
  <2> USE TimesAreNumbers DEF IInv, WdTypeOK
  <2>1. now <= NextPoll /\ NextPoll \in Nat
    BY DEF NextPoll, Deadlines, Waiting
  <2>2. CASE NextPoll < lastLine + Idle + Poll
    BY <2>1, <2>2 DEF SilenceIsNoticed, Since
  <2>3. CASE LogVisible /\ NextPoll < lastGrowth + Idle + Poll
    <3>1. lastGrowth <= lastWrite + Poll
      BY <2>3 DEF LastPolls
    <3>2. now - lastWrite < Idle + 2 * Poll
      BY <2>1, <2>3, <3>1
    <3> QED
      BY <2>3, <3>2 DEF SilenceIsNoticed, Since
  <2> QED
    BY <2>2, <2>3 DEF NotSilent
<1> QED
  BY <1>1, Invariance, PTL

\* So is a run that waits for a permission nobody gives.
THEOREM AsksAreNoticed == WdSpec => []AskIsNoticed
<1>1. IInv => AskIsNoticed
  <2> SUFFICES ASSUME IInv, Alive, LogVisible, latest # Never
               PROVE  now - asked[latest] < AskGrace + 2 * Poll
    BY DEF AskIsNoticed, Alive, Since
  <2> USE TimesAreNumbers DEF IInv, WdTypeOK
  <2>1. now <= NextPoll /\ NextPoll \in Nat /\ asked[latest] \in Nat
    BY DEF NextPoll, Alive, Deadlines, Waiting, AskOnRecord
  <2>2. CASE NextPoll <= asked[latest] + Poll
    BY <2>1, <2>2
  <2>3. CASE askTime \in Nat /\ askTime <= asked[latest] + Poll /\ NextPoll < askTime + AskGrace + Poll
    BY <2>1, <2>3
  <2> QED
    BY <2>2, <2>3 DEF AskOnRecord
<1> QED
  BY <1>1, Invariance, PTL

\* And none is killed as idle that is known not to be: what the last poll saw of the
\* log is compared with what was really written, and the time of the last line with
\* what each stream has printed whose reader still reads.
THEOREM IdleKillsAreIdle == WdSpec => IdleKillIsIdle
<1>1. IInv /\ [WdNext]_wdVars =>
        [reason # "idle_timeout" /\ reason' = "idle_timeout" =>
           /\ \A s \in Readers : Since(printed[s]) >= Idle
           /\ LogVisible => Since(lastWrite) >= Idle]_wdVars
  <2> SUFFICES ASSUME IInv, WdNext, reason # "idle_timeout", reason' = "idle_timeout"
               PROVE  /\ \A s \in Readers : Since(printed[s]) >= Idle
                      /\ LogVisible => Since(lastWrite) >= Idle
    OBVIOUS
  <2> USE TimesAreNumbers DEF process, stream, monitors, history, log
  <2>1. PollRun
    BY DEF WdNext, RunStep, ReaderStops, RecordLine, CountLine, LogLine, LogAsk, LogReply, LogCreation,
           Append, ClientExits, ChildStarts, ChildEnds, WatchStep, StartWatch, NoticeExit, WakeUp,
           EndAbort, ClientTerminated, KillGroup, WatchdogRaises, EndFallback, Tick
  <2>2. Silent
    BY <2>1 DEF PollRun, Verdict
  <2>3. ASSUME NEW s \in Readers PROVE Since(printed[s]) >= Idle
    <3>1. s \in Streams /\ printed[s] # Never
      BY DEF Readers
    <3>2. printed[s] \in Nat /\ lastLine \in Nat /\ now \in Nat
      BY <3>1 DEF IInv, WdTypeOK
    <3>3. printed[s] <= lastLine
      BY <3>1 DEF IInv, LastPolls
    <3>4. now - lastLine >= Idle
      BY <2>2 DEF Silent, Since
    <3> QED
      BY ONLY <3>2, <3>3, <3>4, TimesAreNumbers DEF Since
  <2>4. ASSUME LogVisible PROVE Since(lastWrite) >= Idle
    <3>1. lastGrowth' = IF unread # "none" THEN now ELSE lastGrowth
      BY <2>1, <2>4 DEF PollRun, ReadLog, ReadGrowth
    <3>2. lastGrowth' \in Nat /\ lastWrite <= lastGrowth'
      BY <2>4, <3>1 DEF IInv, WdTypeOK, LastPolls
    <3>3. \A g \in Nat : lastWrite <= g /\ now - g >= Idle => now - lastWrite >= Idle
      BY DEF IInv, WdTypeOK
    <3> QED
      BY <2>2, <2>4, <3>2, <3>3 DEF Silent, Since
  <2> QED
    BY <2>3, <2>4
<1> QED
  BY <1>1, Invariance, PTL DEF WdSpec, IdleKillIsIdle

------------------------------------------------------------------------------
(* The refinement. *)

\* What happens to the process alone happens in Supervisor.
LEMMA RunStepMaps ==
  ASSUME IInv, RunStep
  PROVE  [S!SupNext]_(S!supVars)
<1> USE DEF process, phase, S!supVars, S!process
<1>1. CASE \E status \in {"zero", "nonzero"} : ClientExits(status)
  BY <1>1 DEF ClientExits, S!SupNext, S!ClientExits
<1>2. CASE ChildStarts
  BY <1>2 DEF ChildStarts, S!SupNext, S!ChildStarts
<1>3. CASE ChildEnds
  BY <1>3 DEF ChildEnds, S!SupNext, S!ChildEnds
<1>4. CASE (\E s \in Streams : PrintedLine(s)) \/ LogLine
  BY <1>4 DEF PrintedLine, ReaderStops, RecordLine, CountLine, LogLine, Append
<1>5. CASE (\E a \in Asks : LogAsk(a) \/ LogReply(a)) \/ \E s \in Sessions : LogCreation(s)
  BY <1>5 DEF LogAsk, LogReply, LogCreation, Append
<1> QED
  BY <1>1, <1>2, <1>3, <1>4, <1>5 DEF RunStep, PrintedLine

\* So does what the watchdog does, and most of it is invisible there.
LEMMA WatchStepMaps ==
  ASSUME IInv, WatchStep
  PROVE  [S!SupNext]_(S!supVars)
<1> USE DEF IInv, process, phase, S!supVars, S!process
<1>1. CASE StartWatch \/ WakeUp
  BY <1>1 DEF StartWatch, WakeUp
<1>2. CASE NoticeExit \/ ClientTerminated
  <2>1. S!FindExited
    BY <1>2 DEF NoticeExit, ClientTerminated, S!FindExited
  <2> QED
    BY <2>1 DEF S!SupNext, S!Conclude
<1>3. CASE PollRun
  <2>1. wd = "poll" /\ client = "running" /\ UNCHANGED <<client, child>> /\ reason = "none"
    BY <1>3 DEF PollRun, NoReason, Watching
  <2>2. CASE wd' = "sleep" /\ reason' = "none"
    BY <2>1, <2>2
  <2>3. CASE wd' = "abort" /\ reason' \in Reasons
    <3>1. S!Decide(reason')
      BY <2>1, <2>3 DEF S!Decide
    <3> QED
      BY <2>3, <3>1 DEF S!SupNext, S!Conclude
  <2> QED
    BY <1>3, <2>2, <2>3, PollOutcome
<1>4. CASE EndAbort
  <2>1. /\ wd = "abort" /\ wd' = "grace" /\ UNCHANGED <<client, reason>>
        /\ child' = child \/ child' = FALSE
    BY <1>4 DEF EndAbort, monitors, stream, log
  <2>2. CASE child' = child
    BY <2>1, <2>2
  <2>3. CASE child /\ child' = FALSE
    <3>1. S!ChildEnds
      BY <2>1, <2>3 DEF S!ChildEnds
    <3> QED
      BY <3>1 DEF S!SupNext
  <2> QED
    BY <2>1, <2>2, <2>3 DEF WdTypeOK
<1>5. CASE KillGroup
  <2>1. S!ForceKill
    BY <1>5 DEF KillGroup, S!ForceKill
  <2> QED
    BY <2>1 DEF S!SupNext, S!Conclude
<1>6. CASE WatchdogRaises
  <2>1. S!LoseTrack
    BY <1>6 DEF WatchdogRaises, S!LoseTrack
  <2> QED
    BY <2>1 DEF S!SupNext
<1>7. CASE EndFallback
  <2>1. S!FindExited \/ S!ForceKill
    BY <1>7 DEF EndFallback, FallbackKill, S!FindExited, S!ForceKill
  <2> QED
    BY <2>1 DEF S!SupNext, S!Conclude
<1> QED
  BY <1>1, <1>2, <1>3, <1>4, <1>5, <1>6, <1>7 DEF WatchStep

\* The watchdog behaves as a Supervisor, step by step: what RunSupervision builds
\* on is what IdleWatchdog does, for any times.  That it concludes is left to TLC.
THEOREM StepsAreSupervised == WdSpec => S!SupInit /\ [][S!SupNext]_(S!supVars)
<1>1. WdInit => S!SupInit
  BY DEF WdInit, S!SupInit, phase
<1>2. IInv /\ [WdNext]_wdVars => [S!SupNext]_(S!supVars)
  <2>1. ASSUME IInv, Tick \/ UNCHANGED wdVars
        PROVE  UNCHANGED S!supVars
    BY <2>1 DEF Tick, wdVars, process, phase, S!supVars, S!process
  <2> QED
    BY <2>1, RunStepMaps, WatchStepMaps DEF WdNext
<1> QED
  BY <1>1, <1>2, Invariance, PTL DEF WdSpec

------------------------------------------------------------------------------
(* What the record of an unanswered ask depends on. *)

\* No two asks wait for a reply at once.
OneAskAtATime ==
  \A a, b \in Asks : asked[a] # Never /\ asked[b] # Never => a = b

\* Then the ask that waits is the log's last permission line, and it is past the
\* offset or on record.
LastAskOnRecord ==
  /\ \A a \in Asks : asked[a] # Never => latest = a
  /\ wd \in Watching /\ latest # Never =>
       \/ unread = "ask"
       \/ unread \in {"none", "quiet"} /\ askTime # Never

\* A reply is to the ask before it.
LEMMA LastAskStep ==
  ASSUME WdTypeOK, OneAskAtATime, OneAskAtATime', LastAskOnRecord, [WdNext]_wdVars
  PROVE  LastAskOnRecord'
<1> USE LogAssumption
    DEF WdTypeOK, OneAskAtATime, LastAskOnRecord, Watching, process, stream, monitors, history, log
<1>1. CASE \E s \in Streams : PrintedLine(s)
  BY <1>1 DEF PrintedLine, ReaderStops, RecordLine, CountLine
<1>2. CASE LogLine \/ \E s \in Sessions : LogCreation(s)
  BY <1>2 DEF LogLine, LogCreation, Append
<1>3. CASE \E a \in Asks : LogAsk(a)
  <2> SUFFICES ASSUME NEW a \in Asks, LogAsk(a) PROVE LastAskOnRecord'
    BY <1>3
  <2>1. /\ latest' = a /\ asked'[a] = now /\ now # Never /\ unread' = "ask"
        /\ UNCHANGED wd
    BY DEF LogAsk, Append
  <2> QED
    BY <2>1
<1>4. CASE \E a \in Asks : LogReply(a)
  <2> SUFFICES ASSUME NEW a \in Asks, LogReply(a) PROVE LastAskOnRecord'
    BY <1>4
  <2>1. latest' = Never /\ asked[a] # Never /\ asked' = [asked EXCEPT ![a] = Never]
    BY DEF LogReply, Append
  <2>2. \A b \in Asks : asked'[b] = Never
    BY <2>1
  <2> QED
    BY <2>1, <2>2
<1>5. CASE (\E status \in {"zero", "nonzero"} : ClientExits(status)) \/ ChildStarts \/ ChildEnds
  BY <1>5 DEF ClientExits, ChildStarts, ChildEnds
<1>6. CASE StartWatch
  BY <1>6 DEF StartWatch
<1>7. CASE NoticeExit \/ WakeUp
  BY <1>7 DEF NoticeExit, WakeUp
<1>8. CASE PollRun
  <2>1. /\ wd = "poll" /\ UNCHANGED <<now, asked, latest>>
        /\ \/ /\ unread' = "none"
              /\ askTime' = CASE unread = "ask" -> now
                             [] unread = "reply" -> Never
                             [] OTHER -> askTime
           \/ UNCHANGED <<unread, askTime>>
    BY <1>8 DEF PollRun, ReadLog, ReadPermissions
  <2> QED
    BY <2>1
<1>9. CASE EndAbort \/ ClientTerminated \/ KillGroup \/ WatchdogRaises \/ EndFallback
  <2>1. wd' \notin Watching /\ UNCHANGED <<asked, latest>>
    BY <1>9 DEF EndAbort, ClientTerminated, KillGroup, WatchdogRaises, EndFallback
  <2> QED
    BY <2>1
<1>10. CASE Tick
  BY <1>10 DEF Tick
<1>11. CASE UNCHANGED wdVars
  BY <1>11 DEF wdVars
<1> QED
  BY <1>1, <1>2, <1>3, <1>4, <1>5, <1>6, <1>7, <1>8, <1>9, <1>10, <1>11 DEF WdNext, RunStep, PrintedLine, WatchStep

\* As long as an ask is replied to before the next one is logged, by this run or any
\* other that writes to the log, an unanswered ask is on record after a poll.
THEOREM AsksOneByOneAreRecorded == WdSpec /\ []OneAskAtATime => []UnansweredIsRecorded
<1>1. WdInit => LastAskOnRecord
  BY DEF WdInit, LastAskOnRecord, Watching
<1>2. WdTypeOK /\ OneAskAtATime /\ OneAskAtATime' /\ LastAskOnRecord /\ [WdNext]_wdVars => LastAskOnRecord'
  BY LastAskStep
<1>3. LastAskOnRecord => UnansweredIsRecorded
  <2> SUFFICES ASSUME LastAskOnRecord, wd = "sleep", unread = "none", NEW a \in Asks, asked[a] # Never
               PROVE  askTime # Never
    BY DEF UnansweredIsRecorded
  <2>1. latest = a /\ a # Never
    BY LogAssumption DEF LastAskOnRecord
  <2> QED
    BY <2>1 DEF LastAskOnRecord, Watching
<1> QED
  BY <1>1, <1>2, <1>3, TypeCorrect, PTL DEF WdSpec
==============================================================================
