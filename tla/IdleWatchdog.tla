----------------------------- MODULE IdleWatchdog -----------------------------
(***************************************************************************)
(* The IdleWatchdog of one dispatched run.  Two reader threads note every  *)
(* line the client prints, until one cannot be decoded or filed; the       *)
(* watchdog polls, looks at the exit status, at those notes and at what    *)
(* the opencode server has appended to its log, and kills a run that is    *)
(* too old, keeps failing, waits for a permission nobody will give, or is  *)
(* silent.  A kill aborts the session at the server, then signals the      *)
(* client's process group.                                                 *)
(*                                                                         *)
(* One unit of now is one step of the polling sleep.  The watchdog's own   *)
(* computation takes no time: the clock advances only while it waits.  The *)
(* server's log is shared with other dispatches, so a line, an ask or a    *)
(* reply in it may be anybody's.                                           *)
(***************************************************************************)
EXTENDS Naturals, FiniteSets

CONSTANTS
  Poll,         \* watchdog_poll_secs
  Idle,         \* idle_timeout_secs
  Ceiling,      \* hard_ceiling_secs, which may be 0
  DefaultWait,  \* what the fallback waits for a ceiling of 0
  MaxErrors,    \* max_consecutive_errors
  ErrorGrace,   \* error_grace_secs
  AskGrace,     \* permission_ask_grace_secs
  TermGrace,    \* sigterm_grace_secs
  AbortTimeout, \* timeout of the abort request
  LogVisible,   \* server_log_path is set and the file can be read
  Streams,      \* the client's output streams, each with its reader thread
  Asks,         \* permission asks that may be logged meanwhile
  Own,          \* the session of this dispatch
  Twins,        \* sessions other dispatches create in the same directory
  Faults,       \* how often the watchdog may raise
  Never         \* no time, no ask, no session

Times == {Poll, Idle, Ceiling, DefaultWait, MaxErrors, ErrorGrace, AskGrace, TermGrace, AbortTimeout}

ASSUME TimesAssumption == Times \subseteq Nat /\ Poll > 0 /\ MaxErrors > 0
ASSUME LogAssumption ==
  /\ LogVisible \in BOOLEAN /\ Faults \in Nat
  /\ Own \notin Twins
  /\ Never \notin Asks \cup Twins \cup {Own} \cup Nat

VARIABLES
  now,         \* time.monotonic(), 0 at WatchdogState's start_time
  client,      \* the child: running, or its exit status is zero or nonzero
  child,       \* another process of the client's group is alive
  lastLine, errors, lastError,   \* WatchdogState
  unread,      \* what the log has past _pos: nothing, no permission line, or
               \* as its last permission line an ask or a reply
  created,     \* first creation line with our directory past _pos
  lastGrowth,  \* _ServerLogMonitor._last_growth
  askTime,     \* _PermissionAskMonitor._last_ask_time
  bound,       \* _PermissionAskMonitor._session_id
  aborted,     \* sessions the server was told to abort
  wd,          \* where the watchdog thread is
  wake,        \* when its present wait ends
  reason,      \* WatchdogResult.reason of a kill, "none" without one
  faults,      \* faults left
  printed,     \* history: when each stream last printed, Never once its reader has stopped
  lastWrite,   \* history: when the log was last appended to
  asked,       \* history: when an ask was logged that is not replied to yet
  latest       \* history: the ask that is the log's last permission line

process  == <<client, child>>
stream   == <<lastLine, errors, lastError, printed>>
monitors == <<lastGrowth, askTime, bound>>
history  == <<lastWrite, asked, latest>>
log      == <<unread, created, history>>
wdVars   == <<now, process, stream, log, monitors, aborted, wd, wake, reason, faults>>

Reasons  == {"hard_ceiling", "consecutive_errors", "permission_deadlock", "idle_timeout"}
Sessions == Twins \cup {Own}
Watching == {"poll", "sleep"}
Waiting  == {"sleep", "abort", "grace", "fallback"}

WdTypeOK ==
  /\ now \in Nat /\ wake \in Nat
  /\ client \in {"running", "zero", "nonzero"} /\ child \in BOOLEAN
  /\ lastLine \in Nat /\ lastError \in Nat /\ errors \in 0..MaxErrors
  /\ unread \in {"none", "quiet", "ask", "reply"}
  /\ created \in Sessions \cup {Never} /\ bound \in Sessions \cup {Never}
  /\ lastGrowth \in Nat /\ askTime \in Nat \cup {Never}
  /\ aborted \subseteq Sessions
  /\ wd \in Waiting \cup {"new", "poll", "done"}
  /\ reason \in Reasons \cup {"none"}
  /\ faults \in 0..Faults
  /\ printed \in [Streams -> Nat \cup {Never}]
  /\ lastWrite \in Nat /\ latest \in Asks \cup {Never}
  /\ asked \in [Asks -> Nat \cup {Never}]

WdInit ==
  /\ now = 0 /\ wake = 0
  /\ client = "running" /\ child = FALSE
  /\ lastLine = 0 /\ errors = 0 /\ lastError = 0
  /\ unread = "none" /\ created = Never
  /\ lastGrowth = 0 /\ askTime = Never /\ bound = Never
  /\ aborted = {}
  /\ wd = "new" /\ reason = "none"
  /\ faults = Faults
  /\ printed = [s \in Streams |-> 0]
  /\ lastWrite = 0 /\ latest = Never /\ asked = [a \in Asks |-> Never]

----------------------------------------------------------------------------
(* The run: what it prints, what the server logs, how it ends.             *)

\* What is printed or logged once the watchdog has stopped looking changes
\* nothing any more, and is left out.
Observed == wd \in Watching \cup {"new"}

\* The client, or a process that shares its streams, prints.
Printing == Observed /\ (client = "running" \/ child)

\* The streams whose reader thread still reads.
Readers == {s \in Streams : printed[s] # Never}

\* BROKEN: a line with an error does not count as activity.
CountProgress(isError) == lastLine' = IF isError THEN lastLine ELSE now
CountLine(isError) == lastLine' = now

\* A line is printed and its reader takes it.  Past MaxErrors the counter makes no
\* difference, and without errors the time of the last one is not looked at.
RecordLine(s, isError) ==
  /\ Printing /\ s \in Readers
  /\ printed' = [printed EXCEPT ![s] = now]
  /\ CountLine(isError)
  /\ IF isError
       THEN errors' = (IF errors < MaxErrors THEN errors + 1 ELSE errors) /\ lastError' = now
       ELSE errors' = 0 /\ lastError' = 0
  /\ UNCHANGED <<now, process, log, monitors, aborted, wd, wake, reason, faults>>

\* A line that cannot be decoded, or written to the run's log, ends the reader before
\* it is noted.  What the stream prints from then on is noted by nobody, and left out.
ReaderStops(s) ==
  /\ Printing /\ s \in Readers
  /\ printed' = [printed EXCEPT ![s] = Never]
  /\ UNCHANGED <<now, process, lastLine, errors, lastError, log, monitors>>
  /\ UNCHANGED <<aborted, wd, wake, reason, faults>>

Append(kind) ==
  /\ Observed /\ LogVisible
  /\ unread' = IF kind = "quiet" /\ unread # "none" THEN unread ELSE kind
  /\ lastWrite' = now
  /\ UNCHANGED <<now, process, stream, monitors, aborted, wd, wake, reason, faults>>

LogLine == Append("quiet") /\ UNCHANGED <<created, asked, latest>>

LogAsk(a) ==
  /\ asked[a] = Never /\ Append("ask")
  /\ asked' = [asked EXCEPT ![a] = now] /\ latest' = a
  /\ UNCHANGED created

LogReply(a) ==
  /\ asked[a] # Never /\ Append("reply")
  /\ asked' = [asked EXCEPT ![a] = Never] /\ latest' = Never
  /\ UNCHANGED created

\* message=created with our directory= and parentID=undefined.
LogCreation(s) ==
  /\ Append("quiet")
  /\ created' = IF created = Never THEN s ELSE created
  /\ UNCHANGED <<asked, latest>>

ClientExits(status) ==
  /\ client = "running" /\ client' = status
  /\ UNCHANGED <<now, child, stream, log, monitors, aborted, wd, wake, reason, faults>>

ChildStarts ==
  /\ client = "running" /\ ~child /\ child' = TRUE
  /\ UNCHANGED <<now, client, stream, log, monitors, aborted, wd, wake, reason, faults>>

ChildEnds ==
  /\ child /\ child' = FALSE
  /\ UNCHANGED <<now, client, stream, log, monitors, aborted, wd, wake, reason, faults>>

RunStep ==
  \/ \E s \in Streams : ReaderStops(s) \/ \E isError \in BOOLEAN : RecordLine(s, isError)
  \/ LogLine
  \/ \E a \in Asks : LogAsk(a) \/ LogReply(a)
  \/ \E s \in Sessions : LogCreation(s)
  \/ \E status \in {"zero", "nonzero"} : ClientExits(status)
  \/ ChildStarts \/ ChildEnds

----------------------------------------------------------------------------
(* The watchdog loop.                                                      *)

\* IdleWatchdog is built after the client was started: the log's size is taken
\* now, and what is in it already is never read.
StartWatch ==
  /\ wd = "new" /\ wd' = "poll"
  /\ unread' = "none" /\ created' = Never
  /\ latest' = Never /\ asked' = [a \in Asks |-> Never]
  /\ UNCHANGED <<now, process, stream, monitors, aborted, wake, reason, faults, lastWrite>>

NoticeExit ==
  /\ wd = "poll" /\ client # "running"
  /\ wd' = "done"
  /\ UNCHANGED <<now, process, stream, log, monitors, aborted, wake, reason, faults>>

Since(t) == now - t

\* BROKEN: that there is a log counts as activity.
ReadPresence == lastGrowth' = IF LogVisible THEN now ELSE lastGrowth
\* idle_secs: new bytes restart the clock at the poll that finds them.
ReadGrowth == lastGrowth' = IF LogVisible /\ unread # "none" THEN now ELSE lastGrowth

\* The permission scan's poll: the session is bound to the first creation line,
\* and of the asks and replies that are new only the last one counts.
ReadPermissions ==
  IF LogVisible
    THEN /\ bound' = IF bound = Never THEN created ELSE bound
         /\ askTime' = CASE unread = "ask" -> now
                         [] unread = "reply" -> Never
                         [] OTHER -> askTime
         /\ unread' = "none" /\ created' = Never
    ELSE UNCHANGED <<bound, askTime, unread, created>>

ReadLog == ReadGrowth /\ ReadPermissions /\ UNCHANGED history

\* effective_idle, the smaller of the two idle times, has reached the timeout.
Silent ==
  Since(lastLine) >= Idle /\ (LogVisible => Since(lastGrowth') >= Idle)

\* BROKEN: the grace comes on top of the idle timeout.
DeadlockedLate == askTime' # Never /\ Since(askTime') >= Idle + AskGrace
Deadlocked == askTime' # Never /\ Since(askTime') >= AskGrace

\* BROKEN: a run that is printing is left alone.
TooOldAndSilent == Since(0) >= Ceiling /\ Since(lastLine) > 0
TooOld == Since(0) >= Ceiling

Failing == errors >= MaxErrors /\ Since(lastError) <= ErrorGrace

\* BROKEN: a silent run is given a reason of its own, which nobody knows.
VerdictUnnamed ==
  IF TooOld THEN "hard_ceiling"
  ELSE IF Failing THEN "consecutive_errors"
  ELSE IF Deadlocked THEN "permission_deadlock"
  ELSE IF Silent THEN "timeout"
  ELSE "none"
\* The first of the conditions that holds, in the order in which they are tested.
Verdict ==
  IF TooOld THEN "hard_ceiling"
  ELSE IF Failing THEN "consecutive_errors"
  ELSE IF Deadlocked THEN "permission_deadlock"
  ELSE IF Silent THEN "idle_timeout"
  ELSE "none"

\* The request is only sent when the session is known.
AbortRequest == IF bound' = Never THEN 0 ELSE AbortTimeout

PollRun ==
  /\ wd = "poll" /\ client = "running"
  /\ ReadLog
  /\ reason' = Verdict
  /\ IF reason' = "none"
       THEN wd' = "sleep" /\ wake' = now + Poll
       ELSE wd' = "abort" /\ wake' = now + AbortRequest
  /\ UNCHANGED <<now, process, stream, aborted, faults>>

\* The sleep is cut short when the client exits.
WakeUp ==
  /\ wd = "sleep" /\ (now >= wake \/ client # "running")
  /\ wd' = "poll"
  /\ UNCHANGED <<now, process, stream, log, monitors, aborted, wake, reason, faults>>

----------------------------------------------------------------------------
(* Termination, and the fallback of the completion watcher.                *)

\* The abort request is answered, refused or times out.
RequestAnswered == aborted' \in {aborted, aborted \cup ({bound} \ {Never})}

\* Then SIGTERM goes to the process group, and any process of it may ignore it.
EndAbort ==
  /\ wd = "abort" /\ RequestAnswered
  /\ child' \in {child, FALSE}
  /\ wd' = "grace" /\ wake' = now + TermGrace
  /\ UNCHANGED <<now, client, stream, log, monitors, reason, faults>>

\* proc.wait returns as soon as the client itself has exited.
ClientTerminated ==
  /\ wd = "grace" /\ client # "running"
  /\ wd' = "done"
  /\ UNCHANGED <<now, process, stream, log, monitors, aborted, wake, reason, faults>>

\* SIGKILL to the group, when the client has not exited within the grace.
KillGroup ==
  /\ wd = "grace" /\ client = "running" /\ now >= wake
  /\ client' = "nonzero" /\ child' = FALSE
  /\ wd' = "done"
  /\ UNCHANGED <<now, stream, log, monitors, aborted, wake, reason, faults>>

\* A ceiling of 0 kills at the first poll, but is no ceiling to the fallback.
FallbackWait == IF Ceiling = 0 THEN DefaultWait ELSE Ceiling

\* The watchdog raises (a poll, or a signal it may not send): the completion
\* watcher waits again, as long as the ceiling if there is one, and knows of no kill.
WatchdogRaises ==
  /\ \/ wd = "poll" /\ UNCHANGED aborted
     \/ wd = "abort" /\ RequestAnswered
  /\ faults > 0 /\ faults' = faults - 1
  /\ wd' = "fallback" /\ wake' = now + FallbackWait
  /\ reason' = "none"
  /\ UNCHANGED <<now, process, stream, log, monitors>>

\* BROKEN: the second wait gives up without a kill.
FallbackGivesUp == now >= wake /\ client' = client
\* proc.kill reaches the client alone.
FallbackKill == now >= wake /\ client' = "nonzero"

EndFallback ==
  /\ wd = "fallback"
  /\ \/ client # "running" /\ UNCHANGED client
     \/ client = "running" /\ FallbackKill
  /\ wd' = "done"
  /\ UNCHANGED <<now, child, stream, log, monitors, aborted, wake, reason, faults>>

\* Time passes while the watchdog waits; the abort request goes on waiting when
\* the client is gone, the other waits do not.
Tick ==
  /\ wd \in Waiting /\ now < wake
  /\ client = "running" \/ wd = "abort"
  /\ now' = now + 1
  /\ UNCHANGED <<process, stream, log, monitors, aborted, wd, wake, reason, faults>>

WatchStep ==
  \/ StartWatch \/ NoticeExit \/ PollRun \/ WakeUp
  \/ EndAbort \/ ClientTerminated \/ KillGroup
  \/ WatchdogRaises \/ EndFallback

WdNext == RunStep \/ WatchStep \/ Tick

\* The watcher's thread runs, and the clock does.
WdFairness == WF_wdVars(WatchStep) /\ WF_wdVars(Tick)
WdSpec == WdInit /\ [][WdNext]_wdVars /\ WdFairness

----------------------------------------------------------------------------
(* The abstraction: what the completion watcher relies on.                 *)

phase ==
  CASE wd \in {"new", "poll", "sleep"} -> "watching"
    [] wd \in {"abort", "grace"}       -> "killing"
    [] wd = "fallback"                 -> "waiting"
    [] wd = "done"                     -> "done"

S == INSTANCE Supervisor WITH kill <- reason

\* Whatever the clocks and the log say, the watchdog behaves as a Supervisor: it
\* is done only when the client is gone, a reason is given once and only for a
\* client that was running, and it does end.
SupervisesTheClient == S!SupSpec

----------------------------------------------------------------------------
(* Properties.                                                             *)

\* When the watchdog last decides, at the latest.
LastPoll == Ceiling + Poll - 1

\* However busy it is, a run is over when the ceiling, one poll, the abort
\* request and the grace have passed; the fallback adds its wait.
LifetimeBounded ==
  client = "running" =>
    now <= LastPoll + AbortTimeout + (IF faults = Faults THEN TermGrace ELSE FallbackWait + TermGrace)

\* A run is killed as idle only when, for the idle timeout, neither stream that still
\* has its reader has printed anything and nothing was appended to the server's log,
\* wherever the polls fell.  More cannot be said of the output: a client whose readers
\* have stopped is killed as idle while it prints.
IdleKillIsIdle ==
  [][reason # "idle_timeout" /\ reason' = "idle_timeout" =>
       /\ \A s \in Readers : Since(printed[s]) >= Idle
       /\ LogVisible => Since(lastWrite) >= Idle]_wdVars

\* A run that is watched and of which no line is noted, be it silent or unread, is not
\* left alone for longer than the timeout and the polls that find the last growth and
\* the silence.
SilenceIsNoticed ==
  wd \in Watching /\ client = "running" =>
    \/ Since(lastLine) < Idle + Poll
    \/ LogVisible /\ Since(lastWrite) < Idle + 2 * Poll

\* The same for an ask that is the last permission line of the log.
AskIsNoticed ==
  wd \in Watching /\ client = "running" /\ LogVisible /\ latest # Never =>
    Since(asked[latest]) < AskGrace + 2 * Poll

----------------------------------------------------------------------------
(* What documents and comments say of the watchdog, and the code does not do. *)

\* "records the most recent unanswered ask": when the whole log has been read and
\* some ask is unanswered, one is on record.
UnansweredIsRecorded ==
  wd = "sleep" /\ unread = "none" /\ (\E a \in Asks : asked[a] # Never) => askTime # Never

\* "never a concurrent dispatch's session".
AbortsOwnSession == aborted \subseteq {Own}

\* "spawned child processes don't outlive the run".
GroupIsGone == wd = "done" /\ reason # "none" => ~child
============================================================================
