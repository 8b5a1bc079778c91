---------------------------- MODULE RunSupervision ----------------------------
(***************************************************************************)
(* One dispatched run from its start to its report: the client and its     *)
(* supervision as in Supervisor, the thread that files the client's        *)
(* stderr, and the completion watcher, which judges the run when the       *)
(* supervision is done.  It reads the exit status, the tools that stderr   *)
(* names and the state of the issue, comments on the issue, and writes the *)
(* run's manifest and its last event.  The receiver may stop at any time.  *)
(***************************************************************************)
EXTENDS Naturals, Supervisor, RunStream

CONSTANTS
  Scripts,  \* what a client may be about to print on stderr
  Faults    \* bound on failures of gh, of the disk and of the reader, and restarts

ASSUME ScriptsAssumption == Scripts \subseteq Seq(Line)
ASSUME FaultsAssumption == Faults \in Nat

VARIABLES
  dispatch,  \* what the run was dispatched for: nothing ("adhoc"), an issue, or
             \* an issue whose label has a prompt that closes it ("closing")
  stage,     \* where the completion watcher is
  script,    \* the lines the client prints on stderr if it lives to do so
  printed,   \* how many it has printed
  filed,     \* how many of these are in the .stderr file
  reading,   \* the stderr reader has not stopped early
  cutShort,  \* the join with the reader timed out
  zeroWork, incomplete,   \* the watcher's verdicts
  issue,     \* the dispatch issue
  comments,  \* the comments that reached it
  manifest,  \* the classification in the manifest, or why there is none
  event,     \* the last dispatch_ event
  faults     \* faults left

stream  == <<script, printed, filed, reading>>
verdict == <<cutShort, zeroWork, incomplete>>
report  == <<comments, manifest, event>>
vars    == <<supVars, dispatch, stage, stream, verdict, issue, report, faults>>

Stages == {"watching", "failure", "join", "zeroWork", "probe", "comment", "manifest", "writing",
           "event", "reported", "lost"}
Outcomes == {"failed", "zero_work", "incomplete", "completed"}
\* A manifest without an end: as it was at the start, or one that cannot be read.
Unfinished == {"started", "absent", "torn"}

ASSUME ReasonsAreOwn == Reasons \cap (Outcomes \cup Unfinished) = {}

TypeOK ==
  /\ SupTypeOK
  /\ dispatch \in {"adhoc", "issue", "closing"}
  /\ stage \in Stages
  /\ script \in Scripts /\ printed \in 0..Len(script) /\ filed \in 0..printed
  /\ reading \in BOOLEAN /\ cutShort \in BOOLEAN
  /\ zeroWork \in BOOLEAN /\ incomplete \in BOOLEAN
  /\ issue \in {"open", "closed"}
  /\ comments \subseteq {"failed", "zero_work", "incomplete"}
  /\ manifest \in Reasons \cup Outcomes \cup Unfinished
  /\ event \in Outcomes \cup {"none"}
  /\ faults \in 0..Faults

Init ==
  /\ SupInit
  /\ dispatch \in {"adhoc", "issue", "closing"}
  /\ stage = "watching"
  /\ script \in Scripts /\ printed = 0 /\ filed = 0 /\ reading = TRUE
  /\ cutShort = FALSE /\ zeroWork = FALSE /\ incomplete = FALSE
  /\ issue = "open"
  /\ comments = {} /\ event = "none"
  /\ \/ manifest = "started" /\ faults = Faults
     \/ manifest \in {"absent", "torn"} /\ Faults > 0 /\ faults = Faults - 1

HasContext     == dispatch # "adhoc"
CloseOnSuccess == dispatch = "closing"

NoFault == UNCHANGED faults
Fault   == faults > 0 /\ faults' = faults - 1

----------------------------------------------------------------------------
(* The run beside its supervision.                                         *)

PrintLine ==
  /\ client = "running" /\ printed < Len(script)
  /\ printed' = printed + 1
  /\ UNCHANGED <<supVars, dispatch, stage, script, filed, reading, verdict, issue, report, faults>>

\* BROKEN: the end of the pipe is filed as one more line.
FileEnd ==
  /\ reading /\ filed <= printed
  /\ filed' = filed + 1
  /\ UNCHANGED <<supVars, dispatch, stage, script, printed, reading, verdict, issue, report, faults>>
FileLine ==
  /\ reading /\ filed < printed
  /\ filed' = filed + 1
  /\ UNCHANGED <<supVars, dispatch, stage, script, printed, reading, verdict, issue, report, faults>>

\* An undecodable byte raises a ValueError, which the reader takes for a closed
\* pipe: it stops, and what is printed later is not read.
ReaderStops ==
  /\ reading /\ Fault
  /\ reading' = FALSE
  /\ UNCHANGED <<supVars, dispatch, stage, script, printed, filed, verdict, issue, report>>

CloseIssue ==
  /\ issue = "open" /\ issue' = "closed"
  /\ UNCHANGED <<supVars, dispatch, stage, stream, verdict, report, faults>>

----------------------------------------------------------------------------
(* The completion watcher.                                                 *)

Failed == client = "nonzero"

To(from, next) == stage = from /\ stage' = next

\* The watchdog, or the wait in its place, has returned.
Judge ==
  /\ phase = "done"
  /\ To("watching", IF Failed THEN "failure" ELSE "join")
  /\ UNCHANGED <<supVars, dispatch, stream, verdict, issue, report, faults>>

\* gh posts a comment where there is an issue to post it on, or fails to.
Post(kind) ==
  /\ \/ NoFault /\ comments' = comments \cup (IF HasContext THEN {kind} ELSE {})
     \/ Fault /\ UNCHANGED comments
  /\ UNCHANGED <<supVars, dispatch, stream, issue, manifest, event>>

PostFailure ==
  /\ To("failure", "manifest")
  /\ Post("failed")
  /\ UNCHANGED verdict

\* The reader returns at the end of the pipe, which every process of the run
\* keeps open, or has stopped.
ReaderEnded == ~reading \/ (client # "running" /\ ~child /\ filed = printed)

\* What is in the .stderr file.
Filed == SubSeq(script, 1, filed)

\* A file that cannot be read names no tools.
ReadTools(timeout) ==
  /\ cutShort' = timeout
  /\ \/ NoFault /\ zeroWork' = PlanningOnly(Filed)
     \/ Fault /\ zeroWork' = FALSE
  /\ To("join", IF zeroWork' THEN "zeroWork" ELSE "probe")
  /\ UNCHANGED <<supVars, dispatch, stream, incomplete, issue, report>>

\* BROKEN: the stderr file is read while its reader is still busy.
JoinNothing == ReadTools(FALSE)
JoinReader == ReaderEnded /\ ReadTools(FALSE)

JoinTimesOut == ~ReaderEnded /\ ReadTools(TRUE)

PostZeroWork ==
  /\ To("zeroWork", "manifest")
  /\ Post("zero_work")
  /\ UNCHANGED verdict

\* BROKEN: a run that worked is believed to have closed its issue.
NotProbedAfterWork == ~CloseOnSuccess \/ "execution" \in ToolsOf(Filed)
\* The issue's state is only asked for where the prompt closes it on success.
NotProbed == ~CloseOnSuccess

\* gh issue view; an issue whose state is not known counts as closed.
ProbeIssue ==
  /\ \/ NotProbed /\ NoFault /\ incomplete' = FALSE
     \/ ~NotProbed /\ NoFault /\ incomplete' = (issue = "open")
     \/ ~NotProbed /\ Fault /\ incomplete' = FALSE
  /\ To("probe", IF incomplete' THEN "comment" ELSE "manifest")
  /\ UNCHANGED <<supVars, dispatch, stream, cutShort, zeroWork, issue, report>>

PostIncomplete ==
  /\ To("comment", "manifest")
  /\ Post("incomplete")
  /\ UNCHANGED verdict

\* BROKEN: an incomplete run is reported as a completed one.
OutcomeOfExit == IF Failed THEN "failed" ELSE IF zeroWork THEN "zero_work" ELSE "completed"
Outcome ==
  IF Failed THEN "failed"
  ELSE IF zeroWork THEN "zero_work"
  ELSE IF incomplete THEN "incomplete"
  ELSE "completed"

\* BROKEN: only a run with an issue is worth a manifest.
BeginManifestOfIssue ==
  /\ \/ To("manifest", "writing") /\ HasContext /\ NoFault /\ manifest' = "torn"
     \/ To("manifest", "event") /\ ~HasContext /\ NoFault /\ UNCHANGED manifest
  /\ UNCHANGED <<supVars, dispatch, stream, verdict, issue, comments, event>>
\* _update_run_manifest writes over the file, which truncates it first; when it
\* cannot be opened it keeps its old content.  What it was does not matter: a
\* manifest that cannot be read is written anew.
BeginManifest ==
  /\ \/ To("manifest", "writing") /\ NoFault /\ manifest' = "torn"
     \/ To("manifest", "event") /\ Fault /\ UNCHANGED manifest
  /\ UNCHANGED <<supVars, dispatch, stream, verdict, issue, comments, event>>

Classification == IF kill # "none" THEN kill ELSE Outcome

EndManifest ==
  /\ To("writing", "event")
  /\ \/ NoFault /\ manifest' = Classification
     \/ Fault /\ UNCHANGED manifest
  /\ UNCHANGED <<supVars, dispatch, stream, verdict, issue, comments, event>>

\* BROKEN: the event is left to a reader of the manifest.
EmitNothing == FALSE /\ UNCHANGED vars
EmitEvent ==
  /\ To("event", "reported")
  /\ event' = Outcome
  /\ UNCHANGED <<supVars, dispatch, stream, verdict, issue, comments, manifest, faults>>

\* The receiver's container stops and starts again.  All threads and processes of
\* the run are gone, and what was under way is not taken up again.
Restart ==
  /\ Fault
  /\ client' = IF client = "running" THEN "nonzero" ELSE client
  /\ child' = FALSE /\ reading' = FALSE
  /\ stage' = IF stage = "reported" THEN "reported" ELSE "lost"
  /\ UNCHANGED <<phase, kill, dispatch, script, printed, filed, verdict, issue, report>>

----------------------------------------------------------------------------

Supervised(step) ==
  /\ stage # "lost"
  /\ step
  /\ UNCHANGED <<dispatch, stage, stream, verdict, issue, report, faults>>

CompletionStep ==
  \/ Judge \/ PostFailure \/ JoinReader \/ JoinTimesOut \/ PostZeroWork
  \/ ProbeIssue \/ PostIncomplete \/ BeginManifest \/ EndManifest \/ EmitEvent

RunStep ==
  \/ Supervised(SupNext)
  \/ PrintLine \/ FileLine \/ ReaderStops \/ CloseIssue
  \/ CompletionStep

Next == RunStep \/ Restart

Fairness ==
  /\ WF_vars(Supervised(Conclude))
  /\ WF_vars(CompletionStep)

Spec == Init /\ [][Next]_vars /\ Fairness

----------------------------------------------------------------------------
(* Properties.                                                             *)

\* The completion watcher never judges a run whose client is still running,
\* whichever way the watchdog or its fallback ended.
ReportedIsOver == stage # "watching" => client # "running"

\* A run is called zero-work only when it has named no execution tool, unless its
\* reader stopped early or was not waited for to the end.
ZeroWorkIsTrue ==
  zeroWork /\ reading /\ ~cutShort => "execution" \notin ToolsOf(SubSeq(script, 1, printed))

\* As long as gh answers, a run that had to close its issue is completed only when
\* the issue is closed.
CompletedIsClosed ==
  event = "completed" /\ CloseOnSuccess /\ faults = Faults => issue = "closed"

\* Manifest, event and comment of a run nobody killed say the same of it, as long
\* as nothing fails.
ReportsAgree ==
  stage = "reported" /\ kill = "none" /\ faults = Faults =>
    /\ manifest = event
    /\ comments = IF HasContext /\ event # "completed" THEN {event} ELSE {}

\* A manifest says that a run goes on when it does not only until the watcher has
\* come to it: afterwards a restart or a failed write must have come in between.
RunningIsExplained ==
  manifest \in Unfinished /\ stage \in {"event", "reported", "lost"} =>
    faults < Faults

\* Every dispatched run ends and is reported, unless the receiver stops before.
EveryRunIsReported == <>(stage \in {"reported", "lost"})

----------------------------------------------------------------------------
(* What documents and comments say of the runs, and the code does not do.  *)

\* "post a failure comment on a non-zero/killed/timeout exit".
KilledIsReported ==
  stage = "reported" /\ kill # "none" /\ HasContext /\ faults = Faults => "failed" \in comments
============================================================================
