# A verification development for orchestrator-service

The repository is a webhook receiver. A labelled GitHub issue or an approval
makes it start an *orchestration run*, an `opencode` client that works in the
project's workspace, and a background thread, the BeadsLoop, executes the plan
such a run leaves behind, one *bead* (task) at a time, each in a git worktree of
its own. The modules here are TLA+ models of the parts in which order, failure
and time decide whether this works, checked with TLC and partly proved with
TLAPS. Paths without a directory are under `webhook_receiver/`.

## 1. The system

| component | state it keeps | operations | what makes it correct |
|---|---|---|---|
| BeadsLoop (`beads_loop.py`, one daemon thread) | active, retry and halted dictionaries, in memory only | scan projects, choose a bead, create its worktree, run an agent, look at the bead's status, push and open a pull request, clean up | attempts are bounded, only closed work of one attempt is published, a project is drained or stands at a halted bead |
| Worktrees, workspaces (`workspace.py`) | `.worktrees/<id>` directories, git's worktree registry, `task/<id>` branches, clones under the workspace root | create, remove, push; clone, initialise, sync and discover projects | nothing is left over that makes the next attempt fail; a clone is used by one at a time |
| Idle watchdog (`watchdog.py`, one thread per run) | last line, consecutive errors, log offset, pending ask, session id | poll, decide, abort the session, signal the process group | a run ends in bounded time; it is killed for a reason that is true of what is noted of it |
| Run supervision (`runner.py`, a watcher and two reader threads per run) | manifest file, `.stdout`/`.stderr` files, comments on the issue | start, stream, judge, report | one report, after the end, that says what happened |
| Event store (`event_store.py`, all threads) | ring buffer, subscriber queues, id counter | emit, subscribe, get, close, recent | every subscriber sees every event at most once, and all of them as long as it keeps up |
| Webhook endpoint (`app.py`, async handler and background tasks) | none of its own | verify, filter, record, dispatch | an accepted delivery is dispatched or its failure is visible |
| Webhook store (`webhook_store.py`) | deliveries by id, `webhooks.json` | record, evict, persist, load | the record of a delivery is the last thing that was decided about it |
| Filters, authorization (`filters.py`, `auth.py`) | none | decide on one payload | - |
| Dashboard (`dashboard.py`, `run_narrative.py`, `run_stream.py`) | TTL cache | views, each request in a thread of its own, one SSE stream per client | a view is not older than its TTL and says nothing that is not so, streams are capped |
| Settings, prompts, GitHub client, simulator, entry point, scripts, images | configuration | - | - |

Interactions. The webhook endpoint records a delivery, answers 202 and leaves
the dispatch to a background task, which prepares the workspace and starts a
run. The run's watcher thread shares `WatchdogState` with the two reader threads
and the process with the kernel; it learns of the server-side work only through
the shared log of the opencode server, into which every run of every project
writes. That server is another container: killing a client leaves its session
at work there (`watchdog.py:755-760`), and only the watchdog asks to abort it. The BeadsLoop shares with the runs nothing but the file system: a
planning run writes and commits the plan, which makes the project one the loop
works on. All of them emit events into the one event store, from which the
dashboard's streams read. A restart of the receiver loses every thread, every
dictionary and the event store, and keeps the file system, the beads database
and what is at GitHub.

Hard behaviours: steps that fail half way with state on disk (worktrees), loops
that depend on bookkeeping in four places (retries), deadlines that are looked
at only at polls while lines and log bytes arrive at any moment, a process group
of which only the leader is waited for, files read while another thread writes
them, evidence shared by runs that do not know of each other (the server log),
sessions that outlive their client, reader threads that stop, and restarts. `PROJECT.json` lists them under `hazards`, each at its line and
with the properties that cover it.

## 2. The modules

| module | models | kind |
|---|---|---|
| `Dispatcher` | what the loop comes to, without projects, worktrees or `br` | abstract specification |
| `BeadsLoop` | `beads_loop.py`, the worktree half of `workspace.py`, the agent and the environment of the loop | component, implements `Dispatcher` |
| `MCBeadsLoop` | projects, beads, blockers and priorities for TLC | instance |
| `BeadsLoopProofs` | theorems about `BeadsLoop`, with the refinement | proofs |
| `Supervisor` | what the supervision of one client comes to, without clocks or logs | abstract specification |
| `IdleWatchdog` | `watchdog.py` and the fallback wait of `runner.py`, with time | component, implements `Supervisor` |
| `MCIdleWatchdog` | asks and sessions for TLC | instance |
| `IdleWatchdogProofs` | theorems about `IdleWatchdog`, with the steps of the refinement | proofs |
| `RunStream` | the two decoders of stderr lines in `run_stream.py` | functions |
| `RunSupervision` | the stderr reader, `_run_completion_watcher` and the manifest of `runner.py`, on top of `Supervisor` and `RunStream` | composition |
| `RunSupervisionProofs` | theorems about `RunSupervision` | proofs |
| `RunNarrative` | the status and the timeline of `run_narrative.py` | functions |
| `RunNarrativeProofs` | what the feed and the timeline are for every text, with induction over the text | proofs |
| `RunViews` | the cache of `dashboard.py` and its narrative of a run, beside the run | composition of `RunSupervision`, `RunNarrative` and the requests |
| `MCRunViews` | what clients print, the texts and the runs that are looked at for TLC | instance |
| `RunViewsProofs` | theorems about `RunViews` | proofs |
| `EventStore` | `event_store.py` and the admission of streams in `dashboard.py` | component |
| `EventStoreProofs` | theorems about `EventStore` | proofs |
| `Webhooks` | the endpoint and background dispatch of `app.py`, `should_dispatch`, `webhook_store.py`, the project workspaces of `workspace.py` | component |
| `WebhooksProofs` | theorems about `Webhooks` | proofs |

Operators whose comment begins with BROKEN are not part of any specification:
each is the definition below it with a plausible mistake, and `PROJECT.json`
names the property that notices it.

### BeadsLoop

`pc` is where the single loop thread is; `cur` the bead in its hands. `active`,
`retries` and `halted` are `_active_beads`, the counts of `_retry_state` and
`_halted_beads`; `Restart` empties them and nothing else. On disk, `dir`,
`registered` and `branch` are kept apart because the code can change one without
the others: `remove_bead_worktree` does nothing when the directory is missing,
removes it behind git's back when git refuses, and ignores a failed branch
deletion. Every command the loop runs is a step of its own, and where the code
catches its failure (or lets it through) there is a second action that takes one
of `Faults` faults, if it is of something in `Unreliable` (`br`, `git`, the origin,
the client of an agent, the receiver). `PickBead` takes what `bvr` ranks first (any
ready bead) or, when it does not answer, a ready bead of the smallest priority; neither knows the
halted set, which is why `SkipProject` has the disjunct of a chosen bead that may
not be picked. The agent commits, closes its bead and exits in any order; others
close the beads of `Shared`, and plans come and go in the projects of `Replanned`.

What works on a bead is a session in the opencode server's container. When its
client is lost (`ClientLost`), or was a process of a receiver that stops
(`Restart`), the session goes on: the loop never asks the server to abort one. It
is in `strays` until it ends by itself (`StrayEnds`), and commits, writes and closes
at the path it was given, whoever has a worktree there by now; a write makes the
directory again after a removal. So two agents can be at work in one worktree,
although `workspace.py:9` says it is never shared. What a session does elsewhere
is left out, and so is which of its commits survive when its own worktree was
removed under it: it commits only to a branch that is there. `makers` is a history
of whose commits are in a branch: the agent's that was started last, a stray
session's, or an earlier attempt's. `PublishesOneAttempt` says that the last are
never pushed: it depends on `git worktree add -b` refusing a branch that is left,
on every removal the loop does before and after, and on nothing that a restart
forgets. That a stray session has a part in what is pushed is not excluded, by the
property or by the code.

`Dispatcher` is what is left of it when nobody asks how: a bead is taken when it
is open and unblocked, at most one agent is started for it, and only when every
earlier one has been counted as a failure; it is published at most once and only
when it is closed, then its failures are forgotten; or it fails, is dropped or is
given up; and it is put back before the next one is taken. `progress` maps `pc`
to it, and a bead is published when the origin has a branch of it.
`DispatchesInTurn` says that `BeadsLoop` implements it. `Dispatcher` has no
fairness: that a pickup ends and a project is drained depends on what the
environment does, and is said by `PickupEnds` and `DrainedOrHalted`.

Run `loop`: two beads, the second behind the first, in a project whose plan
stays, a second project that is replanned, two attempts, two faults. Two faults
are what a leftover needs (a failed removal, then the attempt that meets it);
two attempts let a bead fail, succeed and halt; one blocker is enough for the
head of line to matter. Everything is unreliable there, and others may close
either bead. `AttemptsBounded`, `HaltedIsExhausted` and `HaltIsFinal`
relate the agents that were really started to the count that is kept at four
places; `NothingLeftBehind` is about leftovers of a loop to which nothing
happened, `PublishesOneAttempt` about those of all others;
`PublishedIsClosed` about what reaches the origin; `DispatchesInTurn` relates all
of them step by step. `PickupEnds` and `DrainedOrHalted` are liveness.

Fairness: weak fairness of the loop's own steps, since the thread runs until the
receiver stops. `proc.wait()` has no timeout, so that agents exit is an
assumption about agents, weak fairness of `AgentExits` in `SpecAgentsExit`.

Runs `loop_drain` and `loop_work` show two disagreements with the documents
(section 5). In `loop_work` only the origin is unreliable and nobody but the agent
closes a bead, so that its trace is the failed push and nothing else.

### Supervisor, IdleWatchdog, RunSupervision

`Supervisor` says what a completion watcher can rely on: the client exits or is
killed, a reason is given at most once and only while the client runs, an error
of the watchdog forgets the reason, and the supervision is done only when the
client is gone. Its fairness is that something concludes the run.

`IdleWatchdog` is the same with everything that decides it. `now` counts steps
of the polling sleep; the watchdog's own computation takes no time, so the clock
advances in `Tick` only while it waits, and everything else (lines, log bytes,
exits, children) happens between any two of its steps. So does the end of a
reader thread (`ReaderStops`): a line that cannot be decoded, or not be written
to the run's log, ends it for good, as the code takes the `ValueError` for a
closed pipe (`runner.py:314`), and the client prints on without being noted. A
line that is read is noted at once. `PollRun` is one pass of
the loop: both log monitors, then `Verdict`, the four conditions in their order.
A verdict leads through the abort request, SIGTERM and the grace to SIGKILL;
processes of the group may ignore SIGTERM, and only the client is waited for.
`WatchdogRaises` is an exception in a poll or a termination: a second wait takes
over, as long as the ceiling, or 5400 seconds (`DefaultWait`) where that is 0, and
kills the client alone. The log is the
server's and shared: `unread` is the last permission line past the monitor's
offset, `created` the first creation line with the run's directory, which may be
a twin's. `printed`, the time
of the last line of each stream that is still read, is compared with nothing by
the watchdog, like `lastWrite`, `asked` and `latest`; it is history that tells which
readers are left.

Run `watchdog` (poll 2, idle 2, ceiling 5, the rest 1, two errors, one ask, one
watchdog error) has room for two or three polls before the ceiling, for growth
between and at polls, and for a kill by each of the four conditions. Bounds are
stated with the constants, not with the numbers of the instance.
`IdleKillIsIdle` and `SilenceIsNoticed` are the two directions of the idle
timeout: never while a stream that is read, or the log, has moved within it, and
never later than the polls allow. More cannot be said of the first: a client
whose readers have stopped is killed as idle while it prints, which is what the
hazard at `runner.py:314` is. One stream is enough to stop a reader in the run; the
theorem has any number.
`AskIsNoticed` is the same for a permission ask; `LifetimeBounded` bounds the run.
`SupervisesTheClient` is the refinement of `Supervisor`, including its liveness,
under weak fairness of the watcher's thread and of the clock. Nothing is assumed
of the client: it need never exit.

`RunSupervision` extends `Supervisor`, not `IdleWatchdog`: what it needs of the
watchdog is in the abstract specification, which keeps its state space small
enough for the whole report. `script` is what the client prints on stderr if it
lives to do so, `printed` and `filed` how much of it has been printed and is in
the file; the lines are those of `RunStream`. The watcher judges the exit status,
joins the stderr reader for at most 15 seconds, takes the tools that the file
names by then, asks for the issue's state where the label's prompt closes it,
comments, and writes the manifest and the last event. The reader stops on an
undecodable byte, which the code takes for a closed pipe.

`manifest` is its classification, or why there is none: it is as it was at the
start, could not be written then (`"absent"`), or is cut short (`"torn"`).
`_update_run_manifest` writes over the file in place, so every rewrite passes
through `"torn"`, and a full disk or a restart leaves it there. `Restart` is the
container stopping: client, readers and watcher are gone (stage `"lost"`), the
files and what was posted stay, and nothing takes the run up again.

### RunStream, RunNarrative, RunViews

A line is a record of what the decoders can tell of it: the kind of its leading
glyph, whether a planning tool, another name or nothing follows, and the mark by
which the feed knows a line without a glyph. `ToolsOf` takes any glyph, so that a
new one does not break the classification; `Events` takes the known ones.
`Timeline` collapses neighbours of a groupable kind. Both are recursive functions,
over the number of lines read and over the event at which an entry begins.

`RunViews` puts requests for the narrative beside the run. A request looks into
the cache, reads the manifest, reads the log and stores, and any step of the run
or of another request may come in between. Ages stand for times, counted up to
`TTL`: `endAge` is a history of how long the manifest has had an end. The entry
is stamped with the time of the look, not of the storing; that, and not an order
between two requests, is why `ViewCatchesUp` holds. A request that found the
cache empty may of course answer its own caller late; the property is about what
the cache serves to others. `RunViews` leaves the variables of the run alone, and
`LookedAtRunsAreRuns` proves that it does not disturb it.

Run `runs` checks both modules at once. Its runs report to an issue, or do not,
or have a prompt that closes it, and meet two failures or restarts; or they are
looked at, by two requests whose ages go up to 2. Looked-at runs begin with the
manifest that could not be written, which is one of the two faults, have no issue
and print one planning and one executing line: that is the smallest run in which
the manifest appears only at the end, and the verdict depends on which of two
lines was filed. Two requests are what it takes to store in the wrong order, and
a time to live of 2 what it takes to tell an entry that is too old from one that
is about to be. The three scripts have a known and an unknown glyph, planning,
execution and noise. `ReportedIsOver` and `EveryRunIsReported` say that the
report comes after the end and does come, unless the receiver stops first;
`ZeroWorkIsTrue` and `CompletedIsClosed` what a verdict promises in spite of the
race with the reader and the late look at the issue; `ReportsAgree` that
manifest, event and comment tell one story; `RunningIsExplained` that a manifest
without an end is the work of a fault. `ViewCatchesUp`, `EndedViewIsTrue` and
`ZeroWorkViewShowsNoWork` say the same of what the dashboard shows: not too late,
not too early, and not other than the verdict. `TimelineIsFaithful` compares the
timeline with what it has to keep, for the stderr of every run and for all 3906
texts of up to five lines over five kinds, which has every boundary of a group.

Fairness is weak fairness of the supervision's end and of the watcher's steps,
the thread being there until the receiver stops. Nothing is assumed of requests.

The runs end, so `CHECK_DEADLOCK FALSE` is set in their configurations.

### EventStore

An event is its id. `emit` is cut where other threads can come in between: the
id (before the lock), append and copy of the subscribers (under it), one offer
per subscriber, the return. A queue is the part of `put[c]` behind `taken[c]`;
`put` keeps everything so that repetition and order can be stated. `Admit` is the
route's comparison with the cap, `Subscribe` the start of the response's
generator, and `Close`, by the response or by `Subscriber.__del__`, leaves the queue
in the copies emitters have made. When a dropped stream is collected in a thread that
is inside the lock (`CollectUnderLock`), that thread waits for a lock it has:
`wedged`, after which nobody passes the lock again.
`missed`, `older`, `finished` and `before` are history and guard nothing.

Run `events`: two emitters so that ids and appends can cross, two streams, three
events through a deque of two so that the oldest is dropped, and queues of one so
that a queue fills with one event and the backlog is cut. `AtMostOnce` and
`Accounted` are the two halves of what the lock is for: an event comes to a
stream from the backlog or from its emitter, never from both and never from
neither, unless the queue was full. `EmitOrder` is what is left of order when the
id is taken outside the lock. `EmitEnds` says that a stream that does not read
holds up nobody, and that of the emits only those before the lock stay behind when
the store is wedged; the fairness is that a thread in `emit` goes on, and nothing is
assumed of the readers. `MaxEvents` is the bound of the run; when it is reached
and the streams are closed nothing more happens, so deadlock is not checked. The
requests of a stream's client and the keepalive change nothing and are no steps.

Run `events_cap` is the disagreement about the cap.

### Webhooks

A *delivery* is an event of one repository's issue with its payload; a *receipt*
is one arrival of it. GitHub may deliver late, out of order or again, so any
receipt is of any delivery that was sent. `at` is where the receipt is: in the
handler, which runs on the event loop and awaits only for the body, so that one
receipt is in it at a time; waiting for a thread; or at a step of
`_safe_dispatch` in one of `Workers` threads. The handler is cut at its writes to
the store, since background tasks write to it in between.

The store is the sequence of deliveries by `received_ts`, `stored`, with their
`rec`ords; `file` is `webhooks.json`. `Save` is `record()`: make or merge, evict
the oldest, persist or fail to. A record that was evicted is made anew by the
next call, without the fields of its receipt (`known`).

`dir` is what the workspace holds, as the code can tell and as it cannot: both a
clone that is under way and the remains of one have a `.git`, which is all that
`Look` asks for. Nothing locks the workspace, so the steps of two preparations
interleave; `Clear` removes whatever is there by now. A `git clone` that fails
mostly removes its directory (`CloneFails`), but leaves a `.git` when it is killed
or when only its checkout fails (`CloneBreaks`; `app.py:137-141` expects a partial
directory), and so do a `git init` that ends half way and a removal that fails
(`HalfDone`), the last only of what another task has put there since. `Restart` ends every thread and every git, which may leave what it was
making (`HalfWay`), and loads the file, of which the retention drops the oldest.
`cutShort` is a history of a git that ended half way and left its `.git`.

Run `webhooks` has two deliveries, one without a clone URL, two receipts, one
fault and one restart. A store of one record makes each delivery evict the other
between its phases; two receipts are what it takes for two preparations to meet,
and since the workspace may be whole to begin with they also meet in a settled
one. One repository is enough, because repositories share nothing but the store
and the threads. Every label of the instance is a workflow label; what another
one does is the same as what a removed label does. `VerbatimIsTrusted` relates
the run to the labels of the issue and not only to the one that triggered it;
`RecordsAreTrue` and `UnlinkedIsExplained` the store to what happened;
`WorkspaceIsSound` and `SettledStays` say when a workspace can be relied on. The
first has two exceptions, which the code has too: two first preparations that
meet (a limitation that `docs/greenfield-repo-worktree-lifecycle.md` names) and a
git that ended half way, by a restart, a kill or a failed checkout, after which
its `.git` is taken for a clone for ever. Without these two no other failure
breaks a workspace: not a clone that cleans up, the directory, the exclude
file or `sync`.

Fairness: weak fairness of each receipt's steps, as the event loop and the
threads go on. `subprocess.run` has no timeout there, so that every git ends is
an assumption on git; a restart excuses what it loses. The receipts are
bounded, so deadlock is not checked.

## 3. What is proved

`BeadsLoopProofs` proves, for any sets of projects and beads, any blockers, any
number of retries and faults:

| theorem | property |
|---|---|
| `TypeCorrect` | `TypeOK` |
| `AttemptsAreBounded` | `AttemptsBounded` |
| `HaltedAreExhausted` | `HaltedIsExhausted` |
| `OneAttemptIsPublished` | `PublishesOneAttempt` |
| `PublishedAreClosed` | `PublishedIsClosed` |
| `NothingIsLeftBehind` | `NothingLeftBehind` |
| `HaltsAreFinal` | `HaltIsFinal` |
| `DispatchingInTurn` | `DispatchesInTurn`, the refinement of `Dispatcher` |
| `WorkIsKeptUndisturbed` | `ClosedWorkIsKept`, which the code does not keep, when nothing disturbs it |

None of the properties is inductive. The invariant `IInv` adds to the type
invariant: which bead the loop holds at which step (`HoldsOne`); that a count
never passes the maximum and is below it while an attempt goes on
(`WithinRetries`); that the agents started are never more than the attempts
counted, plus the one that is running, unless the bead is closed and will not be
picked again (`Counted`, lifted to all beads by `EveryLaunchCounted`); that a
bead past the check is closed and its branch at the origin before its pull
request (`PublishedInOrder`); that the bead in hand was unblocked, has a
branch from the moment its agent runs and nothing at the origin until the push
(`InHand`, which also has the blockers of stray sessions' beads closed, as those
close beads); that the branch an agent starts on holds nothing but what strays have
put there, and until the push nothing of an earlier attempt (`AttemptsApart`); and,
bead by bead, what is on disk at each step when nothing has
failed (`Clean`, `Tidy`). Each part has a lemma with one step
per action; `Inductive` puts them together and the theorems follow by PTL. The
refinement has a lemma for each group of steps, which names the action of
`Dispatcher` a step is, or shows that it is none (`Unseen`); `Dispatcher`'s guards
are where `IInv` is needed, `InHand` most of all. The last theorem is about a
finding: under `Undisturbed` (nothing fails outside, and nobody closes a bead
while the worktree it was found open in is removed) no work of a closed bead is
lost, so these are the only two causes of a lost one; run `loop_work` shows the
first, in its plainest form. The
assumptions are `KeysAssumption` and `BoundsAssumption` of `BeadsLoop`.

`EventStoreProofs` proves, for any threads, streams and sizes:

| theorem | property |
|---|---|
| `TypeCorrect` | `TypeOK` |
| `EveryEventOnce` | `AtMostOnce` |
| `NothingIsLost` | `Accounted` |
| `OrderIsKept` | `EmitOrder` |
| `CapHoldsOneByOne` | `StreamsCapped`, which the code does not keep, for requests that come one by one |

Its invariant adds that an id is in one emitter's hands and not finished there
(`OneEmitterEach`), that whatever is in a queue has an id already handed out
(`KnownIds`), that a client that has not subscribed is in no copy and has an
empty queue (`Unknown`), and, the point of the argument, that what an emitter has
yet to append is in no sequence and what it has yet to offer to a client is not
in that client's queue (`NotYetGiven`). The three actions that write a sequence
have a lemma each on what they write, cited by every part. `CapHoldsOneByOne` shows
what the cap depends on: while no two requests are between the comparison and the
registration (`OneAdmission`), the place a request was admitted for is still free
(`PlaceIsFree`). The only assumption is `SizesAssumption`.

`IdleWatchdogProofs` proves, for any times of which the poll and the number of
errors are positive (a ceiling of 0, which the configuration allows, is among
them; the instance of TLC has a positive one):

| theorem | property |
|---|---|
| `TypeCorrect` | `WdTypeOK` |
| `LifetimesAreBounded` | `LifetimeBounded` |
| `SilenceIsAlwaysNoticed` | `SilenceIsNoticed` |
| `AsksAreNoticed` | `AskIsNoticed` |
| `IdleKillsAreIdle` | `IdleKillIsIdle` |
| `StepsAreSupervised` | the initial states and the steps of `SupervisesTheClient` |
| `AsksOneByOneAreRecorded` | `UnansweredIsRecorded`, which the code does not keep, for asks that come one by one |

The bounds of the properties speak of the present; its invariant speaks of the
polls. `Deadlines` bounds the end of each wait and says that none is passed;
`LastPolls` that what the log has past the offset was written since the poll
before, and that the growth on record is at most one poll older than the log, and that no
stream which is read has printed after the last line noted;
`NotSilent` and `AskOnRecord` what the next poll will find, seen from the last
one. `AsksOneByOneAreRecorded` needs none of them: while no two asks wait at
once, the one that waits is the last of the log, and is past the offset or on
record (`LastAskOnRecord`). `TimesAssumption` and `LogAssumption` are all that is assumed.

`RunSupervisionProofs` proves, for any reasons of a kill, anything a client may
print, and any number of failures and restarts:

| theorem | property |
|---|---|
| `TypeCorrect` | `TypeOK` |
| `ReportsComeAfterTheEnd` | `ReportedIsOver` |
| `ZeroWorkVerdictsAreTrue` | `ZeroWorkIsTrue` |
| `CompletedRunsClose` | `CompletedIsClosed` |
| `ReportsAlwaysAgree` | `ReportsAgree` |
| `UnfinishedIsExplained` | `RunningIsExplained` |
| `KilledAndFailedIsReported` | `KilledIsReported`, which the code does not keep, for clients that exit with another status than 0 |

Its invariant follows the stages: the supervision is done without a client
(`Over`), which verdicts there are at each stage (`Judged`) and what was filed
when the file was read (`Read`), what has been reported (`Reported`), that a run
which passed the probe has closed its issue (`Probed`), and what the manifest is
at each stage (`Written`). It assumes `FaultsAssumption`, `ScriptsAssumption` and
`ReasonsAreOwn`, that no reason of a kill is called like an outcome. Together with
`StepsAreSupervised` this covers the chain from a poll of the watchdog to the
comment on the issue.

`RunNarrativeProofs` proves, for every text:

| theorem | what it states |
|---|---|
| `FeedIsComplete` | `Events(text)` has one event for each listed line, in order, of its kind, numbered from 1 |
| `TimelineOfText` | `Faithful(Timeline(Events(text)), Events(text))` |
| `OneFaithfulTimeline` | no other sequence of entries is faithful to the same events |

What a recursive function computes takes an induction, and the library's induction
theorems have an operator as parameter. Here a predicate is the set of the numbers
that satisfy it: `LeastOfNaturals`, that a set of naturals which is not empty has a
least element, is an instance of the library's `WFMin`, and `InductionUpTo` follows
from it. `RecursionUp` and `RecursionDown` show that a function with the given
equations exists, so that the `CHOOSE` behind a recursive definition satisfies
them; `EventsLineByLine` and `TimelineEntryByEntry` are these equations for the
two functions. `FeedGoesOn` is the step of the induction over the lines,
`OneMoreEntry` that of the one over the entries, from the last event backwards.
`OneFaithfulTimeline` says that `Faithful` is no weaker than the function: it is a
full specification of `_group_timeline`.

`RunViewsProofs` proves, for any number of requests and any time to live:

| theorem | property |
|---|---|
| `LookedAtRunsAreRuns` | every behaviour of `RunViews` is one of `RunSupervision` |
| `ViewsTypeCorrect` | `ViewTypeOK` |
| `ViewsCatchUp` | `ViewCatchesUp` |
| `EndedViewsAreTrue` | `EndedViewIsTrue` |
| `ZeroWorkViewsShowNoWork` | `ZeroWorkViewShowsNoWork` |
| `TimelinesAreFaithful` | `TimelineIsFaithful` |

The first theorem brings the invariant of the run along. The rest adds that an
end which a request has read is the manifest's (`Seen`), that what says running
was read at least as long ago as the manifest has had an end (`Early`, which is
where the stamp matters), and that the entry shows the end there is and, for a
clean exit, all that was printed (`Stored`). Three lemmas carry it: `EndsShow`
(each end has a status of its own), `EndsAreJudged` (a manifest with an end is
one of a run that was judged), `RunKeeps` (nothing that was read is taken back by
a later step of the run). `TimelinesAreFaithful` is
`TimelineOfText` for what has been printed so far and for the texts of the
constants. `ViewsAssumption` is added to the assumptions.

`WebhooksProofs` proves, for any senders, labels, bounds and sizes:

| theorem | property |
|---|---|
| `TypeCorrect` | `TypeOK` |
| `VerbatimRunsAreTrusted` | `VerbatimIsTrusted` |
| `RecordsStayTrue` | `RecordsAreTrue` |
| `UnlinkedAreExplained` | `UnlinkedIsExplained` |
| `WorkspacesAreSound` | `WorkspaceIsSound` |
| `WholeStaysWhole` | `SettledStays` |

Its invariant adds that a receipt that has begun has a delivery that was sent
(`Assigned`); that whoever is past the gate passed it, runs included (`Gated`);
that the file is what memory is unless a write failed (`FileCurrent`); and, for
the workspace, where the only preparation is and what the directory holds there
(`Sound`, with `InPlace` for each step). `Save` and `Restart` have lemmas on what
they do to one record. `SettledStays` is about two moments; it follows from a
state predicate, `Settled`, that every step preserves once it holds, which says
that a whole workspace in which nobody is past `Look` on the way to a clone stays
as it is. `LabelsAssumption` and `SizesAssumption` are all that is assumed.

Only model-checked: all liveness (`PickupEnds`, `DrainedOrHalted`, `EmitEnds`,
`EveryRunIsReported`, `EveryAcceptedIsDispatched`, the fairness half of
`SupervisesTheClient`), which is out of the prover's reach. Every invariant
and every action property of a passing run is proved.

Four theorems are about properties that section 5 shows violated: each gives a
condition under which the code does what is said of it, and so what a repair has
to take care of. The other three have none: `DrainsTheDAG` is liveness, the
session a watchdog aborts is simply the first one it reads of, and what ignores
SIGTERM is not looked at again.

## 4. What is abstracted

Texts: prompts, comments, log lines and events are kinds, not strings; which
regular expression matches a line is not checked. The number of retries in
prompts and the logs handed to the next attempt are left out. Rotation of the
server log and lines that a poll cuts in two are not in `IdleWatchdog`.

In `RunSupervision` and `RunViews`: the client of a stopped receiver is gone, as
both live in one container, and what its session goes on to do at the server no
longer concerns the report; a line of stderr is filed whole, as the reader
flushes each; the narrative reads the whole file, where the code reads its last
10000 lines; the offsets, durations, wording and counts of a narrative are left
out, and so is what the request that computed an entry answers its own caller.
The manifest of the start is written before the run is watched, so that it is
there, absent or torn in the initial state.

In `Webhooks`: every delivery has an id; the retention is any number of oldest
records dropped at a start; two receptions at the same time, or with the clock
set back, keep the order in which they came; names, slugs, branches and URLs are
only told apart where the gate and the workspace tell them apart, so two
repositories that map to the same slug are not in it, nor is the refusal to
dispatch into the workspace root, which no slug reaches; a sync changes no more
of the workspace than the model can see, that is nothing.

## 5. Disagreements between the code and what is said of it

| run | what is said | what the code does |
|---|---|---|
| `loop_drain` | `beads_loop.py:63`: "drains the Beads DAG for every project" | a halted bead that is chosen first keeps all other ready beads of its project waiting |
| `loop_work` | `bead_context.py:47`: push and pull request follow a close | a failed push is logged, and the branch with the only copy is deleted; without any failure the same happens when somebody closes the bead after it was found open |
| `watchdog_ask` | `watchdog.py:172`: "records the most recent unanswered ask" | any later reply clears it, whichever ask it answers |
| `watchdog_session` | `watchdog.py:278`: "never a concurrent dispatch's session" | two dispatches of one project share the directory by which sessions are told apart |
| `watchdog_group` | `docs/orchestrator-run-logs.md:70`: children "don't outlive the run" | only the client is waited for; SIGKILL is not sent once it is gone |
| `runs_killed` | `runner.py:509`: a failure comment on a "killed" exit | a killed client that exits with 0 is reported as if it had not been killed |
| `events_cap` | `docs/dashboard.md:26`: "capped at 10 concurrent subscribers" | the cap is compared before anything is registered, so requests that arrive together all pass |

## 6. Plan

1. Done: `BeadsLoop`, `Supervisor`, `IdleWatchdog`, `RunStream`,
   `RunSupervision`, `RunNarrative`, `RunViews`, `EventStore`, `Webhooks`, their
   runs, and the theorems above.
2. The last events of the BeadsLoop: which pickups have an end in the feed.
3. `Webhooks` composed with `Supervisor`: two runs of one repository in one
   workspace.
4. Log lines that a poll of the watchdog cuts in two.

Not modelled, and why: settings, prompts and the GitHub client, the simulator,
the images and the operator scripts are configuration, text or sequential I/O
without state of their own; the dashboard's other views read what the modelled
components write.
