-------------------------------- MODULE Webhooks --------------------------------
(***************************************************************************)
(* The webhook endpoint: deliveries of one repository's issue events, the  *)
(* gate that decides on them, the store that remembers what was decided,   *)
(* and the background dispatch, which clones or initialises the workspace  *)
(* of the repository and starts a run in it.                               *)
(*                                                                         *)
(* GitHub may deliver an event late, out of order or again, with the same  *)
(* delivery id.  A receipt is one arrival; the handler works on one at a   *)
(* time, the background tasks run in a pool of threads and share the       *)
(* workspace without a lock.  A restart loses them and the memory.         *)
(***************************************************************************)
EXTENDS Naturals, Sequences, FiniteSets, Functions

CONSTANTS
  Senders, Bots, AllowedSenders,       \* DIRECT_BODY_ALLOWED_SENDERS
  Labels, WorkflowLabels, DirectBody,  \* labels of the issue
  WithoutUrl,      \* deliveries whose payload has no valid clone URL
  MaxDeliveries, MaxReceipts, MaxRestarts, MaxFaults,  \* bounds
  MaxStored,       \* max_events of the store
  Workers          \* threads for background tasks

ASSUME LabelsAssumption ==
  WorkflowLabels \subseteq Labels /\ DirectBody \in WorkflowLabels
ASSUME SizesAssumption ==
  /\ MaxDeliveries \in Nat /\ MaxReceipts \in Nat
  /\ MaxRestarts \in Nat /\ MaxFaults \in Nat
  /\ MaxStored \in Nat \ {0} /\ Workers \in Nat \ {0}

VARIABLES
  onIssue,     \* the labels the issue has
  sent,        \* the payloads of the deliveries, by delivery
  at, of,      \* where each receipt is, and its delivery
  stored, rec, \* the store: deliveries by received_ts, and their records
  file,        \* webhooks.json
  dir,         \* the workspace of the repository
  cloner,      \* the receipt whose git clone works in it
  ensured,     \* history: receipts whose workspace was prepared without error
  started,     \* history: receipts whose run was started
  overlapped,  \* history: two preparations went on at once
  cutShort,    \* history: a git clone or init ended half way and left its .git
  unsaved,     \* history: webhooks.json could not be written
  restarts, faults  \* faults that may still happen

store  == <<stored, rec, file, unsaved>>
space  == <<dir, cloner, cutShort>>
github == <<onIssue, sent>>
vars   == <<github, at, of, store, space, ensured, started, overlapped, restarts, faults>>

Deliveries == 1..MaxDeliveries
Receipts   == 1..MaxReceipts
Payloads   == [labeled : BOOLEAN, sender : Senders, label : Labels, labels : SUBSET Labels]
Records    == [decision : {"none", "pending", "denied", "allowed"}, known : BOOLEAN,
               stem : Receipts \cup {0}]

InHandler == {"received", "allowed"}
Preparing == {"look", "clear", "clone", "cloning", "mkdir", "init", "exclude", "sync"}
InPool    == Preparing \cup {"start", "record"}
Underway  == InHandler \cup InPool \cup {"queued"}
Over      == {"ignored", "done", "failed", "lost"}

Absent == [decision |-> "none", known |-> FALSE, stem |-> 0]

\* What is in the directory: "cloning" and "broken" have a .git that is not, or
\* not yet, that of a repository.
HasGit == {"cloning", "broken", "cloned", "initialised"}
Whole  == {"cloned", "initialised"}

TypeOK ==
  /\ onIssue \subseteq Labels
  /\ sent \in Seq(Payloads) /\ Len(sent) <= MaxDeliveries
  /\ at \in [Receipts -> {"none"} \cup Underway \cup Over]
  /\ of \in [Receipts -> Deliveries \cup {0}]
  /\ stored \in Seq(Deliveries) /\ Len(stored) <= MaxStored
  /\ rec \in [Deliveries -> Records]
  /\ file.stored \in Seq(Deliveries) /\ Len(file.stored) <= MaxStored
  /\ file.rec \in [Deliveries -> Records]
  /\ dir \in {"absent", "empty"} \cup HasGit
  /\ cloner \in Receipts \cup {0}
  /\ ensured \subseteq Receipts /\ started \subseteq Receipts
  /\ overlapped \in BOOLEAN /\ cutShort \in BOOLEAN /\ unsaved \in BOOLEAN
  /\ restarts \in 0..MaxRestarts /\ faults \in 0..MaxFaults

\* The volume may hold a repository of an earlier life of the receiver.
Init ==
  /\ onIssue = {} /\ sent = << >>
  /\ at = [t \in Receipts |-> "none"] /\ of = [t \in Receipts |-> 0]
  /\ stored = << >> /\ rec = [d \in Deliveries |-> Absent]
  /\ file = [stored |-> << >>, rec |-> rec]
  /\ dir \in {"absent"} \cup Whole /\ cloner = 0
  /\ ensured = {} /\ started = {}
  /\ overlapped = FALSE /\ cutShort = FALSE /\ unsaved = FALSE
  /\ restarts = 0 /\ faults = MaxFaults

Go(t, from, to) == at[t] = from /\ at' = [at EXCEPT ![t] = to]

----------------------------------------------------------------------------
(* GitHub. *)

\* Somebody labels the issue, or takes a label away; the payload has the label
\* and what the issue's labels are then.
IssueChanges(labeled, sender, label) ==
  /\ Len(sent) < MaxDeliveries
  /\ onIssue' = IF labeled THEN onIssue \cup {label} ELSE onIssue \ {label}
  /\ sent' = Append(sent, [labeled |-> labeled, sender |-> sender, label |-> label,
                           labels |-> onIssue'])
  /\ UNCHANGED <<at, of, store, space, ensured, started, overlapped, restarts, faults>>

----------------------------------------------------------------------------
(* The store.  record() runs under the store's lock. *)

\* _persist replaces the file in one step; an OSError leaves it as it was.
Persist ==
  \/ file' = [stored |-> stored', rec |-> rec'] /\ UNCHANGED <<unsaved, faults>>
  \/ /\ faults > 0 /\ faults' = faults - 1
     /\ unsaved' = TRUE /\ UNCHANGED file

\* The record that is there, or a new one.
Found(d) ==
  IF rec[d].decision = "none" THEN [Absent EXCEPT !.decision = "pending"] ELSE rec[d]
Listed(d) == IF rec[d].decision = "none" THEN Append(stored, d) ELSE stored

\* BROKEN: the cap is left to the next start.
SaveUncapped(d, r) ==
  /\ stored' = Listed(d)
  /\ rec' = [rec EXCEPT ![d] = r]
  /\ Persist
\* _enforce_cap: at most one record is too many, and the oldest goes.
Save(d, r) ==
  LET over == Len(Listed(d)) > MaxStored
  IN  /\ stored' = IF over THEN Tail(Listed(d)) ELSE Listed(d)
      /\ rec' = IF over THEN [rec EXCEPT ![d] = r, ![Head(Listed(d))] = Absent]
                        ELSE [rec EXCEPT ![d] = r]
      /\ Persist

----------------------------------------------------------------------------
(* The gate. *)

\* BROKEN: only the label that was added is looked at.
ShouldDispatchByTrigger(p) ==
  /\ p.labeled /\ p.sender \notin Bots
  /\ p.label \in WorkflowLabels
  /\ p.label = DirectBody => p.sender \in AllowedSenders
\* should_dispatch: issues.labeled, by a person, with a workflow label; and if the
\* issue has the direct-body label, by somebody on the list, which may be empty.
ShouldDispatch(p) ==
  /\ p.labeled /\ p.sender \notin Bots
  /\ p.label \in WorkflowLabels
  /\ DirectBody \in p.labels \cup {p.label} => p.sender \in AllowedSenders

----------------------------------------------------------------------------
(* The handler.  It does not await after it has read the body, so receipts are
   handled one after the other, but background tasks run in between. *)

\* Size, signature, ping and JSON checks change nothing when they refuse.  The
\* receipt numbers are taken in order.
Receive(t, d) ==
  /\ at[t] = "none" /\ \A u \in 1..t - 1 : at[u] # "none"
  /\ \A u \in Receipts : at[u] \notin InHandler
  /\ at' = [at EXCEPT ![t] = "received"]
  /\ of' = [of EXCEPT ![t] = d]
  /\ Save(d, [Found(d) EXCEPT !.known = TRUE])
  /\ UNCHANGED <<github, space, ensured, started, overlapped, restarts>>

Deny(t) ==
  /\ Go(t, "received", "ignored")
  /\ ~ShouldDispatch(sent[of[t]])
  /\ Save(of[t], [Found(of[t]) EXCEPT !.decision = "denied"])
  /\ UNCHANGED <<github, of, space, ensured, started, overlapped, restarts>>

Allow(t) ==
  /\ Go(t, "received", "allowed")
  /\ ShouldDispatch(sent[of[t]])
  /\ Save(of[t], [Found(of[t]) EXCEPT !.decision = "allowed"])
  /\ UNCHANGED <<github, of, space, ensured, started, overlapped, restarts>>

\* The prompt is built, the task added and 202 answered.
Accept(t) ==
  /\ Go(t, "allowed", "queued")
  /\ UNCHANGED <<github, of, store, space, ensured, started, overlapped, restarts, faults>>

\* No prompt template, or no path: the handler raises.
AcceptFails(t) ==
  /\ faults > 0 /\ faults' = faults - 1
  /\ Go(t, "allowed", "failed")
  /\ UNCHANGED <<github, of, store, space, ensured, started, overlapped, restarts>>

----------------------------------------------------------------------------
(* _safe_dispatch, in a thread of the pool: the workspace. *)

PreparingNow == {t \in Receipts : at[t] \in Preparing}

Begin(t) ==
  /\ Cardinality({u \in Receipts : at[u] \in InPool}) < Workers
  /\ Go(t, "queued", IF of[t] \in WithoutUrl THEN "mkdir" ELSE "look")
  /\ overlapped' = (overlapped \/ PreparingNow # {})
  /\ UNCHANGED <<github, of, store, space, ensured, started, restarts, faults>>

Prepared == UNCHANGED <<github, of, store, ensured, started, overlapped, restarts>>

\* BROKEN: a directory is taken for a clone.
LookAtDirectory(t) ==
  /\ Go(t, "look", IF dir = "absent" THEN "clear" ELSE "exclude")
  /\ Prepared /\ UNCHANGED <<space, faults>>
\* BROKEN: every delivery clones anew.
LookAway(t) == Go(t, "look", "clear") /\ Prepared /\ UNCHANGED <<space, faults>>
\* ensure_project_from_clone: a .git is taken for a clone.
Look(t) ==
  /\ Go(t, "look", IF dir \in HasGit THEN "exclude" ELSE "clear")
  /\ Prepared /\ UNCHANGED <<space, faults>>

\* Whatever is there by now is removed.
Clear(t) ==
  /\ Go(t, "clear", "clone")
  /\ dir' = "absent"
  /\ Prepared /\ UNCHANGED <<cloner, cutShort, faults>>

CloneBegins(t) ==
  /\ dir \in {"absent", "empty"}
  /\ Go(t, "clone", "cloning")
  /\ dir' = "cloning" /\ cloner' = t
  /\ Prepared /\ UNCHANGED <<cutShort, faults>>

\* git does not clone into a directory that is not empty.
CloneRefused(t) ==
  /\ dir \notin {"absent", "empty"}
  /\ Go(t, "clone", "start")
  /\ Prepared /\ UNCHANGED <<space, faults>>

OwnClone(t) == dir = "cloning" /\ cloner = t

CloneEnds(t) ==
  /\ OwnClone(t)
  /\ Go(t, "cloning", "exclude")
  /\ dir' = "cloned" /\ cloner' = 0
  /\ Prepared /\ UNCHANGED <<cutShort, faults>>

\* A git clone that fails, or whose directory was removed, mostly removes what is at
\* its path.
CloneFails(t) ==
  /\ OwnClone(t) => faults > 0
  /\ faults' = IF OwnClone(t) THEN faults - 1 ELSE faults
  /\ Go(t, "cloning", "start")
  /\ dir' \in {"absent", "empty"}
  /\ Prepared /\ UNCHANGED <<cloner, cutShort>>

\* It leaves its .git when it is killed, or when only the checkout fails.
CloneBreaks(t) ==
  /\ faults > 0 /\ faults' = faults - 1
  /\ Go(t, "cloning", "start")
  /\ dir' = IF OwnClone(t) THEN "broken" ELSE dir
  /\ cutShort' = (cutShort \/ OwnClone(t))
  /\ Prepared /\ UNCHANGED cloner

\* init_project_workspace.
MakeDirectory(t) ==
  /\ Go(t, "mkdir", "init")
  /\ dir' = IF dir = "absent" THEN "empty" ELSE dir
  /\ Prepared /\ UNCHANGED <<cloner, cutShort, faults>>

InitRepository(t) ==
  /\ dir # "absent"
  /\ Go(t, "init", "exclude")
  /\ dir' = IF dir = "empty" THEN "initialised" ELSE dir
  /\ Prepared /\ UNCHANGED <<cloner, cutShort, faults>>

InitRefused(t) ==
  /\ dir = "absent"
  /\ Go(t, "init", "start")
  /\ Prepared /\ UNCHANGED <<space, faults>>

\* _ensure_worktrees_excluded makes .git/info where there is none.
Exclude(t) ==
  /\ Go(t, "exclude", IF of[t] \in WithoutUrl THEN "start" ELSE "sync")
  /\ dir' = IF dir \in HasGit THEN dir ELSE "broken"
  /\ ensured' = ensured \cup {t}
  /\ UNCHANGED <<github, of, store, cloner, cutShort, started, overlapped, restarts, faults>>

\* sync_project: fetch, checkout and pull, none of which is known to succeed.
Sync(t) == Go(t, "sync", "start") /\ Prepared /\ UNCHANGED <<space, faults>>

\* What a step that fails has done by then: a git init has made its .git, or a removal
\* has removed some of what another task has put there since Look.
HalfDone(t) ==
  \/ UNCHANGED space
  \/ /\ at[t] = "init" /\ dir = "empty"
     /\ dir' = "broken" /\ cutShort' = TRUE /\ UNCHANGED cloner
  \/ /\ at[t] = "clear" /\ dir \in HasGit
     /\ dir' = "broken" /\ UNCHANGED <<cloner, cutShort>>

PrepareFailsTo(t, next) ==
  /\ at[t] \in {"clear", "mkdir", "init", "exclude"}
  /\ faults > 0 /\ faults' = faults - 1
  /\ at' = [at EXCEPT ![t] = next]
  /\ HalfDone(t) /\ Prepared
\* BROKEN: the exception ends the task.
PrepareFailsForGood(t) == PrepareFailsTo(t, "failed")
\* Any other exception is logged, and the dispatch goes on.
PrepareFails(t) == PrepareFailsTo(t, "start")

----------------------------------------------------------------------------
(* _safe_dispatch: the run. *)

StartRun(t) ==
  /\ Go(t, "start", "record")
  /\ started' = started \cup {t}
  /\ UNCHANGED <<github, of, store, space, ensured, overlapped, restarts, faults>>

StartFailsTo(t, next) ==
  /\ faults > 0 /\ faults' = faults - 1
  /\ Go(t, "start", next)
  /\ UNCHANGED <<github, of, store, space, ensured, started, overlapped, restarts>>
\* BROKEN: the failure is not noticed.
StartFailsUnnoticed(t) == StartFailsTo(t, "record")
\* dispatch_to_opencode raises: no run, and no record of it.
StartFails(t) == StartFailsTo(t, "failed")

\* BROKEN: the run is not linked.
RecordNoRun(t) ==
  /\ Go(t, "record", "done")
  /\ UNCHANGED <<github, of, store, space, ensured, started, overlapped, restarts, faults>>
\* The record may have been evicted since; then it is made anew, without the fields
\* of its receipt.
RecordRun(t) ==
  /\ Go(t, "record", "done")
  /\ Save(of[t], [Found(of[t]) EXCEPT !.decision = "allowed", !.stem = t])
  /\ UNCHANGED <<github, of, space, ensured, started, overlapped, restarts>>

----------------------------------------------------------------------------
(* A restart of the container: every thread and every git ends. *)

\* WebhookStore.__init__ loads the file, drops what is older than the retention, n
\* records say, and writes it again.
Reload(n) ==
  /\ stored' = SubSeq(file.stored, n + 1, Len(file.stored))
  /\ rec' = [d \in Deliveries |-> IF d \in Range(stored') THEN file.rec[d] ELSE Absent]
  /\ Persist

\* A git is making the .git.
HalfWay == dir = "cloning" \/ (dir = "empty" /\ \E t \in Receipts : at[t] = "init")

Restart ==
  /\ restarts < MaxRestarts /\ restarts' = restarts + 1
  /\ at' = [t \in Receipts |-> IF at[t] \in Underway THEN "lost" ELSE at[t]]
  /\ \E n \in 0..Len(file.stored) : Reload(n)
  /\ \/ dir # "cloning" /\ UNCHANGED <<dir, cutShort>>
     \/ HalfWay /\ dir' = "broken" /\ cutShort' = TRUE
  /\ cloner' = 0
  /\ UNCHANGED <<github, of, ensured, started, overlapped>>

----------------------------------------------------------------------------

HandlerStep(t) == Deny(t) \/ Allow(t) \/ Accept(t) \/ AcceptFails(t)
CloneStep(t) ==
  \/ Look(t) \/ Clear(t) \/ CloneBegins(t) \/ CloneRefused(t) \/ CloneEnds(t)
  \/ CloneFails(t) \/ CloneBreaks(t)
PrepareStep(t) ==
  \/ CloneStep(t) \/ MakeDirectory(t) \/ InitRepository(t) \/ InitRefused(t)
  \/ Exclude(t) \/ Sync(t) \/ PrepareFails(t)
RunStep(t) == StartRun(t) \/ StartFails(t) \/ RecordRun(t)
Step(t) == HandlerStep(t) \/ Begin(t) \/ PrepareStep(t) \/ RunStep(t)

Next ==
  \/ \E labeled \in BOOLEAN, s \in Senders, l \in Labels : IssueChanges(labeled, s, l)
  \/ \E t \in Receipts : (\E d \in 1..Len(sent) : Receive(t, d)) \/ Step(t)
  \/ Restart

\* The handler and the threads of the pool go on, and every git ends: there is no
\* timeout on git, so that is an assumption on it.
Spec == Init /\ [][Next]_vars /\ \A t \in Receipts : WF_vars(Step(t))

----------------------------------------------------------------------------
(* Properties. *)

\* A run whose issue has the direct-body label, and may therefore execute the
\* issue's body, was triggered by somebody on the list, whichever label it was that
\* triggered it and whenever the first one was put there.
VerbatimIsTrusted ==
  \A t \in started : DirectBody \in sent[of[t]].labels => sent[of[t]].sender \in AllowedSenders

\* Its handler is about to decide on the delivery, or was stopped from doing so.
Awaited(d) ==
  restarts > 0 \/ unsaved \/ \E t \in Receipts : at[t] = "received" /\ of[t] = d

\* What memory and file say of a delivery is so: it was decided as the gate decides,
\* and the run it links to was started, for this delivery.  It is pending only while
\* its handler is there, or after a restart.
TrueOf(d, r) ==
  /\ r.decision = "denied" => ~ShouldDispatch(sent[d])
  /\ r.decision = "allowed" => ShouldDispatch(sent[d])
  /\ r.stem # 0 => r.decision = "allowed" /\ r.stem \in started /\ of[r.stem] = d
  /\ r.decision = "pending" => Awaited(d)
RecordsAreTrue ==
  \A d \in Deliveries : TrueOf(d, rec[d]) /\ TrueOf(d, file.rec[d])

\* A delivery that shows as allowed, but without a run, is still on its way, or its
\* dispatch failed or was lost; unless a link could not be written and was forgotten.
UnlinkedIsExplained ==
  \A d \in Deliveries : rec[d].decision = "allowed" /\ rec[d].stem = 0 =>
    \/ unsaved
    \/ \E t \in Receipts : of[t] = d /\ at[t] \in Underway \cup {"failed", "lost"}

\* As long as no two preparations have met and no git has ended half way, by a restart
\* or otherwise, a workspace that was prepared without an error is a whole repository,
\* for good, whatever else failed before and after.  A .git that was left half way is
\* taken for a clone by every later delivery.
WorkspaceIsSound ==
  \/ overlapped \/ cutShort
  \/ dir # "broken" /\ (ensured # {} => dir \in Whole)

\* A repository that is whole while no preparation is going on is never harmed by
\* one again, not even by two that meet, nor by a restart.
SettledStays == [](dir \in Whole /\ PreparingNow = {} => [](dir \in Whole))

\* Whatever happens to the workspace, an accepted delivery comes to the start of its
\* run, unless the receiver is restarted.
EveryAcceptedIsDispatched ==
  \A t \in Receipts : at[t] = "queued" ~> at[t] \in {"start", "lost"}
================================================================================
