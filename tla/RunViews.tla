------------------------------- MODULE RunViews -------------------------------
(***************************************************************************)
(* The dashboard's narrative of one run, beside the run.  Every request is *)
(* answered in a thread of its own, from a cache in memory whose entry     *)
(* lives for TTL; a request that finds none reads the manifest, then the   *)
(* .stderr file, which the run goes on writing, and stores what it made of *)
(* them under the time at which it looked into the cache.  Nothing keeps   *)
(* two requests from doing so at once.                                     *)
(*                                                                         *)
(* Time is in the ages of things, each counted up to TTL.                  *)
(***************************************************************************)
EXTENDS RunSupervision, RunNarrative

CONSTANTS
  Requests,  \* what can be in flight at once
  TTL,       \* _CACHE_TTL
  Texts,     \* the texts a timeline is checked of
  Looks      \* bound on the requests

ASSUME ViewsAssumption == TTL \in Nat \ {0} /\ Looks \in Nat /\ Texts \subseteq Seq(Line)

VARIABLES
  request,   \* where each request is, what it has read, and how old it is
  entry,     \* the cache's entry: what a narrative says, and how old it is
  endAge,    \* how long the manifest has had an end, 0 before
  looks      \* requests left

views    == <<request, entry, endAge, looks>>
viewVars == <<vars, views>>

Ages      == 0..TTL
Idle      == [at |-> "idle", age |-> 0, status |-> "running"]
\* An entry that is not there serves as little as one that is too old.
NoEntry   == [age |-> TTL, status |-> "running", lines |-> 0]

ViewTypeOK ==
  /\ request \in [Requests -> [at : {"idle", "manifest", "logs"}, age : Ages, status : Statuses]]
  /\ entry \in [age : Ages, status : Statuses, lines : Nat]
  /\ endAge \in Ages
  /\ looks \in 0..Looks

ViewInit ==
  /\ Init
  /\ request = [r \in Requests |-> Idle]
  /\ entry = NoEntry
  /\ endAge = 0
  /\ looks \in 0..Looks

Older(age) == IF age < TTL THEN age + 1 ELSE age

----------------------------------------------------------------------------
(* A request: _run_narrative_for and _cached.                              *)

\* BROKEN: an entry serves to the end of its last tick.
FreshOrDue(e) == e.age <= TTL
Fresh(e) == e.age < TTL

\* The entry is served, or the narrative is computed.
Look(r) ==
  /\ request[r].at = "idle" /\ looks > 0
  /\ looks' = looks - 1
  /\ IF Fresh(entry) THEN UNCHANGED request
     ELSE request' = [request EXCEPT ![r] = [Idle EXCEPT !.at = "manifest"]]
  /\ UNCHANGED <<vars, entry, endAge>>

ReadManifest(r) ==
  /\ request[r].at = "manifest"
  /\ request' = [request EXCEPT ![r].at = "logs", ![r].status = StatusOf(manifest)]
  /\ UNCHANGED <<vars, entry, endAge, looks>>

Store(r, age, status) ==
  /\ request[r].at = "logs"
  /\ entry' = [age |-> age, status |-> status, lines |-> filed]
  /\ request' = [request EXCEPT ![r] = Idle]
  /\ UNCHANGED <<vars, endAge, looks>>

\* BROKEN: the entry is as old as its storing.
StoreAsNew(r) == Store(r, 0, request[r].status)
\* The logs are read and the narrative stored, as of the time of the look.
StoreNarrative(r) == Store(r, request[r].age, request[r].status)

Tick ==
  /\ request' = [r \in Requests |-> IF request[r].at = "idle" THEN Idle
                                    ELSE [request[r] EXCEPT !.age = Older(@)]]
  /\ entry' = [entry EXCEPT !.age = Older(@)]
  /\ endAge' = IF Ended(manifest) THEN Older(endAge) ELSE endAge
  /\ UNCHANGED <<vars, looks>>

----------------------------------------------------------------------------

\* The cache and the requests do not survive the receiver.
RunRestarts ==
  /\ Restart
  /\ request' = [r \in Requests |-> Idle]
  /\ entry' = NoEntry
  /\ UNCHANGED <<endAge, looks>>

RunGoesOn == RunStep /\ UNCHANGED views

ViewStep == \E r \in Requests : Look(r) \/ ReadManifest(r) \/ StoreNarrative(r)

ViewNext == RunGoesOn \/ RunRestarts \/ ViewStep \/ Tick

ViewSpec == ViewInit /\ [][ViewNext]_viewVars /\ Fairness

----------------------------------------------------------------------------
(* Properties.                                                             *)

\* Once the manifest has had an end for the time to live, the cache serves nobody a
\* narrative that says the run goes on, however slowly it was computed and in
\* whatever order two requests stored theirs.
ViewCatchesUp == endAge = TTL /\ Fresh(entry) => Ended(manifest) /\ entry.status = StatusOf(manifest)

\* A narrative that shows an end shows the one the run came to; that of a run that
\* exited with 0 has every line it printed, unless its reader stopped early or was
\* not waited for.
EndedViewIsTrue ==
  entry.status # "running" =>
    /\ client # "running" /\ entry.status = StatusOf(Classification)
    /\ entry.status \in {"zero_work", "incomplete", "completed"} /\ reading /\ ~cutShort =>
         entry.lines = printed

\* The classifier and the feed decode the same file: a narrative of a zero-work run
\* lists no execution tool, unless the reader was not waited for.
ZeroWorkViewShowsNoWork ==
  entry.status = "zero_work" /\ ~cutShort =>
    \A i \in 1..entry.lines : Listed(script[i]) => script[i].token # "execution"

\* Nothing is lost, repeated, moved or mixed up on the way to the timeline of a text.
TextsAreFaithful == \A text \in Texts : Faithful(Timeline(Events(text)), Events(text))

\* The timeline of a run's stderr, and of any of the texts, is a faithful one.
TimelineIsFaithful == TextsAreFaithful /\ Faithful(Timeline(Events(Filed)), Events(Filed))
============================================================================
