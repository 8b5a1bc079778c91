------------------------------ MODULE Dispatcher ------------------------------
(***************************************************************************)
(* What the BeadsLoop comes to, without projects, scans, plans, worktrees  *)
(* and br: one worker that takes one open and unblocked bead at a time,    *)
(* starts at most one agent for it, publishes what became of it at most    *)
(* once, counts a failure or gives the bead up, and puts it back.          *)
(* BeadsLoop implements it.                                                *)
(***************************************************************************)
EXTENDS Naturals

CONSTANTS Keys, Blockers, MaxRetries, NoBead

VARIABLES
  hand,      \* the bead the worker has, or NoBead
  progress,  \* how far it is with it: none, taken, started, published, over
  failed,    \* attempts at a bead that failed
  spent,     \* agents started for a bead since the receiver started
  givenUp,   \* beads that are not taken any more
  done,      \* beads that are closed
  published  \* beads whose branch is at the origin

vars == <<hand, progress, failed, spent, givenUp, done, published>>

Init ==
  /\ hand = NoBead /\ progress = "none"
  /\ failed = [k \in Keys |-> 0] /\ spent = [k \in Keys |-> 0]
  /\ givenUp = {} /\ done = {} /\ published = {}

Take(k) ==
  /\ progress = "none"
  /\ k \notin done \cup givenUp /\ Blockers[k] \subseteq done
  /\ hand' = k /\ progress' = "taken"
  /\ UNCHANGED <<failed, spent, givenUp, done, published>>

\* Every agent started for the bead before counts as a failure.
Start ==
  /\ progress = "taken"
  /\ spent[hand] <= failed[hand] /\ failed[hand] < MaxRetries
  /\ spent' = [spent EXCEPT ![hand] = @ + 1]
  /\ progress' = "started"
  /\ UNCHANGED <<hand, failed, givenUp, done, published>>

Fail ==
  /\ progress \in {"taken", "started"} /\ failed[hand] < MaxRetries
  /\ failed' = [failed EXCEPT ![hand] = @ + 1]
  /\ progress' = "over"
  /\ UNCHANGED <<hand, spent, givenUp, done, published>>

\* Nothing was started, and nothing is counted.
Drop ==
  /\ progress = "taken" /\ progress' = "over"
  /\ UNCHANGED <<hand, failed, spent, givenUp, done, published>>

GiveUp ==
  /\ progress = "taken" /\ failed[hand] = MaxRetries
  /\ givenUp' = givenUp \cup {hand}
  /\ progress' = "over"
  /\ UNCHANGED <<hand, failed, spent, done, published>>

Publish ==
  /\ progress = "started" /\ hand \in done \ published
  /\ published' = published \cup {hand}
  /\ progress' = "published"
  /\ UNCHANGED <<hand, failed, spent, givenUp, done>>

\* Its failures are forgotten, whether it could be published or not.
Settle ==
  /\ progress \in {"started", "published"} /\ hand \in done
  /\ failed' = [failed EXCEPT ![hand] = 0]
  /\ progress' = "over"
  /\ UNCHANGED <<hand, spent, givenUp, done, published>>

PutBack ==
  /\ progress = "over"
  /\ hand' = NoBead /\ progress' = "none"
  /\ UNCHANGED <<failed, spent, givenUp, done, published>>

\* By the agent or by anybody else, but not before what blocks it.
Close(k) ==
  /\ k \notin done /\ Blockers[k] \subseteq done
  /\ done' = done \cup {k}
  /\ UNCHANGED <<hand, progress, failed, spent, givenUp, published>>

Restart ==
  /\ hand' = NoBead /\ progress' = "none"
  /\ failed' = [k \in Keys |-> 0] /\ spent' = [k \in Keys |-> 0] /\ givenUp' = {}
  /\ UNCHANGED <<done, published>>

Next ==
  \/ \E k \in Keys : Take(k) \/ Close(k)
  \/ Start \/ Fail \/ Drop \/ GiveUp \/ Publish \/ Settle \/ PutBack
  \/ Restart

Spec == Init /\ [][Next]_vars
============================================================================
