------------------------------ MODULE Supervisor ------------------------------
(***************************************************************************)
(* What the supervision of one dispatched client comes to, without clocks, *)
(* output or logs: the client exits by itself, or some condition has it    *)
(* killed, or the watchdog fails and a second wait takes its place.  Then, *)
(* and only when the client is gone, the supervision is done.              *)
(* IdleWatchdog implements it; RunSupervision builds on it.                *)
(***************************************************************************)
CONSTANT Reasons     \* WatchdogResult.reason of a kill

ASSUME ReasonsAssumption == "none" \notin Reasons

VARIABLES
  client,  \* the child: running, or its exit status is zero or nonzero
  child,   \* another process of the client's group is alive
  phase,   \* watching, killing, waiting (after a watchdog error) or done
  kill     \* why the watchdog killed the client, "none" if it did not

process == <<client, child>>
supVars == <<process, phase, kill>>

SupTypeOK ==
  /\ client \in {"running", "zero", "nonzero"} /\ child \in BOOLEAN
  /\ phase \in {"watching", "killing", "waiting", "done"}
  /\ kill \in Reasons \cup {"none"}

SupInit ==
  /\ client = "running" /\ child = FALSE
  /\ phase = "watching" /\ kill = "none"

ClientExits(status) ==
  /\ client = "running" /\ client' = status
  /\ UNCHANGED <<child, phase, kill>>

ChildStarts ==
  /\ client = "running" /\ ~child /\ child' = TRUE
  /\ UNCHANGED <<client, phase, kill>>

ChildEnds ==
  /\ child /\ child' = FALSE
  /\ UNCHANGED <<client, phase, kill>>

Decide(reason) ==
  /\ phase = "watching" /\ client = "running"
  /\ phase' = "killing" /\ kill' = reason
  /\ UNCHANGED process

\* The watchdog raises; why it may have begun to kill is forgotten.
LoseTrack ==
  /\ phase \in {"watching", "killing"}
  /\ phase' = "waiting" /\ kill' = "none"
  /\ UNCHANGED process

FindExited ==
  /\ phase # "done" /\ client # "running"
  /\ phase' = "done"
  /\ UNCHANGED <<process, kill>>

\* BROKEN: the kill is sent and not waited for.
ForceKillUnawaited ==
  /\ phase \in {"killing", "waiting"} /\ client = "running"
  /\ phase' = "done"
  /\ UNCHANGED <<process, kill>>
\* The watchdog kills the group, the second wait the client alone.
ForceKill ==
  /\ phase \in {"killing", "waiting"} /\ client = "running"
  /\ client' = "nonzero"
  /\ IF phase = "killing" THEN child' = FALSE ELSE UNCHANGED child
  /\ phase' = "done"
  /\ UNCHANGED kill

Conclude == (\E reason \in Reasons : Decide(reason)) \/ FindExited \/ ForceKill

SupNext ==
  \/ \E status \in {"zero", "nonzero"} : ClientExits(status)
  \/ ChildStarts \/ ChildEnds
  \/ LoseTrack \/ Conclude

\* Sooner or later a condition holds or the client is gone.
SupFairness == WF_supVars(Conclude)
SupSpec == SupInit /\ [][SupNext]_supVars /\ SupFairness
============================================================================
