------------------------------ MODULE BeadsLoop ------------------------------
(***************************************************************************)
(* The BeadsLoop thread of the webhook receiver: it scans the discovered   *)
(* projects one after the other, takes the next ready bead of each,        *)
(* creates a git worktree and a task branch for it, runs an agent there,   *)
(* asks br whether the agent closed the bead, pushes the branch of a       *)
(* closed one, counts the failure of any other, and removes the worktree.  *)
(*                                                                         *)
(* Four kinds of state meet here and survive different things.  The        *)
(* thread's own dictionaries are lost when the receiver stops; the beads   *)
(* database, the worktree directories, git's worktree registry and the     *)
(* task branches are on disk; what was pushed is at the origin; and what   *)
(* works on a bead is a session in the opencode server, another container, *)
(* of which the loop only sees the client.  Nothing aborts a session whose *)
(* client is gone: it strays, and goes on where it was told to work.       *)
(*                                                                         *)
(* A key of the loop's dictionaries, f"{project}:{bead_id}", is an element *)
(* of Keys.  Everything that can go wrong outside the loop (a git, br or   *)
(* file error, a lost client, the receiver stopping) is one of at most     *)
(* Faults faults.                                                          *)
(***************************************************************************)
EXTENDS Naturals, FiniteSets

CONSTANTS
  Projects,    \* project slugs
  Keys,        \* beads of all projects
  ProjectOf,   \* [Keys -> Projects]
  Blockers,    \* [Keys -> SUBSET Keys]: the beads that must be closed first
  Replanned,   \* the projects whose DAG and plan come and go meanwhile
  Priority,    \* [Keys -> Nat]: br's priority, the smaller the more urgent
  GraphAware,  \* TRUE: bvr answers; FALSE: only br ready does
  MaxRetries,  \* settings.beads_max_retries
  Faults,      \* bound on the number of outside faults and restarts
  Unreliable,  \* what may fail, of Outside
  Shared,      \* the beads that others than agents may close
  NoBead       \* the loop holds no bead

ASSUME KeysAssumption ==
  /\ ProjectOf \in [Keys -> Projects]
  /\ Blockers \in [Keys -> SUBSET Keys]
  /\ Priority \in [Keys -> Nat]
  /\ Replanned \subseteq Projects
  /\ GraphAware \in BOOLEAN
  /\ Shared \subseteq Keys
  /\ NoBead \notin Keys

\* What the loop depends on: br and bvr, git and the file system, git push and gh,
\* the client of an agent, and the receiver itself.
Outside == {"br", "git", "origin", "client", "receiver"}

ASSUME BoundsAssumption == MaxRetries \in Nat /\ Faults \in Nat /\ Unreliable \subseteq Outside

VARIABLES
  pc,          \* where the loop thread is
  todo,        \* projects this scan has not reached yet
  cur,         \* the bead being processed, or NoBead
  active,      \* _active_beads (with _bead_start_times and _bead_projects)
  retries,     \* the counts of _retry_state, 0 where there is no entry
  halted,      \* _halted_beads
  plan,        \* per project: no DAG yet, a DAG, a DAG and a committed plan
  closed,      \* beads whose status in the database is closed
  dir,         \* beads with a directory .worktrees/<id>
  registered,  \* beads whose worktree git has on record
  branch,      \* what the local branch task/<id> holds
  makers,      \* history: whose commits those are
  pushed,      \* what the origin's branch task/<id> holds
  pr,          \* beads with a pull request
  faults,      \* faults left
  launches,    \* agents started for a bead since the receiver started
  strays       \* beads a session works on whose client is gone

memory == <<active, retries, halted>>
git    == <<dir, registered, branch, makers>>
origin == <<pushed, pr>>
vars   == <<pc, todo, cur, memory, plan, closed, git, origin, faults, launches, strays>>

\* Steps of _process_bead that hold a bead; the other two are between beads.
Setup   == {"picked", "clear", "clearBranch", "add"}
Tree    == {"prepare", "agent", "check", "push", "pr", "final"}
Holding == Setup \cup Tree \cup {"finalBranch", "release"}
Content == {"none", "base", "work"}
\* The agent started last for the bead, a session that strays, an attempt that is over.
Makers  == {"agent", "stray", "earlier"}

TypeOK ==
  /\ pc \in Holding \cup {"sleep", "scan"}
  /\ todo \subseteq Projects
  /\ cur \in Keys \cup {NoBead}
  /\ active \subseteq Keys
  /\ retries \in [Keys -> Nat]
  /\ halted \subseteq Keys
  /\ plan \in [Projects -> {"none", "beads", "committed"}]
  /\ closed \subseteq Keys
  /\ dir \subseteq Keys
  /\ registered \subseteq Keys
  /\ branch \in [Keys -> Content]
  /\ makers \in [Keys -> SUBSET Makers]
  /\ pushed \in [Keys -> Content]
  /\ pr \subseteq Keys
  /\ faults \in 0..Faults
  /\ launches \in [Keys -> Nat]
  /\ strays \subseteq Keys

Init ==
  /\ pc = "sleep" /\ todo = {} /\ cur = NoBead
  /\ active = {} /\ retries = [k \in Keys |-> 0] /\ halted = {}
  /\ plan = [p \in Projects |-> IF p \in Replanned THEN "none" ELSE "committed"]
  /\ closed = {}
  /\ dir = {} /\ registered = {}
  /\ branch = [k \in Keys |-> "none"] /\ makers = [k \in Keys |-> {}]
  /\ pushed = [k \in Keys |-> "none"] /\ pr = {}
  /\ faults = Faults
  /\ launches = [k \in Keys |-> 0] /\ strays = {}

\* Something outside the loop fails in this step.
Fault(what) == what \in Unreliable /\ faults > 0 /\ faults' = faults - 1
NoFault     == UNCHANGED faults

----------------------------------------------------------------------------
(* Scanning the projects and choosing a bead.                              *)

StartScanWith(kept) ==
  /\ pc = "sleep"
  /\ pc' = "scan"
  /\ todo' = {p \in Projects : plan[p] # "none"}
  /\ halted' = kept
  /\ UNCHANGED <<cur, active, retries, plan, closed, git, origin, faults, launches, strays>>

\* BROKEN: every scan gives the halted beads another chance.
StartScanAfresh == StartScanWith({})
StartScan == StartScanWith(halted)

EndScan ==
  /\ pc = "scan" /\ todo = {}
  /\ pc' = "sleep"
  /\ UNCHANGED <<todo, cur, memory, plan, closed, git, origin, faults, launches, strays>>

\* Open and unblocked: what br ready lists.
Ready(p) == {k \in Keys \ closed : ProjectOf[k] = p /\ Blockers[k] \subseteq closed}

\* bvr ranks the ready beads in its own way; br's answer is sorted by priority.
\* Neither looks at the loop's halted set.
Candidates(p) ==
  IF GraphAware THEN Ready(p)
  ELSE {k \in Ready(p) : \A j \in Ready(p) : Priority[k] <= Priority[j]}

\* BROKEN: the halted set is not looked at.
PickableAnyway(k) == k \notin active
Pickable(k) == k \notin active /\ k \notin halted

PickBead(p) ==
  /\ pc = "scan" /\ p \in todo
  /\ plan[p] = "committed"
  /\ \E k \in Candidates(p) :
       /\ Pickable(k)
       /\ cur' = k
       /\ active' = active \cup {k}
  /\ todo' = todo \ {p}
  /\ pc' = "picked"
  /\ UNCHANGED <<retries, halted, plan, closed, git, origin, faults, launches, strays>>

\* No committed plan, no ready bead, the chosen bead is halted, or no answer.
SkipProject(p) ==
  /\ pc = "scan" /\ p \in todo
  /\ \/ /\ NoFault
        /\ \/ plan[p] # "committed"
           \/ Candidates(p) = {}
           \/ \E k \in Candidates(p) : ~Pickable(k)
     \/ Fault("br")
  /\ todo' = todo \ {p}
  /\ UNCHANGED <<pc, cur, memory, plan, closed, git, origin, launches, strays>>

----------------------------------------------------------------------------
(* Processing one bead.                                                    *)

\* BROKEN: one attempt too many.
ExhaustedLate(k) == retries[k] > MaxRetries
Exhausted(k) == retries[k] >= MaxRetries

IncrementRetry(k) == retries' = [retries EXCEPT ![k] = @ + 1]

\* BROKEN: the bead_halted event is emitted and the bead not remembered.
ForgetHalt(k) == UNCHANGED halted
RecordHalt(k) == halted' = halted \cup {k}

Halt ==
  /\ pc = "picked" /\ Exhausted(cur)
  /\ RecordHalt(cur)
  /\ pc' = "release"
  /\ UNCHANGED <<todo, cur, active, retries, plan, closed, git, origin, faults, launches, strays>>

Begin ==
  /\ pc = "picked" /\ ~Exhausted(cur)
  /\ pc' = "clear"
  /\ UNCHANGED <<todo, cur, memory, plan, closed, git, origin, faults, launches, strays>>

\* remove_bead_worktree, first half.  Nothing at all is done when the directory
\* is missing.  When git refuses, the directory is removed behind git's back
\* (ignoring errors), and the worktree stays on git's record.
RemoveTree(at, then, skip) ==
  /\ pc = at
  /\ \/ /\ cur \notin dir
        /\ pc' = skip
        /\ UNCHANGED <<dir, registered, faults>>
     \/ /\ cur \in dir
        /\ pc' = then
        /\ \/ NoFault /\ dir' = dir \ {cur} /\ registered' = registered \ {cur}
           \/ Fault("git") /\ dir' \in {dir, dir \ {cur}} /\ UNCHANGED registered
  /\ UNCHANGED <<todo, cur, memory, plan, closed, branch, makers, origin, launches, strays>>

\* Second half: git branch -D, whose failure is ignored.  git refuses to delete
\* the branch of a worktree it has on record.
RemoveBranch(at, then) ==
  /\ pc = at
  /\ \/ /\ NoFault /\ cur \notin registered
        /\ branch' = [branch EXCEPT ![cur] = "none"] /\ makers' = [makers EXCEPT ![cur] = {}]
     \/ NoFault /\ cur \in registered /\ UNCHANGED <<branch, makers>>
     \/ Fault("git") /\ UNCHANGED <<branch, makers>>
  /\ pc' = then
  /\ UNCHANGED <<todo, cur, memory, plan, closed, dir, registered, origin, launches, strays>>

ClearStaleTree   == RemoveTree("clear", "clearBranch", "add")
ClearStaleBranch == RemoveBranch("clearBranch", "add")

\* git refuses an existing path, a worktree on record and an existing branch.
Addable(k) == k \notin dir /\ k \notin registered /\ branch[k] = "none"

AddTree(allowed, content, of) ==
  /\ pc = "add" /\ allowed
  /\ dir' = dir \cup {cur}
  /\ registered' = registered \cup {cur}
  /\ branch' = [branch EXCEPT ![cur] = content] /\ makers' = [makers EXCEPT ![cur] = of]
  /\ pc' = "prepare"
  /\ UNCHANGED <<todo, cur, memory, plan, closed, origin, faults, launches, strays>>

\* BROKEN: a branch that is still there is checked out again.
AddWorktreeOnOldBranch ==
  AddTree(cur \notin dir, IF branch[cur] = "none" THEN "base" ELSE branch[cur], makers[cur])

\* git worktree add -b task/<id>: a new branch at the default branch's head.
AddWorktree == AddTree(Addable(cur), "base", {})

\* It fails on anything left over, or on a fault that may leave the new branch
\* behind; either way it counts as an attempt and nothing is cleaned up.
AddWorktreeFails ==
  /\ pc = "add"
  /\ \/ ~Addable(cur) /\ NoFault /\ UNCHANGED branch
     \/ /\ Fault("git")
        /\ branch' \in {branch, [branch EXCEPT ![cur] = IF @ = "none" THEN "base" ELSE @]}
  /\ IncrementRetry(cur)
  /\ pc' = "release"
  /\ UNCHANGED <<todo, cur, active, halted, plan, closed, dir, registered, makers, origin, launches, strays>>

SpawnAgent ==
  /\ pc = "prepare"
  /\ launches' = [launches EXCEPT ![cur] = @ + 1]
  /\ makers' = [makers EXCEPT ![cur] = {IF m = "agent" THEN "earlier" ELSE m : m \in @}]
  /\ pc' = "agent"
  /\ UNCHANGED <<todo, cur, memory, plan, closed, dir, registered, branch, origin, faults, strays>>

\* Popen fails, which counts, or the prompt and log files cannot be created,
\* which raises through _process_bead and does not.
SpawnFails ==
  /\ pc = "prepare" /\ Fault("client")
  /\ IncrementRetry(cur) \/ UNCHANGED retries
  /\ pc' = "final"
  /\ UNCHANGED <<todo, cur, active, halted, plan, closed, git, origin, launches, strays>>

\* BROKEN: an agent that exits has done its work.
ShownClosedAnyway(k) == TRUE
ShownClosed(k) == k \in closed

\* br show says closed; the loop emits bead_closed and will push.
FindClosed ==
  /\ pc = "check" /\ ShownClosed(cur)
  /\ pc' = "push"
  /\ UNCHANGED <<todo, cur, memory, plan, closed, git, origin, faults, launches, strays>>

\* BROKEN: a failed attempt is repeated at once, in the worktree it left.
RepeatInPlace ==
  /\ pc = "check"
  /\ (~ShownClosed(cur) /\ NoFault) \/ Fault("br")
  /\ IncrementRetry(cur)
  /\ pc' = "prepare"
  /\ UNCHANGED <<todo, cur, active, halted, plan, closed, git, origin, launches, strays>>
\* It says anything else, or does not answer ("unknown"): a failed attempt.
FindNotClosed ==
  /\ pc = "check"
  /\ (~ShownClosed(cur) /\ NoFault) \/ Fault("br")
  /\ IncrementRetry(cur)
  /\ pc' = "final"
  /\ UNCHANGED <<todo, cur, active, halted, plan, closed, git, origin, launches, strays>>

\* BROKEN: the entry is gone and nothing stands for it.
DropRetry == retries' = [k \in Keys \ {cur} |-> retries[k]]
\* The entry of _retry_state is dropped; a missing one counts as 0.
PopRetry == retries' = [retries EXCEPT ![cur] = 0]

PushBranch ==
  /\ pc = "push"
  /\ pushed' = [pushed EXCEPT ![cur] = branch[cur]]
  /\ pc' = "pr"
  /\ UNCHANGED <<todo, cur, memory, plan, closed, git, pr, faults, launches, strays>>

\* A failed push skips the pull request and is only logged.
PushFails ==
  /\ pc = "push" /\ Fault("origin")
  /\ PopRetry
  /\ pc' = "final"
  /\ UNCHANGED <<todo, cur, active, halted, plan, closed, git, origin, launches, strays>>

\* gh refuses a pull request for a branch with no commits of its own.
CreatePR ==
  /\ pc = "pr"
  /\ \/ NoFault /\ pr' = IF pushed[cur] = "work" THEN pr \cup {cur} ELSE pr
     \/ Fault("origin") /\ UNCHANGED pr
  /\ PopRetry
  /\ pc' = "final"
  /\ UNCHANGED <<todo, cur, active, halted, plan, closed, git, pushed, launches, strays>>

\* BROKEN: the worktree of a finished attempt is kept.
KeepFinalTree ==
  /\ pc = "final" /\ pc' = "release"
  /\ UNCHANGED <<todo, cur, memory, plan, closed, git, origin, faults, launches, strays>>

RemoveFinalTree   == RemoveTree("final", "finalBranch", "release")
RemoveFinalBranch == RemoveBranch("finalBranch", "release")

GiveBack(left) ==
  /\ pc = "release"
  /\ active' = left
  /\ cur' = NoBead
  /\ pc' = "scan"
  /\ UNCHANGED <<todo, retries, halted, plan, closed, git, origin, faults, launches, strays>>

\* BROKEN: the key stays in the active set.
ReleaseNothing == GiveBack(active)
Release == GiveBack(active \ {cur})

----------------------------------------------------------------------------
(* The agent, in its worktree, until its process exits.                    *)

AgentCommits ==
  /\ pc = "agent" /\ "agent" \notin makers[cur]
  /\ branch' = [branch EXCEPT ![cur] = "work"]
  /\ makers' = [makers EXCEPT ![cur] = @ \cup {"agent"}]
  /\ UNCHANGED <<pc, todo, cur, memory, plan, closed, dir, registered, origin>>
  /\ UNCHANGED <<faults, launches, strays>>

AgentCloses ==
  /\ pc = "agent" /\ cur \notin closed
  /\ closed' = closed \cup {cur}
  /\ UNCHANGED <<pc, todo, cur, memory, plan, git, origin, faults, launches, strays>>

AgentExits ==
  /\ pc = "agent"
  /\ pc' = "check"
  /\ UNCHANGED <<todo, cur, memory, plan, closed, git, origin, faults, launches, strays>>

\* The client ends without its session, which the loop takes for the agent's end.
ClientLost ==
  /\ pc = "agent" /\ Fault("client")
  /\ strays' = strays \cup {cur}
  /\ pc' = "check"
  /\ UNCHANGED <<todo, cur, memory, plan, closed, git, origin, launches>>

----------------------------------------------------------------------------
(* A session that strays, whatever the loop does with its bead meanwhile.  *)

\* In the worktree that is at its path by now, its own or the next attempt's.
StrayCommits(k) ==
  /\ k \in strays /\ k \in dir \cap registered /\ branch[k] # "none"
  /\ "stray" \notin makers[k]
  /\ branch' = [branch EXCEPT ![k] = "work"]
  /\ makers' = [makers EXCEPT ![k] = @ \cup {"stray"}]
  /\ UNCHANGED <<pc, todo, cur, memory, plan, closed, dir, registered, origin>>
  /\ UNCHANGED <<faults, launches, strays>>

\* A file it writes makes the directory again.
StrayWrites(k) ==
  /\ k \in strays /\ k \notin dir
  /\ dir' = dir \cup {k}
  /\ UNCHANGED <<pc, todo, cur, memory, plan, closed, registered, branch, makers, origin>>
  /\ UNCHANGED <<faults, launches, strays>>

StrayCloses(k) ==
  /\ k \in strays /\ k \notin closed
  /\ closed' = closed \cup {k}
  /\ UNCHANGED <<pc, todo, cur, memory, plan, git, origin, faults, launches, strays>>

StrayEnds(k) ==
  /\ k \in strays /\ strays' = strays \ {k}
  /\ UNCHANGED <<pc, todo, cur, memory, plan, closed, git, origin, faults, launches>>

----------------------------------------------------------------------------
(* The surroundings: planning runs, people, and the receiver stopping.     *)

\* A planning run writes the DAG, commits the plan, or a commit drops the plan.
ChangePlan(p, to) ==
  /\ to \in CASE plan[p] = "none"      -> {"beads"}
              [] plan[p] = "beads"     -> {"committed"}
              [] plan[p] = "committed" -> {"beads"}
  /\ plan' = [plan EXCEPT ![p] = to]
  /\ UNCHANGED <<pc, todo, cur, memory, closed, git, origin, faults, launches, strays>>

\* Somebody closes a bead that no agent is working on, halted ones included.
OthersClose(k) ==
  /\ k \in Shared \ closed /\ Blockers[k] \subseteq closed
  /\ ~(pc = "agent" /\ k = cur)
  /\ closed' = closed \cup {k}
  /\ UNCHANGED <<pc, todo, cur, memory, plan, git, origin, faults, launches, strays>>

\* The receiver stops and starts again with empty dictionaries.  The database, the
\* worktrees, the branches and the origin stay, and so does an agent's session, since
\* only its client was a process of the receiver.
Restart ==
  /\ Fault("receiver")
  /\ strays' = IF pc = "agent" THEN strays \cup {cur} ELSE strays
  /\ pc' = "sleep" /\ todo' = {} /\ cur' = NoBead
  /\ active' = {} /\ retries' = [k \in Keys |-> 0] /\ halted' = {}
  /\ launches' = [k \in Keys |-> 0]
  /\ UNCHANGED <<plan, closed, git, origin>>

----------------------------------------------------------------------------

LoopStep ==
  \/ StartScan \/ EndScan
  \/ \E p \in Projects : PickBead(p) \/ SkipProject(p)
  \/ Halt \/ Begin
  \/ ClearStaleTree \/ ClearStaleBranch
  \/ AddWorktree \/ AddWorktreeFails
  \/ SpawnAgent \/ SpawnFails
  \/ FindClosed \/ FindNotClosed
  \/ PushBranch \/ PushFails \/ CreatePR
  \/ RemoveFinalTree \/ RemoveFinalBranch
  \/ Release

AgentStep == AgentCommits \/ AgentCloses \/ AgentExits \/ ClientLost

StrayStep(k) == StrayCommits(k) \/ StrayWrites(k) \/ StrayCloses(k) \/ StrayEnds(k)

Environment ==
  \/ \E p \in Replanned, to \in {"beads", "committed"} : ChangePlan(p, to)
  \/ \E k \in Keys : OthersClose(k) \/ StrayStep(k)
  \/ Restart

Next == LoopStep \/ AgentStep \/ Environment

\* The thread is never stopped while the receiver runs.
Spec == Init /\ [][Next]_vars /\ WF_vars(LoopStep)

\* proc.wait() has no timeout: that an agent exits is an assumption on agents.
SpecAgentsExit == Spec /\ WF_vars(AgentExits)

----------------------------------------------------------------------------
(* What the loop comes to.                                                 *)

progress ==
  CASE pc \in {"sleep", "scan"}                   -> "none"
    [] pc \in Setup \cup {"prepare"}              -> "taken"
    [] pc \in {"agent", "check", "push"}          -> "started"
    [] pc = "pr"                                  -> "published"
    [] pc \in {"final", "finalBranch", "release"} -> "over"

D == INSTANCE Dispatcher WITH
       hand <- cur, failed <- retries, spent <- launches, givenUp <- halted, done <- closed,
       published <- {k \in Keys : pushed[k] # "none"}

\* Whatever is scanned, left behind, refused or lost, the loop behaves as a
\* Dispatcher: one bead at a time, open and unblocked when it is taken, one agent for
\* it at most and only when all earlier ones are counted as failures, its branch
\* published at most once in the life of the origin and only when it is closed.
DispatchesInTurn == D!Spec

----------------------------------------------------------------------------
(* Properties.                                                             *)

\* BEADS_MAX_RETRIES is the number of attempts: in one life of the receiver no
\* bead is given to more agents than that, whatever fails in between.
AttemptsBounded == \A k \in Keys : launches[k] <= MaxRetries

\* A bead is halted only when its attempts are used up and it is not being
\* processed any more, apart from the step that gives it back.
HaltedIsExhausted ==
  \A k \in halted : retries[k] = MaxRetries /\ (k \in active => pc = "release")

\* Only the branch of a bead that br showed as closed reaches the origin, and a
\* pull request is never opened before its branch is there.
PublishedIsClosed ==
  /\ \A k \in Keys : pushed[k] # "none" => k \in closed
  /\ \A k \in pr : pushed[k] = "work"

\* Between two beads, and as long as nothing outside the loop has failed, no
\* worktree, no registration and no task branch is left in any project.
NothingLeftBehind ==
  pc \in {"sleep", "scan"} /\ faults = Faults =>
    dir = {} /\ registered = {} /\ \A k \in Keys : branch[k] = "none"

\* A halted bead stays halted, and keeps its count, until the receiver restarts.
HaltIsFinal ==
  [][\A k \in halted : \/ k \in halted' /\ retries'[k] = retries[k] /\ launches'[k] = launches[k]
                       \/ Restart]_vars

\* What reaches the origin for a bead is the work of the agent that was started last
\* for it.  No commit of an attempt that is over, in this life of the receiver or an
\* earlier one, is ever among it, whatever clean-up failed; only a session whose
\* client is gone can still have a part in it.
PublishesOneAttempt ==
  [][\A k \in Keys : pushed'[k] # pushed[k] => "earlier" \notin makers[k]]_vars

\* Every bead that is picked up is given back.
PickupEnds == \A k \in Keys : k \in active ~> k \notin active

\* A project whose plan stays committed is drained, or one of its beads halts.
DrainedOrHalted ==
  \A p \in Projects :
    <>[](plan[p] = "committed") =>
      <>[](\/ \A k \in Keys : ProjectOf[k] = p => k \in closed
           \/ \E k \in Ready(p) : k \in halted)

----------------------------------------------------------------------------
(* What documents and comments say of the loop, and the code does not do.  *)

\* "Background thread that drains the Beads DAG for every project": a bead waits
\* for ever only behind a halted bead that blocks it.
BehindHalted(k) == \E j \in halted : j \in Blockers[k]
DrainsTheDAG ==
  \A k \in Keys :
    <>[](plan[ProjectOf[k]] = "committed") =>
      <>(k \in closed \/ k \in halted \/ BehindHalted(k))

\* "the orchestrator performs `git push` and `gh pr create` automatically after
\* you run `br close <id>`": the work of a closed bead is at the origin, or still
\* in its local branch.
ClosedWorkIsKept ==
  [][\A k \in Keys : branch[k] = "work" /\ k \in closed /\ branch'[k] # "work" => pushed[k] = "work"]_vars
============================================================================
