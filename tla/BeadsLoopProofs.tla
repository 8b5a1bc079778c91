--------------------------- MODULE BeadsLoopProofs ---------------------------
(***************************************************************************)
(* Safety of BeadsLoop for every set of projects and beads, every DAG,     *)
(* every retry limit and any number of faults.                             *)
(***************************************************************************)
EXTENDS BeadsLoop, TLAPS

\* Steps in which a bead has been chosen and its attempt is not counted yet.
Attempting == Setup \cup {"prepare", "agent", "check", "push", "pr"}
Launched   == {"agent", "check", "push", "pr"}

\* The active set is the bead the thread is working on.
HoldsOne ==
  /\ pc \in Holding => cur \in Keys
  /\ active = IF pc \in Holding THEN {cur} ELSE {}

\* A bead past the retry check has attempts left; a halted one has none.
WithinRetries ==
  /\ \A k \in Keys : retries[k] <= MaxRetries
  /\ pc \in Attempting \ {"picked"} => retries[cur] < MaxRetries
  /\ \A k \in halted : retries[k] = MaxRetries /\ (k \in active => pc = "release")

\* Every agent that was started is counted, except the one of the attempt that
\* is going on, and those of a closed bead, whose count has been dropped.
Counted(k) == launches[k] <= retries[k] + (IF pc \in Launched /\ k = cur THEN 1 ELSE 0)
EveryLaunchCounted ==
  \A k \in Keys : \/ Counted(k)
                  \/ /\ k \in closed /\ launches[k] <= MaxRetries
                     /\ pc \in Attempting => k # cur

\* A bead is closed before it is pushed, and was open when it was picked.
PublishedInOrder ==
  /\ PublishedIsClosed
  /\ pc \in {"push", "pr"} => cur \in closed
  /\ pc \in Attempting \ {"pr"} => cur \notin pr

\* Without a fault, git's three records of a bead come and go with its attempt.
Clean(k) == k \notin dir /\ k \notin registered /\ branch[k] = "none"
Tidy ==
  faults = Faults =>
    /\ strays = {}
    /\ \A k \in Keys : k # cur \/ pc \notin Tree \cup {"finalBranch"} => Clean(k)
    /\ pc \in Tree => cur \in dir
    /\ pc = "finalBranch" => cur \notin dir /\ cur \notin registered

\* The bead in hand was ready when it was picked, like the one of any session that
\* strays; until its branch, which has something on it from the start, is pushed,
\* nothing of it has been.
InHand ==
  /\ pc \in Holding => Blockers[cur] \subseteq closed
  /\ \A k \in strays : Blockers[k] \subseteq closed
  /\ pc \in {"prepare", "agent", "check", "push"} => branch[cur] # "none"
  /\ pc \in Attempting \ {"pr"} => pushed[cur] = "none"

\* On the branch an agent starts on there is nothing but what a session that strays
\* has put there since; while it works, and until it is pushed, no earlier attempt's.
AttemptsApart ==
  /\ pc = "prepare" => makers[cur] \subseteq {"stray"}
  /\ pc \in {"agent", "check", "push"} => "earlier" \notin makers[cur]

IInv ==
  /\ TypeOK
  /\ HoldsOne
  /\ WithinRetries
  /\ EveryLaunchCounted
  /\ AttemptsApart
  /\ PublishedInOrder
  /\ Tidy
  /\ InHand

------------------------------------------------------------------------------
(* Each part of the invariant is preserved by every step. *)

\* Every variable keeps its type: the loop only ever halts, counts, closes and
\* publishes the bead it holds.
LEMMA TypeStep ==
  ASSUME TypeOK, HoldsOne, [Next]_vars
  PROVE  TypeOK'
<1> USE KeysAssumption, BoundsAssumption DEF TypeOK, HoldsOne, Content, Makers, Setup,
        Tree, Holding, memory, git, origin, Fault, NoFault
<1>1. CASE StartScan
  BY <1>1 DEF StartScan, StartScanWith
<1>2. CASE EndScan
  BY <1>2 DEF EndScan
<1>3. CASE \E p \in Projects : PickBead(p)
  BY <1>3 DEF PickBead, Candidates, Ready, Pickable
<1>4. CASE \E p \in Projects : SkipProject(p)
  BY <1>4 DEF SkipProject
<1>5. CASE Halt \/ Begin
  BY <1>5 DEF Halt, RecordHalt, Exhausted, Begin
<1>6. CASE ClearStaleTree
  BY <1>6 DEF ClearStaleTree, RemoveTree
<1>7. CASE RemoveFinalTree
  BY <1>7 DEF RemoveFinalTree, RemoveTree
<1>8. CASE ClearStaleBranch
  BY <1>8 DEF ClearStaleBranch, RemoveBranch
<1>9. CASE RemoveFinalBranch
  BY <1>9 DEF RemoveFinalBranch, RemoveBranch
<1>10. CASE AddWorktree
  BY <1>10 DEF AddWorktree, AddTree, Addable
<1>11. CASE AddWorktreeFails
  BY <1>11 DEF AddWorktreeFails, IncrementRetry
<1>12. CASE SpawnAgent
  BY <1>12 DEF SpawnAgent
<1>13. CASE SpawnFails
  BY <1>13 DEF SpawnFails, IncrementRetry
<1>14. CASE FindClosed \/ FindNotClosed
  BY <1>14 DEF FindClosed, ShownClosed, FindNotClosed, IncrementRetry
<1>15. CASE PushBranch
  BY <1>15 DEF PushBranch
<1>16. CASE PushFails
  BY <1>16 DEF PushFails, PopRetry
<1>17. CASE CreatePR
  BY <1>17 DEF CreatePR, PopRetry
<1>18. CASE Release
  BY <1>18 DEF Release, GiveBack
<1>19. CASE AgentCommits \/ AgentCloses \/ AgentExits \/ ClientLost
  BY <1>19 DEF AgentCommits, AgentCloses, AgentExits, ClientLost
<1>20. CASE \E p \in Replanned, to \in {"beads", "committed"} : ChangePlan(p, to)
  BY <1>20 DEF ChangePlan
<1>21. CASE \E k \in Keys : OthersClose(k)
  BY <1>21 DEF OthersClose
<1>22. CASE Restart
  BY <1>22 DEF Restart
<1>23. CASE UNCHANGED vars
  BY <1>23 DEF vars
<1>24. CASE \E k \in Keys : StrayStep(k)
  BY <1>24 DEF StrayStep, StrayCommits, StrayWrites, StrayCloses, StrayEnds
<1>25. QED BY <1>1, <1>2, <1>3, <1>4, <1>5, <1>6, <1>7, <1>8, <1>9, <1>10,
          <1>11, <1>12, <1>13, <1>14, <1>15, <1>16, <1>17, <1>18, <1>19,
          <1>20, <1>21, <1>22, <1>23, <1>24 DEF Next, LoopStep, AgentStep, Environment

\* The active set has the bead being processed and no other: PickBead adds to an
\* empty set and Release takes the same bead out again.
LEMMA HoldsStep ==
  ASSUME TypeOK, HoldsOne, [Next]_vars
  PROVE  HoldsOne'
<1> USE KeysAssumption, BoundsAssumption DEF TypeOK, HoldsOne, Setup, Tree,
        Holding, memory, git, origin, Fault, NoFault
<1>1. CASE \E p \in Projects : PickBead(p)
  BY <1>1 DEF PickBead, Candidates, Ready, Pickable
<1>2. CASE Release
  BY <1>2 DEF Release, GiveBack
<1>3. CASE Restart
  BY <1>3 DEF Restart
<1>4. CASE \E p \in Replanned, to \in {"beads", "committed"} : ChangePlan(p, to)
  BY <1>4 DEF ChangePlan
<1>5. CASE \E k \in Keys : OthersClose(k)
  BY <1>5 DEF OthersClose
<1>6. CASE \/ StartScan \/ EndScan
           \/ \E p \in Projects : SkipProject(p)
           \/ Halt \/ Begin \/ ClearStaleTree \/ ClearStaleBranch
           \/ AddWorktree \/ AddWorktreeFails \/ SpawnAgent \/ SpawnFails
           \/ FindClosed \/ FindNotClosed \/ PushBranch \/ PushFails
           \/ CreatePR \/ RemoveFinalTree \/ RemoveFinalBranch \/ AgentCommits
           \/ AgentCloses \/ AgentExits \/ ClientLost \/ UNCHANGED vars
  BY <1>6 DEF StartScan, StartScanWith, EndScan, SkipProject, Halt,
       RecordHalt, Exhausted, Begin, ClearStaleTree, RemoveTree,
       ClearStaleBranch, RemoveBranch, AddWorktree, AddTree, Addable,
       AddWorktreeFails, IncrementRetry, SpawnAgent, SpawnFails, FindClosed,
       ShownClosed, FindNotClosed, PushBranch, PushFails, PopRetry, CreatePR,
       RemoveFinalTree, RemoveFinalBranch, AgentCommits, AgentCloses,
       AgentExits, ClientLost, vars
<1>7. CASE \E k \in Keys : StrayStep(k)
  BY <1>7 DEF StrayStep, StrayCommits, StrayWrites, StrayCloses, StrayEnds
<1>8. QED BY <1>1, <1>2, <1>3, <1>4, <1>5, <1>6, <1>7 DEF Next, LoopStep, AgentStep, Environment

\* An attempt begins below the limit and is counted once, so the limit is never
\* passed; a halted bead is not picked again, so its count stays at the limit.
LEMMA RetriesStep ==
  ASSUME TypeOK, HoldsOne, WithinRetries, [Next]_vars
  PROVE  WithinRetries'
<1> USE KeysAssumption, BoundsAssumption DEF TypeOK, HoldsOne, WithinRetries,
        Attempting, Setup, Tree, Holding, memory, git, origin, Fault, NoFault
<1>1. CASE StartScan
  BY <1>1 DEF StartScan, StartScanWith
<1>2. CASE \E p \in Projects : PickBead(p)
  BY <1>2 DEF PickBead, Candidates, Ready, Pickable
<1>3. CASE Halt
  BY <1>3 DEF Halt, RecordHalt, Exhausted
<1>4. CASE Begin
  BY <1>4 DEF Begin, Exhausted
<1>5. CASE AddWorktreeFails
  BY <1>5 DEF AddWorktreeFails, IncrementRetry
<1>6. CASE SpawnFails
  BY <1>6 DEF SpawnFails, IncrementRetry
<1>7. CASE FindNotClosed
  BY <1>7 DEF FindNotClosed, IncrementRetry
<1>8. CASE PushFails \/ CreatePR
  BY <1>8 DEF PushFails, PopRetry, CreatePR
<1>9. CASE Release
  BY <1>9 DEF Release, GiveBack
<1>10. CASE Restart
  BY <1>10 DEF Restart
<1>11. CASE \/ EndScan
            \/ \E p \in Projects : SkipProject(p)
            \/ ClearStaleTree \/ ClearStaleBranch \/ AddWorktree \/ SpawnAgent
            \/ FindClosed \/ PushBranch \/ RemoveFinalTree
            \/ RemoveFinalBranch \/ AgentCommits \/ AgentCloses \/ AgentExits \/ ClientLost
            \/ \E p \in Replanned, to \in {"beads", "committed"} : ChangePlan(p, to)
            \/ \E k \in Keys : OthersClose(k)
            \/ UNCHANGED vars
  BY <1>11 DEF EndScan, SkipProject, ClearStaleTree, RemoveTree,
       ClearStaleBranch, RemoveBranch, AddWorktree, AddTree, Addable,
       SpawnAgent, FindClosed, ShownClosed, PushBranch, RemoveFinalTree,
       RemoveFinalBranch, AgentCommits, AgentCloses, AgentExits, ClientLost, ChangePlan,
       OthersClose, vars
<1>12. CASE \E k \in Keys : StrayStep(k)
  BY <1>12 DEF StrayStep, StrayCommits, StrayWrites, StrayCloses, StrayEnds
<1>13. QED BY <1>1, <1>2, <1>3, <1>4, <1>5, <1>6, <1>7, <1>8, <1>9, <1>10,
          <1>11, <1>12 DEF Next, LoopStep, AgentStep, Environment

\* Starting an agent opens an attempt, and the step that ends it counts it or
\* finds the bead closed; a closed bead is never picked.
LEMMA LaunchStep ==
  ASSUME TypeOK, HoldsOne, WithinRetries, PublishedInOrder, EveryLaunchCounted, [Next]_vars
  PROVE  EveryLaunchCounted'
<1> USE KeysAssumption, BoundsAssumption DEF TypeOK, HoldsOne, WithinRetries,
        PublishedInOrder, EveryLaunchCounted, Counted, Attempting, Launched,
        Setup, Tree, Holding, memory, git, origin, Fault, NoFault
<1>1. CASE \E p \in Projects : PickBead(p)
  BY <1>1 DEF PickBead, Candidates, Ready, Pickable
<1>2. CASE Halt
  BY <1>2 DEF Halt, RecordHalt, Exhausted
<1>3. CASE Begin
  BY <1>3 DEF Begin, Exhausted
<1>4. CASE AddWorktreeFails
  BY <1>4 DEF AddWorktreeFails, IncrementRetry
<1>5. CASE SpawnAgent
  BY <1>5 DEF SpawnAgent
<1>6. CASE SpawnFails
  BY <1>6 DEF SpawnFails, IncrementRetry
<1>7. CASE FindNotClosed
  BY <1>7 DEF FindNotClosed, IncrementRetry
<1>8. CASE PushFails \/ CreatePR
  BY <1>8 DEF PushFails, PopRetry, CreatePR
<1>9. CASE Release
  BY <1>9 DEF Release, GiveBack
<1>10. CASE AgentCloses
  BY <1>10 DEF AgentCloses
<1>11. CASE \E k \in Keys : OthersClose(k)
  BY <1>11 DEF OthersClose
<1>12. CASE Restart
  BY <1>12 DEF Restart
<1>13. CASE \/ StartScan \/ EndScan
            \/ \E p \in Projects : SkipProject(p)
            \/ ClearStaleTree \/ ClearStaleBranch \/ AddWorktree \/ FindClosed
            \/ PushBranch \/ RemoveFinalTree \/ RemoveFinalBranch
            \/ AgentCommits \/ AgentExits \/ ClientLost
            \/ \E p \in Replanned, to \in {"beads", "committed"} : ChangePlan(p, to)
            \/ UNCHANGED vars
  BY <1>13 DEF StartScan, StartScanWith, EndScan, SkipProject, ClearStaleTree,
       RemoveTree, ClearStaleBranch, RemoveBranch, AddWorktree, AddTree,
       Addable, FindClosed, ShownClosed, PushBranch, RemoveFinalTree,
       RemoveFinalBranch, AgentCommits, AgentExits, ClientLost, ChangePlan, vars
<1>14. CASE \E k \in Keys : StrayStep(k)
  BY <1>14 DEF StrayStep, StrayCommits, StrayWrites, StrayCloses, StrayEnds
<1>15. QED BY <1>1, <1>2, <1>3, <1>4, <1>5, <1>6, <1>7, <1>8, <1>9, <1>10,
          <1>11, <1>12, <1>13, <1>14 DEF Next, LoopStep, AgentStep, Environment

\* A pushed bead is closed, so it is not picked, pushed again or overwritten.
LEMMA PublishStep ==
  ASSUME TypeOK, HoldsOne, PublishedInOrder, [Next]_vars
  PROVE  PublishedInOrder'
<1> USE KeysAssumption, BoundsAssumption DEF TypeOK, HoldsOne,
        PublishedInOrder, PublishedIsClosed, Attempting, Setup, Tree, Holding,
        memory, git, origin, Fault, NoFault
<1>1. CASE \E p \in Projects : PickBead(p)
  BY <1>1 DEF PickBead, Candidates, Ready, Pickable
<1>2. CASE FindClosed
  BY <1>2 DEF FindClosed, ShownClosed
<1>3. CASE PushBranch
  BY <1>3 DEF PushBranch
<1>4. CASE CreatePR
  BY <1>4 DEF CreatePR, PopRetry
<1>5. CASE AgentCloses
  BY <1>5 DEF AgentCloses
<1>6. CASE \E k \in Keys : OthersClose(k)
  BY <1>6 DEF OthersClose
<1>7. CASE \/ StartScan \/ EndScan
           \/ \E p \in Projects : SkipProject(p)
           \/ Halt \/ Begin \/ ClearStaleTree \/ ClearStaleBranch
           \/ AddWorktree \/ AddWorktreeFails \/ SpawnAgent \/ SpawnFails
           \/ FindNotClosed \/ PushFails \/ RemoveFinalTree
           \/ RemoveFinalBranch \/ Release \/ AgentCommits \/ AgentExits \/ ClientLost
           \/ \E p \in Replanned, to \in {"beads", "committed"} : ChangePlan(p, to)
           \/ Restart \/ UNCHANGED vars
  BY <1>7 DEF StartScan, StartScanWith, EndScan, SkipProject, Halt,
       RecordHalt, Exhausted, Begin, ClearStaleTree, RemoveTree,
       ClearStaleBranch, RemoveBranch, AddWorktree, AddTree, Addable,
       AddWorktreeFails, IncrementRetry, SpawnAgent, SpawnFails,
       FindNotClosed, PushFails, PopRetry, RemoveFinalTree, RemoveFinalBranch,
       Release, GiveBack, AgentCommits, AgentExits, ClientLost, ChangePlan, Restart, vars
<1>8. CASE \E k \in Keys : StrayStep(k)
  BY <1>8 DEF StrayStep, StrayCommits, StrayWrites, StrayCloses, StrayEnds
<1>9. QED BY <1>1, <1>2, <1>3, <1>4, <1>5, <1>6, <1>7, <1>8 DEF Next, LoopStep, AgentStep, Environment

\* Without a fault every addition is undone by the final removal.
LEMMA TidyStep ==
  ASSUME TypeOK, HoldsOne, Tidy, [Next]_vars
  PROVE  Tidy'
<1> USE KeysAssumption, BoundsAssumption DEF TypeOK, HoldsOne, Tidy, Clean,
        Setup, Tree, Holding, memory, git, origin, Fault, NoFault
<1>1. CASE \E p \in Projects : PickBead(p)
  BY <1>1 DEF PickBead, Candidates, Ready, Pickable
<1>2. CASE ClearStaleTree
  BY <1>2 DEF ClearStaleTree, RemoveTree
<1>3. CASE ClearStaleBranch
  BY <1>3 DEF ClearStaleBranch, RemoveBranch
<1>4. CASE AddWorktree
  BY <1>4 DEF AddWorktree, AddTree, Addable
<1>5. CASE AddWorktreeFails
  BY <1>5 DEF AddWorktreeFails, IncrementRetry
<1>6. CASE RemoveFinalTree
  BY <1>6 DEF RemoveFinalTree, RemoveTree
<1>7. CASE RemoveFinalBranch
  BY <1>7 DEF RemoveFinalBranch, RemoveBranch
<1>8. CASE Release
  BY <1>8 DEF Release, GiveBack
<1>9. CASE AgentCommits
  BY <1>9 DEF AgentCommits
<1>10. CASE Restart
  BY <1>10 DEF Restart
<1>11. CASE \/ StartScan \/ EndScan
            \/ \E p \in Projects : SkipProject(p)
            \/ Halt \/ Begin \/ SpawnAgent \/ SpawnFails \/ FindClosed
            \/ FindNotClosed \/ PushBranch \/ PushFails \/ CreatePR
            \/ AgentCloses \/ AgentExits \/ ClientLost
            \/ \E p \in Replanned, to \in {"beads", "committed"} : ChangePlan(p, to)
            \/ \E k \in Keys : OthersClose(k)
            \/ UNCHANGED vars
  BY <1>11 DEF StartScan, StartScanWith, EndScan, SkipProject, Halt,
       RecordHalt, Exhausted, Begin, SpawnAgent, SpawnFails, IncrementRetry,
       FindClosed, ShownClosed, FindNotClosed, PushBranch, PushFails,
       PopRetry, CreatePR, AgentCloses, AgentExits, ClientLost, ChangePlan, OthersClose,
       vars
<1>12. CASE \E k \in Keys : StrayStep(k)
  BY <1>12 DEF StrayStep, StrayCommits, StrayWrites, StrayCloses, StrayEnds
<1>13. QED BY <1>1, <1>2, <1>3, <1>4, <1>5, <1>6, <1>7, <1>8, <1>9, <1>10,
          <1>11, <1>12 DEF Next, LoopStep, AgentStep, Environment

\* Beads are not reopened, and the loop touches the branch of the bead in hand, and
\* what the origin has of it, in one place each.
LEMMA InHandStep ==
  ASSUME TypeOK, HoldsOne, PublishedInOrder, InHand, [Next]_vars
  PROVE  InHand'
<1> USE KeysAssumption, BoundsAssumption DEF TypeOK, HoldsOne, InHand, Attempting,
        Setup, Tree, Holding, memory, git, origin, Fault, NoFault
<1>1. CASE \E p \in Projects : PickBead(p)
  BY <1>1 DEF PickBead, Candidates, Ready, Pickable, PublishedInOrder, PublishedIsClosed
<1>2. CASE SpawnAgent
  BY <1>2 DEF SpawnAgent
<1>3. CASE ClearStaleBranch \/ RemoveFinalBranch
  BY <1>3 DEF ClearStaleBranch, RemoveFinalBranch, RemoveBranch
<1>4. CASE AddWorktree \/ AddWorktreeFails
  BY <1>4 DEF AddWorktree, AddTree, Addable, AddWorktreeFails, IncrementRetry
<1>5. CASE PushBranch
  BY <1>5 DEF PushBranch
<1>6. CASE Release
  BY <1>6 DEF Release, GiveBack
<1>7. CASE AgentCommits
  BY <1>7 DEF AgentCommits
<1>8. CASE AgentCloses \/ \E k \in Keys : OthersClose(k)
  BY <1>8 DEF AgentCloses, OthersClose
<1>9. CASE \/ StartScan \/ EndScan
           \/ \E p \in Projects : SkipProject(p)
           \/ Halt \/ Begin \/ ClearStaleTree \/ SpawnFails \/ FindClosed
           \/ FindNotClosed \/ PushFails \/ CreatePR \/ RemoveFinalTree \/ AgentExits \/ ClientLost
           \/ \E p \in Replanned, to \in {"beads", "committed"} : ChangePlan(p, to)
           \/ Restart \/ UNCHANGED vars
  BY <1>9 DEF StartScan, StartScanWith, EndScan, SkipProject, Halt,
       RecordHalt, Exhausted, Begin, ClearStaleTree, RemoveTree, SpawnFails,
       IncrementRetry, FindClosed, ShownClosed, FindNotClosed, PushFails, PopRetry,
       CreatePR, RemoveFinalTree, AgentExits, ClientLost, ChangePlan, Restart, vars
<1>10. CASE \E k \in Keys : StrayStep(k)
  BY <1>10 DEF StrayStep, StrayCommits, StrayWrites, StrayCloses, StrayEnds
<1>11. QED BY <1>1, <1>2, <1>3, <1>4, <1>5, <1>6, <1>7, <1>8, <1>9, <1>10
           DEF Next, LoopStep, AgentStep, Environment

\* A worktree is added only where no branch is left; what an agent finds there is then
\* a stray's, and its own commits become those of an earlier attempt when the next
\* agent starts, which needs a new branch.
LEMMA ApartStep ==
  ASSUME TypeOK, HoldsOne, AttemptsApart, [Next]_vars
  PROVE  AttemptsApart'
<1> USE KeysAssumption, BoundsAssumption DEF TypeOK, HoldsOne, AttemptsApart, Makers,
        Setup, Tree, Holding, memory, git, origin, Fault, NoFault
<1>1. CASE AddWorktree
  BY <1>1 DEF AddWorktree, AddTree, Addable
<1>2. CASE SpawnAgent
  BY <1>2 DEF SpawnAgent
<1>3. CASE AgentCommits
  BY <1>3 DEF AgentCommits
<1>4. CASE \E k \in Keys : StrayStep(k)
  BY <1>4 DEF StrayStep, StrayCommits, StrayWrites, StrayCloses, StrayEnds
<1>5. CASE \/ AgentCloses \/ AgentExits \/ ClientLost \/ FindClosed
  BY <1>5 DEF AgentCloses, AgentExits, ClientLost, FindClosed, ShownClosed
<1>6. CASE \/ StartScan \/ EndScan
           \/ \E p \in Projects : PickBead(p) \/ SkipProject(p)
           \/ Halt \/ Begin \/ ClearStaleTree \/ ClearStaleBranch
           \/ AddWorktreeFails \/ SpawnFails \/ FindNotClosed
           \/ PushBranch \/ PushFails \/ CreatePR
           \/ RemoveFinalTree \/ RemoveFinalBranch \/ Release
  BY <1>6 DEF StartScan, StartScanWith, EndScan, PickBead, SkipProject, Halt, RecordHalt,
       Begin, ClearStaleTree, RemoveTree, ClearStaleBranch, RemoveBranch,
       AddWorktreeFails, IncrementRetry, SpawnFails, FindNotClosed, PushBranch,
       PushFails, PopRetry, CreatePR, RemoveFinalTree, RemoveFinalBranch, Release, GiveBack
<1>7. CASE \/ \E p \in Replanned, to \in {"beads", "committed"} : ChangePlan(p, to)
           \/ \E k \in Keys : OthersClose(k)
           \/ Restart \/ UNCHANGED vars
  BY <1>7 DEF ChangePlan, OthersClose, Restart, vars
<1>8. QED BY <1>1, <1>2, <1>3, <1>4, <1>5, <1>6, <1>7 DEF Next, LoopStep, AgentStep, Environment

\* The initial state satisfies every part: nothing has been picked or created.
LEMMA InitHolds == Init => IInv
<1> USE KeysAssumption, BoundsAssumption DEF Init
<1>1. Init => TypeOK /\ HoldsOne
  BY DEF TypeOK, HoldsOne, Content, Holding, Setup, Tree
<1>2. Init => WithinRetries /\ EveryLaunchCounted
  BY DEF WithinRetries, EveryLaunchCounted, Counted, Attempting, Launched, Setup
<1>3. Init => AttemptsApart /\ PublishedInOrder /\ Tidy /\ InHand
  BY DEF AttemptsApart, PublishedInOrder, PublishedIsClosed, Attempting, Setup,
         Tidy, Clean, Tree, InHand, Holding
<1>4. QED BY <1>1, <1>2, <1>3 DEF IInv

\* The parts together are inductive.
LEMMA StepHolds == IInv /\ [Next]_vars => IInv'
BY TypeStep, HoldsStep, RetriesStep, LaunchStep, PublishStep, TidyStep, InHandStep, ApartStep DEF IInv

\* Every reachable state of the loop satisfies them.
LEMMA Inductive == Spec => []IInv
BY InitHolds, StepHolds, PTL DEF Spec

------------------------------------------------------------------------------

\* The loop's dictionaries, the database and the worktrees keep their types.
THEOREM TypeCorrect == Spec => []TypeOK
<1>1. IInv => TypeOK BY DEF IInv
<1>2. QED BY <1>1, Inductive, PTL

\* However many faults there are and wherever they strike, no bead is given to
\* more agents than BEADS_MAX_RETRIES in one life of the receiver: each launch is
\* counted before the bead can be picked again, or the bead is closed.
THEOREM AttemptsAreBounded == Spec => []AttemptsBounded
<1>1. IInv => AttemptsBounded
  <2> SUFFICES ASSUME IInv, NEW k \in Keys PROVE launches[k] <= MaxRetries
    BY DEF AttemptsBounded
  <2> USE BoundsAssumption DEF IInv, TypeOK, WithinRetries, EveryLaunchCounted, Counted
  <2>1. CASE pc \in Launched /\ k = cur
    BY <2>1 DEF Launched, Attempting
  <2>2. CASE ~(pc \in Launched /\ k = cur)
    BY <2>2
  <2>3. QED BY <2>1, <2>2
<1>2. QED BY <1>1, Inductive, PTL

\* A halted bead has used up its attempts and is not being processed, apart from
\* the step that gives it back.
THEOREM HaltedAreExhausted == Spec => []HaltedIsExhausted
<1>1. IInv => HaltedIsExhausted BY DEF IInv, WithinRetries, HaltedIsExhausted
<1>2. QED BY <1>1, Inductive, PTL

\* However often clean-up fails, clients are lost and the receiver restarts, no commit
\* of an attempt that is over is ever among what reaches the origin for a bead.
THEOREM OneAttemptIsPublished == Spec => PublishesOneAttempt
<1>1. IInv /\ [Next]_vars => [\A k \in Keys : pushed'[k] # pushed[k] => "earlier" \notin makers[k]]_vars
  <2> SUFFICES ASSUME IInv, Next, NEW k \in Keys, pushed'[k] # pushed[k]
               PROVE  "earlier" \notin makers[k]
    OBVIOUS
  <2>1. CASE PushBranch
    <3>1. k = cur
      BY <2>1 DEF PushBranch, IInv, TypeOK
    <3> QED
      BY <2>1, <3>1 DEF PushBranch, IInv, AttemptsApart
  <2>2. CASE UNCHANGED pushed
    BY <2>2
  <2> QED
    BY <2>1, <2>2
       DEF Next, LoopStep, AgentStep, Environment, origin, git, memory, StartScan, StartScanWith,
           EndScan, PickBead, SkipProject, Halt, Begin, ClearStaleTree, ClearStaleBranch,
           RemoveFinalTree, RemoveFinalBranch, RemoveTree, RemoveBranch, AddWorktree, AddTree,
           AddWorktreeFails, SpawnAgent, SpawnFails, FindClosed, FindNotClosed, PushFails, CreatePR,
           Release, GiveBack, AgentCommits, AgentCloses, AgentExits, ClientLost, StrayStep,
           StrayCommits, StrayWrites, StrayCloses, StrayEnds, ChangePlan, OthersClose, Restart
<1>2. QED BY <1>1, Inductive, PTL DEF Spec, PublishesOneAttempt

\* Nothing of an open bead is published, and pull requests have their branch.
THEOREM PublishedAreClosed == Spec => []PublishedIsClosed
<1>1. IInv => PublishedIsClosed BY DEF IInv, PublishedInOrder
<1>2. QED BY <1>1, Inductive, PTL

\* As long as no fault happens, the loop leaves no worktree, registration or
\* branch behind between two beads.
THEOREM NothingIsLeftBehind == Spec => []NothingLeftBehind
<1>1. IInv => NothingLeftBehind
  <2> SUFFICES ASSUME IInv, pc \in {"sleep", "scan"}, faults = Faults, NEW k \in Keys
               PROVE  Clean(k)
    BY DEF NothingLeftBehind, Clean, IInv, TypeOK
  <2>1. pc \notin Tree \cup {"finalBranch"} BY DEF Tree
  <2>2. QED BY <2>1 DEF IInv, Tidy
<1>2. QED BY <1>1, Inductive, PTL

\* A halted bead stays halted, and its counts stay as they are, until the
\* receiver restarts: no other step can reach a key that is not picked.
THEOREM HaltsAreFinal == Spec => HaltIsFinal
<1>1. IInv /\ [Next]_vars =>
        [\A k \in halted : \/ k \in halted' /\ retries'[k] = retries[k] /\ launches'[k] = launches[k]
                           \/ Restart]_vars
  <2> SUFFICES ASSUME IInv, Next, ~Restart, NEW k \in halted
               PROVE  k \in halted' /\ retries'[k] = retries[k] /\ launches'[k] = launches[k]
    OBVIOUS
  <2> USE DEF IInv, TypeOK, HoldsOne, WithinRetries, Holding, Setup, Tree, memory
  <2>1. CASE StartScan BY <2>1 DEF StartScan, StartScanWith
  <2>2. CASE Halt BY <2>2 DEF Halt, RecordHalt
  <2>3. CASE AddWorktreeFails BY <2>3 DEF AddWorktreeFails, IncrementRetry
  <2>4. CASE SpawnAgent BY <2>4 DEF SpawnAgent
  <2>5. CASE SpawnFails BY <2>5 DEF SpawnFails, IncrementRetry
  <2>6. CASE FindNotClosed BY <2>6 DEF FindNotClosed, IncrementRetry
  <2>7. CASE PushFails \/ CreatePR BY <2>7 DEF PushFails, CreatePR, PopRetry
  <2>8. CASE \/ EndScan \/ Begin \/ AddWorktree \/ FindClosed \/ PushBranch
             \/ ClearStaleTree \/ ClearStaleBranch \/ RemoveFinalTree \/ RemoveFinalBranch
             \/ Release \/ AgentStep
             \/ \E p \in Projects : PickBead(p) \/ SkipProject(p)
             \/ \E p \in Replanned, to \in {"beads", "committed"} : ChangePlan(p, to)
             \/ \E j \in Keys : OthersClose(j) \/ StrayStep(j)
    BY <2>8 DEF EndScan, Begin, AddWorktree, AddTree, FindClosed, PushBranch,
                ClearStaleTree, ClearStaleBranch, RemoveFinalTree, RemoveFinalBranch,
                RemoveTree, RemoveBranch, Release, GiveBack, AgentStep, AgentCommits,
                AgentCloses, AgentExits, ClientLost, PickBead, SkipProject, ChangePlan, OthersClose,
                StrayStep, StrayCommits, StrayWrites, StrayCloses, StrayEnds
  <2>9. QED BY <2>1, <2>2, <2>3, <2>4, <2>5, <2>6, <2>7, <2>8 DEF Next, LoopStep, Environment
<1>2. QED BY <1>1, Inductive, PTL DEF Spec, HaltIsFinal

------------------------------------------------------------------------------
(* The loop implements Dispatcher. *)

\* What Dispatcher sees of a step that changes none of its variables.
LEMMA Unseen ==
  ASSUME UNCHANGED <<cur, retries, launches, halted, closed, pushed>>, progress' = progress
  PROVE  UNCHANGED D!vars
  BY DEF D!vars

\* What is at the origin after one more bead has been pushed.
LEMMA PushAdds ==
  ASSUME TypeOK, NEW k \in Keys, NEW c \in Content \ {"none"}, pushed' = [pushed EXCEPT ![k] = c]
  PROVE  {j \in Keys : pushed'[j] # "none"} = {j \in Keys : pushed[j] # "none"} \cup {k}
  BY DEF TypeOK

\* Scanning and choosing: a project's next bead is taken, or nothing is seen.
LEMMA ScanMaps ==
  ASSUME IInv, StartScan \/ EndScan \/ \E p \in Projects : PickBead(p) \/ SkipProject(p)
  PROVE  [D!Next]_(D!vars)
<1> USE DEF progress, Setup, memory, git, origin
<1>1. CASE StartScan \/ EndScan
  BY <1>1, Unseen DEF StartScan, StartScanWith, EndScan
<1>2. CASE \E p \in Projects : PickBead(p)
  <2> PICK p \in Projects : PickBead(p)
    BY <1>2
  <2> PICK k \in Candidates(p) : Pickable(k) /\ cur' = k
    BY DEF PickBead
  <2>1. k \in Keys /\ k \notin closed \cup halted /\ Blockers[k] \subseteq closed
    BY DEF Candidates, Ready, Pickable
  <2>2. D!Take(k)
    BY <2>1 DEF PickBead, D!Take
  <2> QED
    BY <2>1, <2>2 DEF D!Next
<1>3. CASE \E p \in Projects : SkipProject(p)
  BY <1>3, Unseen DEF SkipProject
<1> QED
  BY <1>1, <1>2, <1>3

\* Preparing an attempt: the bead is given up, fails or is dropped, or an agent starts.
LEMMA SetupMaps ==
  ASSUME IInv, \/ Halt \/ Begin \/ ClearStaleTree \/ ClearStaleBranch
               \/ AddWorktree \/ AddWorktreeFails \/ SpawnAgent \/ SpawnFails
  PROVE  [D!Next]_(D!vars)
<1> USE DEF progress, Setup, Tree, Holding, memory, git, origin
<1>0. pc \in Holding => cur \in Keys
  BY DEF IInv, HoldsOne
<1>1. CASE Halt
  <2>1. retries[cur] \in Nat /\ retries[cur] <= MaxRetries
    BY <1>0, <1>1 DEF IInv, TypeOK, WithinRetries, Halt
  <2>2. D!GiveUp
    BY <1>1, <2>1, BoundsAssumption DEF Halt, Exhausted, RecordHalt, D!GiveUp
  <2> QED
    BY <2>2 DEF D!Next
<1>2. CASE Begin \/ AddWorktree
  BY <1>2, Unseen DEF Begin, AddWorktree, AddTree
<1>3. CASE ClearStaleTree \/ ClearStaleBranch
  BY <1>3, Unseen DEF ClearStaleTree, RemoveTree, ClearStaleBranch, RemoveBranch
<1>4. CASE AddWorktreeFails
  <2>1. retries[cur] < MaxRetries
    BY <1>4 DEF AddWorktreeFails, IInv, WithinRetries, Attempting
  <2>2. D!Fail
    BY <1>4, <2>1 DEF AddWorktreeFails, IncrementRetry, D!Fail
  <2> QED
    BY <2>2 DEF D!Next
<1>5. CASE SpawnAgent
  <2>1. pc = "prepare" /\ retries[cur] < MaxRetries
    BY <1>5 DEF SpawnAgent, IInv, WithinRetries, Attempting
  <2>2. launches[cur] <= retries[cur]
    <3>1. Counted(cur)
      BY <1>0, <2>1 DEF IInv, EveryLaunchCounted, Attempting
    <3> QED
      BY <1>0, <2>1, <3>1 DEF Counted, Launched, IInv, TypeOK
  <2>3. D!Start
    BY <1>5, <2>1, <2>2 DEF SpawnAgent, D!Start
  <2> QED
    BY <2>3 DEF D!Next
<1>6. CASE SpawnFails
  <2>1. retries[cur] < MaxRetries
    BY <1>6 DEF SpawnFails, IInv, WithinRetries, Attempting
  <2>2. D!Fail \/ D!Drop
    BY <1>6, <2>1 DEF SpawnFails, IncrementRetry, D!Fail, D!Drop
  <2> QED
    BY <2>2 DEF D!Next
<1> QED
  BY <1>1, <1>2, <1>3, <1>4, <1>5, <1>6

\* Judging an attempt: it fails, or its branch is published and the bead settled.
LEMMA OutcomeMaps ==
  ASSUME IInv, \/ FindClosed \/ FindNotClosed \/ PushBranch \/ PushFails \/ CreatePR
               \/ RemoveFinalTree \/ RemoveFinalBranch \/ Release
  PROVE  [D!Next]_(D!vars)
<1> USE DEF progress, Setup, Tree, Holding, memory, git, origin
<1>0. pc \in Holding => cur \in Keys
  BY DEF IInv, HoldsOne
<1>1. CASE FindClosed
  BY <1>1, Unseen DEF FindClosed
<1>2. CASE FindNotClosed
  <2>1. retries[cur] < MaxRetries
    BY <1>2 DEF FindNotClosed, IInv, WithinRetries, Attempting
  <2>2. D!Fail
    BY <1>2, <2>1 DEF FindNotClosed, IncrementRetry, D!Fail
  <2> QED
    BY <2>2 DEF D!Next
<1>3. CASE PushBranch
  <2>1. pc = "push" /\ pushed' = [pushed EXCEPT ![cur] = branch[cur]] /\ cur \in Keys
    BY <1>0, <1>3 DEF PushBranch
  <2>2. branch[cur] \in Content \ {"none"} /\ pushed[cur] = "none" /\ cur \in closed
    BY <2>1 DEF IInv, TypeOK, InHand, Attempting, PublishedInOrder
  <2>3. {j \in Keys : pushed'[j] # "none"} = {j \in Keys : pushed[j] # "none"} \cup {cur}
    BY <2>1, <2>2, PushAdds DEF IInv
  <2>4. D!Publish
    BY <1>3, <2>1, <2>2, <2>3 DEF PushBranch, D!Publish
  <2> QED
    BY <2>4 DEF D!Next
<1>4. CASE PushFails \/ CreatePR
  <2>1. cur \in closed
    BY <1>4 DEF PushFails, CreatePR, IInv, PublishedInOrder
  <2>2. D!Settle
    BY <1>4, <2>1 DEF PushFails, CreatePR, PopRetry, D!Settle
  <2> QED
    BY <2>2 DEF D!Next
<1>5. CASE RemoveFinalTree \/ RemoveFinalBranch
  BY <1>5, Unseen DEF RemoveFinalTree, RemoveTree, RemoveFinalBranch, RemoveBranch
<1>6. CASE Release
  <2>1. D!PutBack
    BY <1>6 DEF Release, GiveBack, D!PutBack
  <2> QED
    BY <2>1 DEF D!Next
<1> QED
  BY <1>1, <1>2, <1>3, <1>4, <1>5, <1>6

\* The agent and everybody else: beads are closed in their order.
LEMMA OthersMap ==
  ASSUME IInv, AgentStep \/ Environment
  PROVE  [D!Next]_(D!vars)
<1> USE DEF progress, Setup, Tree, Holding, memory, git, origin
<1>1. CASE AgentCommits \/ AgentExits \/ ClientLost
  BY <1>1, Unseen DEF AgentCommits, AgentExits, ClientLost
<1>2. CASE AgentCloses
  <2>1. cur \in Keys /\ Blockers[cur] \subseteq closed
    BY <1>2 DEF AgentCloses, IInv, HoldsOne, InHand
  <2>2. D!Close(cur)
    BY <1>2, <2>1 DEF AgentCloses, D!Close
  <2> QED
    BY <2>1, <2>2 DEF D!Next
<1>3. CASE \E p \in Replanned, to \in {"beads", "committed"} : ChangePlan(p, to)
  BY <1>3, Unseen DEF ChangePlan
<1>4. CASE \E k \in Keys : OthersClose(k)
  <2> PICK k \in Keys : OthersClose(k)
    BY <1>4
  <2>1. D!Close(k)
    BY DEF OthersClose, D!Close
  <2> QED
    BY <2>1 DEF D!Next
<1>5. CASE \E k \in Keys : StrayStep(k)
  <2> PICK k \in Keys : StrayStep(k)
    BY <1>5
  <2>1. CASE StrayCommits(k) \/ StrayWrites(k) \/ StrayEnds(k)
    BY <2>1, Unseen DEF StrayCommits, StrayWrites, StrayEnds
  <2>2. CASE StrayCloses(k)
    <3>1. D!Close(k)
      BY <2>2 DEF StrayCloses, IInv, InHand, D!Close
    <3> QED
      BY <3>1 DEF D!Next
  <2> QED
    BY <2>1, <2>2 DEF StrayStep
<1>6. CASE Restart
  <2>1. D!Restart
    BY <1>6 DEF Restart, D!Restart
  <2> QED
    BY <2>1 DEF D!Next
<1> QED
  BY <1>1, <1>2, <1>3, <1>4, <1>5, <1>6 DEF AgentStep, Environment

\* The loop behaves as a Dispatcher, for any projects, beads, blockers, limits and
\* faults: every step of it is one of Dispatcher's or is not seen there.
THEOREM DispatchingInTurn == Spec => DispatchesInTurn
<1>1. Init => D!Init
  <2>1. ASSUME Init PROVE {k \in Keys : pushed[k] # "none"} = {}
    BY <2>1 DEF Init
  <2> QED
    BY <2>1 DEF Init, D!Init, progress, Setup
<1>2. IInv /\ [Next]_vars => [D!Next]_(D!vars)
  <2>1. ASSUME UNCHANGED vars PROVE UNCHANGED D!vars
    BY <2>1, Unseen DEF vars, memory, origin, progress
  <2> QED
    BY <2>1, ScanMaps, SetupMaps, OutcomeMaps, OthersMap DEF Next, LoopStep
<1> QED
  BY <1>1, <1>2, Inductive, PTL DEF Spec, DispatchesInTurn, D!Spec

------------------------------------------------------------------------------
(* What the work of a closed bead depends on. *)

\* Nothing fails outside, and nobody closes a bead that has been found open while its
\* worktree is removed.
Undisturbed ==
  /\ UNCHANGED faults
  /\ pc \in {"final", "finalBranch"} /\ cur \in closed' => cur \in closed

\* Then the branch of a closed bead is only removed when the origin has it.
PushedBeforeRemoval ==
  /\ faults = Faults /\ strays = {}
  /\ pc = "pr" => pushed[cur] = branch[cur]
  /\ pc \in {"final", "finalBranch"} /\ cur \in closed => pushed[cur] = branch[cur]

\* The push comes before the removal, and a failed attempt is one of an open bead.
LEMMA PushedStep ==
  ASSUME TypeOK, HoldsOne, PushedBeforeRemoval, Undisturbed, Next
  PROVE  PushedBeforeRemoval'
<1> USE DEF TypeOK, HoldsOne, PushedBeforeRemoval, Undisturbed, Setup, Tree, Holding, memory, git, origin,
            Fault, NoFault
<1>1. CASE \/ StartScan \/ EndScan \/ \E p \in Projects : PickBead(p) \/ SkipProject(p)
  BY <1>1 DEF StartScan, StartScanWith, EndScan, PickBead, SkipProject
<1>2. CASE Halt \/ Begin \/ SpawnAgent \/ SpawnFails
  BY <1>2 DEF Halt, RecordHalt, Begin, SpawnAgent, SpawnFails, IncrementRetry
<1>3. CASE ClearStaleTree \/ RemoveFinalTree
  BY <1>3 DEF ClearStaleTree, RemoveFinalTree, RemoveTree
<1>4. CASE ClearStaleBranch \/ RemoveFinalBranch
  BY <1>4 DEF ClearStaleBranch, RemoveFinalBranch, RemoveBranch
<1>5. CASE AddWorktree \/ AddWorktreeFails
  BY <1>5 DEF AddWorktree, AddTree, AddWorktreeFails, IncrementRetry
<1>6. CASE FindClosed \/ FindNotClosed
  BY <1>6 DEF FindClosed, ShownClosed, FindNotClosed, IncrementRetry
<1>7. CASE PushBranch \/ PushFails \/ CreatePR
  BY <1>7 DEF PushBranch, PushFails, CreatePR, PopRetry
<1>8. CASE Release
  BY <1>8 DEF Release, GiveBack
<1>9. CASE AgentStep
  BY <1>9 DEF AgentStep, AgentCommits, AgentCloses, AgentExits, ClientLost
<1>10. CASE Environment
  BY <1>10 DEF Environment, ChangePlan, OthersClose, StrayStep, StrayCommits, StrayWrites, StrayCloses,
               StrayEnds, Restart
<1> QED
  BY <1>1, <1>2, <1>3, <1>4, <1>5, <1>6, <1>7, <1>8, <1>9, <1>10 DEF Next, LoopStep

\* Without a fault and without somebody else who closes a bead too late, no work of a
\* closed bead is removed that the origin has not got: these are the only causes.
THEOREM WorkIsKeptUndisturbed == Spec /\ [][Undisturbed]_vars => ClosedWorkIsKept
<1>1. Init => PushedBeforeRemoval
  BY DEF Init, PushedBeforeRemoval
<1>2. IInv /\ PushedBeforeRemoval /\ [Next]_vars /\ [Undisturbed]_vars => PushedBeforeRemoval'
  <2>1. CASE UNCHANGED vars
    BY <2>1 DEF vars, git, origin, PushedBeforeRemoval
  <2> QED
    BY <2>1, PushedStep DEF IInv
<1>3. IInv /\ PushedBeforeRemoval /\ [Next]_vars /\ [Undisturbed]_vars =>
        [\A k \in Keys : branch[k] = "work" /\ k \in closed /\ branch'[k] # "work" => pushed[k] = "work"]_vars
  <2> SUFFICES ASSUME IInv, PushedBeforeRemoval, Next, Undisturbed, NEW k \in Keys,
                      branch[k] = "work", k \in closed, branch'[k] # "work"
               PROVE  pushed[k] = "work"
    OBVIOUS
  <2> USE DEF IInv, TypeOK, HoldsOne, Holding, Setup, Tree, git, origin
  <2>1. CASE ClearStaleBranch
    BY <2>1 DEF ClearStaleBranch, RemoveBranch, PushedBeforeRemoval, Tidy, Clean
  <2>2. CASE RemoveFinalBranch
    BY <2>2 DEF RemoveFinalBranch, RemoveBranch, PushedBeforeRemoval
  <2>3. CASE AddWorktree
    BY <2>3 DEF AddWorktree, AddTree, Addable
  <2>4. CASE AddWorktreeFails
    BY <2>4 DEF AddWorktreeFails
  <2>5. CASE AgentCommits \/ \E j \in Keys : StrayCommits(j)
    BY <2>5 DEF AgentCommits, StrayCommits
  <2>6. CASE UNCHANGED branch
    BY <2>6
  <2> QED
    BY <2>1, <2>2, <2>3, <2>4, <2>5, <2>6
       DEF Next, LoopStep, AgentStep, Environment, StartScan, StartScanWith, EndScan, PickBead, SkipProject,
           Halt, Begin, ClearStaleTree, RemoveFinalTree, RemoveTree, SpawnAgent, SpawnFails, FindClosed,
           FindNotClosed, PushBranch, PushFails, CreatePR, Release, GiveBack, AgentCloses, AgentExits, ClientLost,
           ChangePlan, OthersClose, StrayStep, StrayWrites, StrayCloses, StrayEnds, Restart
<1> QED
  BY <1>1, <1>2, <1>3, Inductive, PTL DEF Spec, ClosedWorkIsKept
=============================================================================
