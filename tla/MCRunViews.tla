------------------------------ MODULE MCRunViews ------------------------------
(***************************************************************************)
(* Instances of RunViews for TLC: what the clients print, and which runs   *)
(* have a viewer.                                                          *)
(***************************************************************************)
EXTENDS RunViews, FiniteSets

LineOf(glyph, token, mark) == [glyph |-> glyph, token |-> token, mark |-> mark]

Read     == LineOf("read", "planning", "none")
Think    == LineOf("tool", "planning", "none")
Glob     == LineOf("glob", "planning", "none")
Bash     == LineOf("tool", "execution", "none")
Delegate == LineOf("delegation", "execution", "none")
Unknown  == LineOf("other", "execution", "none")
Failure  == LineOf("none", "none", "error")
Noise    == LineOf("none", "none", "none")

\* What clients print in the runs, and what a timeline is made of.
MCScripts == {<<Think, Delegate>>, <<Read, Noise>>, <<Unknown>>}
MCTexts   == UNION {[1..n -> {Read, Glob, Bash, Failure, Noise}] : n \in 0..5}

\* A run has an issue to report to and two faults; or it is looked at, and has one
\* fault left of the two, since its first manifest could not be written.
MCInit ==
  /\ ViewInit
  /\ looks \in {0, Looks}
  /\ looks # 0 => dispatch = "adhoc" /\ manifest = "absent" /\ script = <<Think, Delegate>>

MCSpec == MCInit /\ [][ViewNext]_viewVars /\ Fairness
============================================================================
