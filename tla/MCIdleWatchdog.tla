---------------------------- MODULE MCIdleWatchdog ----------------------------
(***************************************************************************)
(* Instances of IdleWatchdog: asks a1 and a2, the dispatch's own session,  *)
(* the session of another dispatch of the same project, and the streams.   *)
(***************************************************************************)
EXTENDS IdleWatchdog

CONSTANTS a1, a2, own, twin, stdout, stderr
============================================================================
