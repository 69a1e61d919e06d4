---------------------------- MODULE MCRunnerLock ----------------------------
(***************************************************************************)
(* Instances of RunnerLock for TLC: up to two runners of one machine, one  *)
(* of a second machine that goes by the same name and has a pid in common  *)
(* with the first, and one of a third machine with a name of its own.      *)
(***************************************************************************)
EXTENDS RunnerLock

CONSTANTS r1, r2, twin, far

MCMachine == [p \in Runners |-> CASE p = twin -> "B" [] p = far -> "C" [] OTHER -> "A"]

\* Two machines do not export HOSTNAME, the third does.
MCHost == [p \in Runners |-> IF p = far THEN "devbox" ELSE "localhost"]

MCPid == [p \in Runners |-> IF p = r2 THEN 2 ELSE 1]
=============================================================================
