---------------------------- MODULE MCRunnerLoop ----------------------------
(***************************************************************************)
(* Instances of RunnerLoop for TLC.                                        *)
(***************************************************************************)
EXTENDS RunnerLoopInvariants, TLC

\* Issues differ in nothing but their name.
Symmetry == Permutations(Issues)
=============================================================================
