----------------------------- MODULE MCLoopGate -----------------------------
(***************************************************************************)
(* LoopGate for TLC, with a pull request whose first commit weakens a      *)
(* protection, which a person may approve, and whose second takes that     *)
(* back.                                                                   *)
(***************************************************************************)
EXTENDS LoopGate

MendedInit == Init /\ kind[1] = "weakening"

MendedSpec == MendedInit /\ [][Next]_vars

\* An action constraint.
SecondIsLow == head' = 2 => kind'[2] = "low"
=============================================================================
