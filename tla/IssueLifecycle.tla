--------------------------- MODULE IssueLifecycle ---------------------------
(***************************************************************************)
(* What the local runner promises about its journal, whatever it does to   *)
(* GitHub in between: every issue moves through a small life cycle, and    *)
(* the machine works on one issue at a time.  RunnerLoop implements this   *)
(* specification with phase[i] the status of the record of issue i.        *)
(***************************************************************************)

CONSTANTS Issues

VARIABLES phase   \* phase[i]: the status the journal records for issue i

Phases == {"none", "in-progress", "awaiting-review", "blocked", "done"}

ActivePhases == {"in-progress", "awaiting-review"}

Active == {i \in Issues : phase[i] \in ActivePhases}

Init == phase = [i \in Issues |-> "none"]

Move(i, from, to) ==
    /\ phase[i] \in from
    /\ phase' = [phase EXCEPT ![i] = to]

\* A new issue is claimed only by a machine with nothing in flight.
Claim(i) == Active = {} /\ Move(i, Phases, "in-progress")

\* A published change goes back to the bench: red checks or a conflict.
Resume(i) == Move(i, {"awaiting-review"}, "in-progress")

Publish(i) == Move(i, {"in-progress"}, "awaiting-review")

GiveUp(i) == Move(i, ActivePhases, "blocked")

\* GitHub has merged or closed the pull request the record names.
Settle(i) == Move(i, ActivePhases, "done")

\* A journal that cannot be read back counts as empty.
Forget == phase' = [i \in Issues |-> "none"]

Next ==
    \/ \E i \in Issues :
          Claim(i) \/ Resume(i) \/ Publish(i) \/ GiveUp(i) \/ Settle(i)
    \/ Forget

Spec == Init /\ [][Next]_phase
=============================================================================
