----------------------------- MODULE RunnerLock -----------------------------
(***************************************************************************)
(* .loop/runner.lock: what keeps two runners of one checkout apart         *)
(* (lock.ts, and its use in preflight.ts and bin/loop.ts).  The lock is a  *)
(* file that is read, and then written; nothing makes the two one step,    *)
(* and writing is truncating first.  A process that finds a lock in the    *)
(* way ends "refused".                                                     *)
(*                                                                         *)
(* A lock names its owner by pid and host, and the host is what HOSTNAME   *)
(* says in the runner's environment, or else "localhost" (lock.ts:58):     *)
(* runners of two machines may well go by one name.                        *)
(***************************************************************************)
EXTENDS Naturals

CONSTANTS
    Runners,     \* runner processes, on every machine that shares the checkout
    Machine,     \* Machine[p]: where runner p runs
    Host,        \* Host[p]: the host it writes into its lock
    Pid,         \* Pid[p]: its pid, which means something on its machine only
    Free,        \* no lock file
    Torn         \* a lock file that does not parse

ASSUME LockAssumption ==
    /\ \A p, q \in Runners : Machine[p] = Machine[q] /\ Pid[p] = Pid[q] => p = q
    /\ Free \notin Runners
    /\ Torn \notin Runners

VARIABLES
    pc,          \* pc[p]: the next access of runner p to the lock
    file,        \* what the lock file says: its owner, Free or Torn
    raced,  \* history: a runner read the lock while another was about to write it
    mistaken,    \* history: a living runner's lock fell to another machine of its name
    killed       \* history: runners that were killed

vars == <<pc, file, raced, mistaken, killed>>

-----------------------------------------------------------------------------
Dead == {"off", "refused"}

Alive(p) == pc[p] \notin Dead

\* kill(pid, 0) where p runs, for the pid the lock names.
isRunning(p) ==
    \E r \in Runners : Machine[r] = Machine[p] /\ Pid[r] = Pid[file] /\ Alive(r)

\* The lock is that of a runner alive on another machine that goes by the name of p's.
LivesElsewhere(p) ==
    /\ file \in Runners
    /\ Host[file] = Host[p]
    /\ Machine[file] # Machine[p]
    /\ Alive(file)

\* The runners between reading the lock and having written it.
Taking == {p \in Runners : pc[p] \in {"truncate", "write"}}

Goto(p, to) == pc' = [pc EXCEPT ![p] = to]

Init ==
    /\ pc = [p \in Runners |-> "off"]
    /\ file = Free
    /\ raced = FALSE
    /\ mistaken = FALSE
    /\ killed = {}

Launch(p) ==
    /\ pc[p] \in Dead
    /\ Goto(p, "preflight")
    /\ UNCHANGED <<file, raced, mistaken, killed>>

\* preflight: any lock that can be read is a problem, whoever holds it.
Preflight(p) ==
    /\ pc[p] = "preflight"
    /\ Goto(p, IF file \in Runners THEN "refused" ELSE "acquire")
    /\ UNCHANGED <<file, raced, mistaken, killed>>

\* mutant: any lock whose pid is not running here is stale
HeldHere(p) == file \in Runners /\ isRunning(p)

\* The lock acquireLock leaves alone: another host's, or one whose pid is running here.
Held(p) == file \in Runners /\ (Host[file] = Host[p] => isRunning(p))

\* acquireLock, the read, of a lock that is Held; or the pid of a runner that is gone is
\* by now that of some other process.
RefuseLock(p) ==
    /\ pc[p] = "acquire"
    /\ file \in Runners
    /\ Goto(p, "refused")
    /\ UNCHANGED <<file, raced, mistaken, killed>>

\* acquireLock, the read, of a lock that is not.  One that does not parse counts as none.
Acquire(p) ==
    /\ pc[p] = "acquire"
    /\ ~Held(p)
    /\ Goto(p, "truncate")
    /\ raced' = (raced \/ Taking # {})
    /\ mistaken' = (mistaken \/ LivesElsewhere(p))
    /\ UNCHANGED <<file, killed>>

\* acquireLock, writeFile: empty the file, then write it.
Truncate(p) ==
    /\ pc[p] = "truncate"
    /\ file' = Torn
    /\ Goto(p, "write")
    /\ UNCHANGED <<raced, mistaken, killed>>

\* Over what another runner wrote meanwhile, a shorter text leaves a longer one's tail.
WriteLock(p) ==
    /\ pc[p] = "write"
    /\ file' = p \/ (file \in Runners /\ file' = Torn)
    /\ Goto(p, "working")
    /\ UNCHANGED <<raced, mistaken, killed>>

\* runOnce or runUnattended returned or threw: main's finally.
EndWork(p) ==
    /\ pc[p] = "working"
    /\ Goto(p, "release")
    /\ UNCHANGED <<file, raced, mistaken, killed>>

\* The pid and the host that the lock names are this runner's.
Own(p) == file \in Runners /\ Pid[file] = Pid[p] /\ Host[file] = Host[p]

\* mutant: a runner that is done leaves its lock to be found stale
KeepOwn(p) ==
    /\ pc[p] = "release"
    /\ Goto(p, IF Own(p) THEN "off" ELSE "remove")
    /\ UNCHANGED <<file, raced, mistaken, killed>>

\* release, the read: only its own lock.
Release(p) ==
    /\ pc[p] = "release"
    /\ Goto(p, IF Own(p) THEN "remove" ELSE "off")
    /\ UNCHANGED <<file, raced, mistaken, killed>>

\* release, rm: whatever is there by now.
Unlink(p) ==
    /\ pc[p] = "remove"
    /\ file' = Free
    /\ Goto(p, "off")
    /\ UNCHANGED <<raced, mistaken, killed>>

\* SIGKILL, SIGHUP, a reboot: nothing runs on the way out.
Kill(p) ==
    /\ pc[p] \notin Dead
    /\ Goto(p, "off")
    /\ killed' = killed \cup {p}
    /\ UNCHANGED <<file, raced, mistaken>>

\* "deleting .loop/runner.lock is safe once that process is gone": an operator looks for
\* the pid on a machine of the name the lock has, and deletes it.
Delete ==
    /\ file \in Runners
    /\ \E p \in Runners :
          /\ Host[p] = Host[file]
          /\ ~isRunning(p)
          /\ mistaken' = (mistaken \/ LivesElsewhere(p))
    /\ file' = Free
    /\ UNCHANGED <<pc, raced, killed>>

Next ==
    \/ \E p \in Runners :
          \/ Launch(p) \/ Preflight(p) \/ RefuseLock(p) \/ Acquire(p) \/ Truncate(p)
          \/ WriteLock(p) \/ EndWork(p) \/ Release(p) \/ Unlink(p) \/ Kill(p)
    \/ Delete

Spec == Init /\ [][Next]_vars

-----------------------------------------------------------------------------
(***************************************************************************)
(* Properties.                                                             *)
(***************************************************************************)

\* Runners are at a known access to the lock, and the file names a runner, is torn, or
\* is not there.
TypeOK ==
    /\ pc \in [Runners -> Dead \cup {"preflight", "acquire", "truncate", "write", "working",
                                     "release", "remove"}]
    /\ file \in Runners \cup {Free, Torn}
    /\ raced \in BOOLEAN
    /\ mistaken \in BOOLEAN
    /\ killed \subseteq Runners

\* The runners between acquireLock and the end of release.
Holding == {p \in Runners : pc[p] \in {"working", "release", "remove"}}

\* "Single-runner mutual exclusion" (lock.ts), as far as it goes: one runner works at a
\* time on all machines together, whatever is killed, restarted, left behind or deleted,
\* as long as no runner ever read the lock while another was about to write it, and no
\* living runner's lock was taken over or deleted on another machine of the same name.
\* lock.ts:49-51 knows no such machine: "a PID from another machine says nothing about this
\* one, so that case needs a human rather than a guess".
ExclusiveUnlessOverlapped ==
    ~raced /\ ~mistaken => \A p, q \in Holding : p = q

\* A lock is left behind by a killed runner only: not even two runners that acquired,
\* overwrote and released each other's lock leave one that names a runner that is gone.
OnlyKillsLeaveLocks == file \in Runners /\ file \notin killed => Alive(file)

\* "A second runner on the same machine is refused" (docs/local-agent-runner.md).
MutualExclusion == \A p, q \in Holding : Machine[p] = Machine[q] => p = q
=============================================================================
