\* Two runners start at the same time on one machine.
SPECIFICATION Spec
CONSTANTS
    r1 = r1
    r2 = r2
    twin = twin
    far = far
    Runners = {r1, r2}
    Machine <- MCMachine
    Host <- MCHost
    Pid <- MCPid
    Free = Free
    Torn = Torn
INVARIANT
    MutualExclusion
