\* A command line beside the fair loop, with a deploy and a failing command.
SPECIFICATION FairSpec
CONSTANTS
    near = near
    far = far
    N = 1
    Outside = {near, far}
    Host = host
    Manifests <- LoneManifests
    Clients = {k}
    Loops = {loop}
    Built = TRUE
    MaxDeploys = 1
    MaxFaults = 1
INVARIANTS Fenced
PROPERTIES Converges
