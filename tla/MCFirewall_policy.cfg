\* One command line, no daemon: what completed refreshes enforce.
SPECIFICATION Spec
CONSTANTS
    near = near
    far = far
    N = 3
    Outside = {near, far}
    Host = host
    Manifests <- AllManifests
    Clients = {k}
    Loops = {}
    Built = FALSE
    MaxDeploys = 1
    MaxFaults = 0
INVARIANTS TypeOK Enforced
