\* One command line, two services.
SPECIFICATION Spec
CONSTANTS
    near = near
    far = far
    N = 2
    Outside = {near, far}
    Host = host
    Manifests <- ReplyManifests
    Clients = {k}
    Loops = {}
    Built = TRUE
    MaxDeploys = 0
    MaxFaults = 0
INVARIANTS RepliesPass
