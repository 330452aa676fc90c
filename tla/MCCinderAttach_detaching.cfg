\* An attach reported while the volume is still detaching from the same instance.
CONSTANTS
    i1 = i1
    i2 = i2
    v1 = v1
    w1 = w1
    w2 = w2
    Instances <- MCInstances
    Volumes <- MCVolumes
    Workers <- MCWorkers
    NoServer = NoServer
    Uncertain = Uncertain
    AttachSteps = 2
    DetachSteps = 2
    CoTimeouts = FALSE
    ApiFailures = FALSE
SPECIFICATION Spec
INVARIANT CoViewSound
