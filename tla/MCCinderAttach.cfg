\* Safety of the attach/detach protocol with lossy API calls and a CO that
\* serialises requests per volume and always waits for the reply.
CONSTANTS
    i1 = i1
    i2 = i2
    v1 = v1
    w1 = w1
    w2 = w2
    Instances <- MCInstances
    Volumes <- MCVolumes
    Workers <- MCWorkers
    NoServer = NoServer
    Uncertain = Uncertain
    AttachSteps = 2
    DetachSteps = 2
    CoTimeouts = FALSE
    ApiFailures = TRUE
SPECIFICATION Spec
INVARIANT NoLeakedAttachment
