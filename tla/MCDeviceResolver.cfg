\* Both resolver implementations against udev and a flapping metadata
\* service, on a node where every disk has its own bus/address.
CONSTANTS
    v1 = v1
    v2 = v2
    vs = vs
    d1 = d1
    d2 = d2
    d3 = d3
    a1 = a1
    a2 = a2
    a3 = a3
    NoVolume = NoVolume
    NoDev = NoDev
    Volumes <- MCVolumes
    ShortIds <- MCShortIds
    Prefix20 <- MCPrefix20
    Devs <- MCDevs
    Addrs <- MCAddrs
    OpenStackSteps = 2
    MountSteps = 2
    SharedAddrs = FALSE
SPECIFICATION Spec
INVARIANTS
    ResolvedIsOwn
PROPERTY
    ImplementsResolveDevicePath
